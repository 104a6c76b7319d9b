------------------------- MODULE MCConnectorLifecycle -------------------------
EXTENDS ConnectorLifecycle

\* json (the default), string and msgpack are known; snot is not (as in the
\* tests of client.rs).
MCCodecNames == {"json", "string", "msgpack", "snot"}
MCKnownCodecs == {"json", "string", "msgpack"}
MCConfigs == ConfigShapes
====
