-------------------------- MODULE ConnectorLifecycle --------------------------
(***************************************************************************)
(* Building the http_client connector and its two halves (client.rs):      *)
(* Builder::from_config, Connector::codec_requirements, create_source and  *)
(* create_sink. The source and the sink each build an HttpRequestMeta from *)
(* the connector config with the default codec "json"; HttpRequestMeta is  *)
(* outside the repository and is modelled by what the tests of client.rs   *)
(* assert of it: the config's codec if one is given, else the default, and *)
(* an error for a codec it does not know.                                  *)
(*                                                                         *)
(* A connector config is a record: its "config" section (absent, one that  *)
(* Config::new rejects, or valid), its codec_map (absent, one structurize  *)
(* rejects, or valid), and its codec name ("none" if not given).           *)
(***************************************************************************)
EXTENDS FiniteSets

CONSTANTS
    CodecNames,    \* codec names a config may carry
    KnownCodecs,   \* those HttpRequestMeta::from_config can construct
    Configs        \* the connector configs the runtime may hand over

ConfigShapes ==
    [config : {"absent", "invalid", "valid"},
     codecMap : {"absent", "invalid", "valid"},
     codec : {"none"} \cup CodecNames]

ASSUME /\ KnownCodecs \subseteq CodecNames
       /\ "json" \in KnownCodecs
       /\ Configs \subseteq ConfigShapes

VARIABLES cfg, conn, source, sink
vars == <<cfg, conn, source, sink>>

NotYet == [st |-> "none"]
Err(kind) == [st |-> "err", kind |-> kind]

\* Mutant: a config without a codec leaves codec_name unset.
BuildConnectorNoDefault(c) ==
    CASE c.config = "absent" -> Err("missing_configuration")
      [] c.config = "invalid" -> Err("config")
      [] c.codecMap = "invalid" -> Err("codec_map")
      [] OTHER -> [st |-> "built", codecName |-> c.codec]

(* Builder::from_config: codec_name is the config's codec or "json"; a     *)
(* missing config section is MissingConfiguration; Config::new and the     *)
(* codec_map's structurize fail with `?`; otherwise the connector (with    *)
(* its two bounded(128) channels) is built.                                *)
BuildConnector(c) ==
    CASE c.config = "absent" -> Err("missing_configuration")
      [] c.config = "invalid" -> Err("config")
      [] c.codecMap = "invalid" -> Err("codec_map")
      [] OTHER -> [st |-> "built",
                   codecName |-> IF c.codec = "none" THEN "json" ELSE c.codec]

(* HttpRequestMeta::from_config(config, default), as the tests assert.     *)
MetaFromConfig(c, default) ==
    LET name == IF c.codec = "none" THEN default ELSE c.codec
    IN IF name \in KnownCodecs THEN [st |-> "ok", codec |-> name] ELSE Err("codec")

Init ==
    /\ cfg \in Configs
    /\ conn = NotYet
    /\ source = NotYet
    /\ sink = NotYet

\* The runtime builds the connector from its config.
FromConfig ==
    /\ conn = NotYet
    /\ conn' = BuildConnector(cfg)
    /\ UNCHANGED <<cfg, source, sink>>

(* create_source: HttpRequestSource with the meta for default codec json,  *)
(* sharing a clone of response_rx; `?` on the meta.                        *)
CreateSource ==
    /\ conn.st = "built" /\ source = NotYet
    /\ source' = MetaFromConfig(cfg, "json")
    /\ UNCHANGED <<cfg, conn, sink>>

(* create_sink: HttpRequestSink::new with the meta for default codec json; *)
(* `?` on the meta.                                                        *)
CreateSink ==
    /\ conn.st = "built" /\ sink = NotYet
    /\ sink' = MetaFromConfig(cfg, "json")
    /\ UNCHANGED <<cfg, conn, source>>

Next == FromConfig \/ CreateSource \/ CreateSink

Spec == Init /\ [][Next]_vars

-----------------------------------------------------------------------------
Results == {NotYet} \cup {Err(k) : k \in {"missing_configuration", "config", "codec_map", "codec"}}

TypeOK ==
    /\ cfg \in Configs
    /\ conn \in Results \cup [st : {"built"}, codecName : CodecNames]
    /\ source \in Results \cup [st : {"ok"}, codec : KnownCodecs]
    /\ sink \in Results \cup [st : {"ok"}, codec : KnownCodecs]
====
