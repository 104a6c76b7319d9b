CONSTANTS
    CodecNames <- MCCodecNames
    KnownCodecs <- MCKnownCodecs
    Configs <- MCConfigs
INIT Init
NEXT Next
CHECK_DEADLOCK FALSE
INVARIANTS TypeOK
