CONSTANTS
    Strings <- MCStrings
    GcpTokens <- MCGcpTokens
INIT Init
NEXT Next
CHECK_DEADLOCK FALSE
INVARIANTS TypeOK BasicDecodes ApiKeyFieldsSeparate
