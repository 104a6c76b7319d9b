CONSTANT Texts <- MCTexts
INIT Init
NEXT Next
CHECK_DEADLOCK FALSE
INVARIANTS TypeOK DecodeExact
