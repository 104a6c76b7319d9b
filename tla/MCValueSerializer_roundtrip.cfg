\* tremor Values (U64 on both sides of i64::MAX, I64, nested in arrays and
\* objects) fed through impl Serialize for Value into to_value.
CONSTANTS
    W = 4
    Inputs <- MCValueInputs
    Values <- MCValues
SPECIFICATION Spec
CHECK_DEADLOCK FALSE
INVARIANT ValueRoundTrip
