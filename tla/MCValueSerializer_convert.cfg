\* to_value on every item of MCInputs: scalars of every width, sequences,
\* tuples, variants, maps with string-like and rejected keys, structs,
\* repeated keys and errors nested two deep.
CONSTANTS
    W = 4
    Inputs <- MCInputs
    Values = {}
SPECIFICATION Spec
\* to_value is a function call: it returns once and the model stops there.
CHECK_DEADLOCK FALSE
INVARIANT TypeOK
INVARIANT KeyErrorsExact
INVARIANT LastKeyWins
