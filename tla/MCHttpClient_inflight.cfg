\* max_concurrency = 2 (one client): three events can have three exchanges in flight.
CONSTANTS
    e1 = e1
    e2 = e2
    e3 = e3
    e4 = e4
    e5 = e5
    NoEvent = NoEvent
    Events <- MCEvents
    MaxConcurrency = 2
    MaxReplies = 1
    RespCap = 1
    ClientsCap = 1
    MaxConnects = 1
    IdxWrap <- MCIdxWrap
    CanTeardown = FALSE
SPECIFICATION Spec
INVARIANT InFlightBounded
