\* max_concurrency = 1: every acquisition fills the cap, so each on_event
\* closes the circuit breaker and its guard drop restores it. The clients
\* channel has one slot for three reconnects, so a connect finds it full
\* and waits for the sink to take the queued pool.
CONSTANTS
    e1 = e1
    e2 = e2
    e3 = e3
    e4 = e4
    e5 = e5
    NoEvent = NoEvent
    Events <- MCEvents
    MaxConcurrency = 1
    MaxReplies = 1
    RespCap = 1
    ClientsCap = 1
    MaxConnects = 3
    IdxWrap <- MCIdxWrap
    CanTeardown = FALSE
SPECIFICATION Spec
PROPERTY ConnectReturns
