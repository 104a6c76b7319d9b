\* One connect gives a pool of three clients (max_concurrency = 4); five
\* events take SurfClients.idx past its wrap. Responses carry no replies.
CONSTANTS
    e1 = e1
    e2 = e2
    e3 = e3
    e4 = e4
    e5 = e5
    NoEvent = NoEvent
    Events <- MCEvents5
    MaxConcurrency = 4
    MaxReplies = 0
    RespCap = 1
    ClientsCap = 1
    MaxConnects = 1
    IdxWrap <- MCIdxWrapMod3
    CanTeardown = FALSE
SPECIFICATION Spec
INVARIANT RoundRobin
