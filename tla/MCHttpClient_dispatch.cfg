\* Three events through a pool of two clients (max_concurrency = 3), with
\* up to two reconnects, responses of 0..2 replies and a response channel
\* of capacity 1, so that tasks block on a full channel; the runtime may
\* tear the connector down with tasks in flight.
CONSTANTS
    e1 = e1
    e2 = e2
    e3 = e3
    e4 = e4
    e5 = e5
    NoEvent = NoEvent
    Events <- MCEvents
    MaxConcurrency = 3
    MaxReplies = 2
    RespCap = 1
    ClientsCap = 2
    MaxConnects = 2
    IdxWrap <- MCIdxWrap
    CanTeardown = TRUE
SPECIFICATION Spec
INVARIANT TypeOK
INVARIANT ReplyConservation
INVARIANT RoundRobin
INVARIANT ReplyOrder
PROPERTY AllRepliesDelivered
PROPERTY ExchangeRefined
PROPERTY TeardownEndsTasks
