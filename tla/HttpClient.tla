------------------------------ MODULE HttpClient ------------------------------
(***************************************************************************)
(* The http_client connector of src/connectors/impls/http/client.rs: the   *)
(* sink (HttpRequestSink::on_event / on_signal), its rotating pool of      *)
(* surf clients (SurfClients), the concurrency cap it acquires per event,  *)
(* the detached task spawned per request, the bounded response channel     *)
(* (response_tx / response_rx) and the source that drains it               *)
(* (HttpRequestSource::pull_data), and Connector::connect, which sends a   *)
(* fresh client pool over the bounded clients channel.                     *)
(*                                                                         *)
(* Requests, responses and clients are abstracted: an event is a model     *)
(* value, a client is its index in the pool, a reply is the event it       *)
(* answers plus its kind ("data" for a decoded unit, "s415" for the        *)
(* synthesised {"status": 415} reply of a codec error).                    *)
(***************************************************************************)
EXTENDS Naturals, Sequences, FiniteSets

CONSTANTS
    Events,          \* the inbound events the pipeline hands to the sink
    MaxConcurrency,  \* config.concurrency, the cap of ConcurrencyCap
    MaxReplies,      \* most source replies one response decodes into
    RespCap,         \* capacity of bounded(128) response channel
    ClientsCap,      \* capacity of bounded(128) clients channel
    MaxConnects,     \* bound on Connector::connect calls (reconnects)
    IdxWrap,         \* 2^(usize width): SurfClients.idx wraps here
    CanTeardown,     \* whether the runtime may tear the connector down
    NoEvent          \* no event in hand (a model value)

ASSUME /\ MaxConcurrency \in Nat \ {0}
       /\ MaxReplies \in Nat
       /\ RespCap \in Nat \ {0}
       /\ ClientsCap \in Nat \ {0}
       /\ MaxConnects \in Nat
       /\ IdxWrap \in Nat \ {0}
       /\ NoEvent \notin Events
       /\ CanTeardown \in BOOLEAN

VARIABLES
    pending,     \* events the pipeline has not yet handed to on_event
    clientsChan, \* clients_tx -> clients_rx: pools sent by connect
    connects,    \* number of connect calls that have returned
    connecting,  \* a connect call is suspended in clients_tx.send
    closed,      \* the connector, sink and source have been dropped
    pool,        \* HttpRequestSink.clients: [gen, len] of the current pool
    idx,         \* SurfClients.idx, the rotation cursor
    picks,       \* history: client indices next() returned since the swap
    count,       \* ConcurrencyCap counter (live guards)
    cb,          \* last circuit-breaker signal sent on reply_tx
    sinkPc,      \* "idle" or "acquired" (on_event holds a guard)
    cur,         \* the event on_event is handling
    result,      \* what on_event returned for each event
    dispGen,     \* generation of the pool each event was dispatched with
    task,        \* state of the task spawned for each event
    outcome,     \* what HttpResponseMeta::invoke returned in that task
    produced,    \* replies that task has to deliver
    toSend,      \* replies that task has not yet sent
    dropped,     \* replies that task gave up when a send failed
    respChan,    \* response_tx -> response_rx
    delivered,   \* replies pull_data has returned, in order
    pullResult   \* what the last pull_data returned

vars == <<pending, clientsChan, connects, connecting, closed, pool, idx, picks, count,
          cb, sinkPc, cur, result, dispGen, task, outcome, produced, toSend, dropped, respChan,
          delivered, pullResult>>
sinkVars == <<pending, clientsChan, pool, idx, picks, count, cb, sinkPc, cur,
              result, dispGen>>
taskVars == <<task, outcome, produced, toSend, dropped>>
sourceVars == <<delivered, pullResult>>
connVars == <<connects, connecting, closed>>

Gens == 0..MaxConnects
Pool == [gen : Gens, len : Nat]
Reply == [ev : Events, kind : {"data", "s415"}, seq : 1..MaxReplies]

\* Number of replies answering event e in the sequence s.
Copies(e, s) == Cardinality({i \in DOMAIN s : s[i].ev = e})

-----------------------------------------------------------------------------
(* Connector::connect: `for _i in 1..self.max_concurrency` pushes one      *)
(* client per iteration, i.e. max_concurrency - 1 clients.                 *)
ClientsBuilt == Cardinality(1..(MaxConcurrency - 1))

(* Connector::connect is called (never twice at once): it builds the      *)
(* clients and reaches clients_tx.send(clients).await.                     *)
ConnectCall ==
    /\ ~connecting /\ ~closed
    /\ connects < MaxConnects
    /\ connecting' = TRUE
    /\ UNCHANGED <<connects, closed, sinkVars, taskVars, respChan, sourceVars>>

(* The send completes once the bounded channel has room; connect returns   *)
(* Ok(true). While the channel is full the call stays suspended.           *)
Connect ==
    /\ connecting
    /\ Len(clientsChan) < ClientsCap
    /\ clientsChan' = Append(clientsChan, [gen |-> connects + 1, len |-> ClientsBuilt])
    /\ connects' = connects + 1
    /\ connecting' = FALSE
    /\ UNCHANGED <<pending, pool, idx, picks, count, cb, sinkPc, cur, result,
                   dispGen>>
    /\ UNCHANGED <<closed, taskVars, respChan, sourceVars>>

\* Mutant: try_recv is replaced by a look at the head, which stays queued.
RefreshClientsPeek ==
    IF clientsChan # <<>>
    THEN /\ pool' = Head(clientsChan)
         /\ idx' = 0
         /\ picks' = <<>>
         /\ UNCHANGED clientsChan
    ELSE UNCHANGED <<pool, clientsChan, idx, picks>>

\* Mutant: the swap keeps the old cursor instead of SurfClients::new's 0.
RefreshClientsKeepIdx ==
    IF clientsChan # <<>>
    THEN /\ pool' = Head(clientsChan)
         /\ clientsChan' = Tail(clientsChan)
         /\ picks' = <<>>
         /\ UNCHANGED idx
    ELSE UNCHANGED <<pool, clientsChan, idx, picks>>

(* HttpRequestSink::refresh_clients: one try_recv; on success the whole    *)
(* pool is replaced by SurfClients::new(new_clients), whose idx is 0.      *)
RefreshClients ==
    IF clientsChan # <<>>
    THEN /\ pool' = Head(clientsChan)
         /\ clientsChan' = Tail(clientsChan)
         /\ idx' = 0
         /\ picks' = <<>>
    ELSE UNCHANGED <<pool, clientsChan, idx, picks>>

(* ConcurrencyCap::inc_for: reserve a slot, signalling the circuit breaker *)
(* closed when the reservation fills the cap; suspends while it is full.   *)
IncFor ==
    /\ count < MaxConcurrency
    /\ count' = count + 1
    /\ cb' = IF count + 1 = MaxConcurrency THEN "closed" ELSE cb

(* Drop of the ConcurrencyCap guard: free the slot, and restore the        *)
(* circuit breaker if the cap was full.                                    *)
GuardDrop ==
    /\ count' = count - 1
    /\ cb' = IF count = MaxConcurrency THEN "open" ELSE cb

-----------------------------------------------------------------------------
(* on_event, first half: refresh_clients, then concurrency_cap.inc_for.    *)
OnEvent(e) ==
    /\ sinkPc = "idle" /\ ~closed
    /\ e \in pending
    /\ pending' = pending \ {e}
    /\ RefreshClients
    /\ IncFor
    /\ sinkPc' = "acquired"
    /\ cur' = e
    /\ UNCHANGED <<connVars, result, dispGen, taskVars, respChan, sourceVars>>

(* SurfClients::next on a non-empty pool: the client at idx % len, and the *)
(* cursor advances (usize addition, wrapping at IdxWrap).                  *)
NextClient ==
    /\ pool.len > 0
    /\ picks' = Append(picks, idx % pool.len)
    /\ idx' = (idx + 1) % IdxWrap

(* on_event returns r for the current event; the guard, never moved into   *)
(* the spawned task, is dropped here on every path.                        *)
Return(r) ==
    /\ result' = [result EXCEPT ![cur] = r]
    /\ dispGen' = [dispGen EXCEPT ![cur] = pool.gen]
    /\ GuardDrop
    /\ sinkPc' = "idle"
    /\ cur' = NoEvent

(* A client was available; request built, codec and processors looked up,  *)
(* the task spawned; on_event returns SinkReply::NONE.                     *)
DispatchSpawn ==
    /\ sinkPc = "acquired"
    /\ NextClient
    /\ Return("none")
    /\ task' = [task EXCEPT ![cur] = "exchanging"]
    /\ UNCHANGED <<pending, clientsChan, connVars, pool, outcome, produced,
                   toSend, dropped, respChan, sourceVars>>

(* A client was taken, but http_meta.process or a processor lookup failed: *)
(* the `?` returns Err from on_event and no task is spawned.               *)
DispatchBuildError ==
    /\ sinkPc = "acquired"
    /\ NextClient
    /\ Return("error")
    /\ UNCHANGED <<pending, clientsChan, connVars, pool, taskVars, respChan,
                   sourceVars>>

(* The pool is empty: next() is None, on_event returns SinkReply::FAIL.    *)
DispatchNoClient ==
    /\ sinkPc = "acquired"
    /\ pool.len = 0
    /\ Return("fail")
    /\ UNCHANGED <<pending, clientsChan, connVars, pool, idx, picks, taskVars,
                   respChan, sourceVars>>

Dispatch == DispatchSpawn \/ DispatchBuildError \/ DispatchNoClient

(* on_signal: refresh_clients only (a failed try_recv is a stutter).       *)
OnSignal ==
    /\ sinkPc = "idle" /\ ~closed
    /\ clientsChan # <<>>
    /\ RefreshClients
    /\ UNCHANGED <<pending, connVars, count, cb, sinkPc, cur, result, dispGen,
                   taskVars, respChan, sourceVars>>

-----------------------------------------------------------------------------
\* Mutant: the codec-error reply is built but its send is never awaited.
TaskInvokeCodecUnsent(e) ==
    /\ task[e] = "exchanging"
    /\ \/ \E k \in 0..MaxReplies :
            /\ outcome' = [outcome EXCEPT ![e] = "valid"]
            /\ produced' = [produced EXCEPT ![e] = k]
            /\ toSend' = [toSend EXCEPT ![e] = k]
            /\ task' = [task EXCEPT ![e] = IF k = 0 THEN "done" ELSE "sending"]
       \/ /\ outcome' = [outcome EXCEPT ![e] = "codec"]
          /\ produced' = [produced EXCEPT ![e] = 1]
          /\ toSend' = [toSend EXCEPT ![e] = 1]
          /\ task' = [task EXCEPT ![e] = "done"]
       \/ /\ outcome' = [outcome EXCEPT ![e] = "err"]
          /\ task' = [task EXCEPT ![e] = "done"]
          /\ UNCHANGED <<produced, toSend>>
    /\ UNCHANGED <<sinkVars, connVars, dropped, respChan, sourceVars>>

(* The spawned task: HttpResponseMeta::invoke either decodes the response  *)
(* into zero or more source replies, reports a codec error (one 415 reply  *)
(* carrying the request meta is built), or fails at the transport level,   *)
(* which is only logged.                                                   *)
TaskInvoke(e) ==
    /\ task[e] = "exchanging"
    /\ \/ \E k \in 0..MaxReplies :
            /\ outcome' = [outcome EXCEPT ![e] = "valid"]
            /\ produced' = [produced EXCEPT ![e] = k]
            /\ toSend' = [toSend EXCEPT ![e] = k]
            /\ task' = [task EXCEPT ![e] = IF k = 0 THEN "done" ELSE "sending"]
       \/ /\ outcome' = [outcome EXCEPT ![e] = "codec"]
          /\ produced' = [produced EXCEPT ![e] = 1]
          /\ toSend' = [toSend EXCEPT ![e] = 1]
          /\ task' = [task EXCEPT ![e] = "sending"]
       \/ /\ outcome' = [outcome EXCEPT ![e] = "err"]
          /\ task' = [task EXCEPT ![e] = "done"]
          /\ UNCHANGED <<produced, toSend>>
    /\ UNCHANGED <<sinkVars, connVars, dropped, respChan, sourceVars>>

\* Mutant: the replies are sent back to front (source_replies reversed).
ReplyOfReversed(e) == [ev |-> e, kind |-> IF outcome[e] = "codec" THEN "s415" ELSE "data",
                       seq |-> toSend[e]]

(* The next reply of e's task: the 415 reply, or the decoded reply at the *)
(* position the `for sr in source_replies` loop has reached.              *)
ReplyOf(e) == [ev |-> e, kind |-> IF outcome[e] = "codec" THEN "s415" ELSE "data",
               seq |-> produced[e] - toSend[e] + 1]


\* Mutant: the send does not wait for room in the channel.
TaskSendUnbounded(e) ==
    /\ task[e] = "sending"
    /\ toSend[e] > 0 /\ ~closed
    /\ respChan' = Append(respChan, ReplyOf(e))
    /\ toSend' = [toSend EXCEPT ![e] = @ - 1]
    /\ task' = [task EXCEPT ![e] = IF toSend[e] = 1 THEN "done" ELSE "sending"]
    /\ UNCHANGED <<sinkVars, connVars, outcome, produced, dropped, sourceVars>>

(* response_tx.send(sr).await for the next reply: suspends while the      *)
(* bounded channel is full; the task ends after its last send.            *)
TaskSend(e) ==
    /\ task[e] = "sending"
    /\ toSend[e] > 0 /\ ~closed
    /\ Len(respChan) < RespCap
    /\ respChan' = Append(respChan, ReplyOf(e))
    /\ toSend' = [toSend EXCEPT ![e] = @ - 1]
    /\ task' = [task EXCEPT ![e] = IF toSend[e] = 1 THEN "done" ELSE "sending"]
    /\ UNCHANGED <<sinkVars, connVars, outcome, produced, dropped, sourceVars>>

\* Mutant: a failed send is retried until it succeeds.
TaskSendClosedRetry(e) ==
    /\ task[e] = "sending"
    /\ toSend[e] > 0 /\ closed
    /\ UNCHANGED vars

(* A send on the closed response channel fails; the `?` ends the task, so  *)
(* this reply and every later one of the Valid loop are given up.         *)
TaskSendClosed(e) ==
    /\ task[e] = "sending"
    /\ toSend[e] > 0 /\ closed
    /\ dropped' = [dropped EXCEPT ![e] = @ + toSend[e]]
    /\ toSend' = [toSend EXCEPT ![e] = 0]
    /\ task' = [task EXCEPT ![e] = "done"]
    /\ UNCHANGED <<sinkVars, connVars, outcome, produced, respChan, sourceVars>>

(* The runtime stops the connector between two calls: the connector, its   *)
(* sink and its source are dropped, and with them every receiver of the    *)
(* response channel. The detached tasks keep running.                      *)
Teardown ==
    /\ CanTeardown
    /\ ~closed /\ sinkPc = "idle" /\ ~connecting
    /\ closed' = TRUE
    /\ UNCHANGED <<connects, connecting, sinkVars, taskVars, respChan, sourceVars>>

(* Once torn down and with every task finished, nothing is left to run.    *)
Terminated ==
    /\ closed
    /\ \A e \in Events : task[e] \in {"none", "done"}
    /\ UNCHANGED vars

-----------------------------------------------------------------------------
\* Mutant: the reply is read but left in the channel.
SourcePullPeek ==
    /\ respChan # <<>> /\ ~closed
    /\ delivered' = Append(delivered, Head(respChan))
    /\ pullResult' = "reply"
    /\ UNCHANGED <<sinkVars, connVars, taskVars, respChan>>

(* pull_data: rx.recv() within SOURCE_RECV_TIMEOUT returns the next reply. *)
SourcePull ==
    /\ respChan # <<>> /\ ~closed
    /\ delivered' = Append(delivered, Head(respChan))
    /\ respChan' = Tail(respChan)
    /\ pullResult' = "reply"
    /\ UNCHANGED <<sinkVars, connVars, taskVars>>

(* pull_data on an empty channel: the timeout's TimeoutError is turned     *)
(* into an Err by the `?`. The channel never closes, as the connector      *)
(* keeps a sender, so the RecvError branch is unreachable.                 *)
SourcePullTimeout ==
    /\ respChan = <<>> /\ ~closed
    /\ pullResult' = "error"
    /\ UNCHANGED <<sinkVars, connVars, taskVars, respChan, delivered>>

-----------------------------------------------------------------------------
(* HttpRequestSink::new starts with SurfClients::new(vec![]).              *)
Init ==
    /\ pending = Events
    /\ clientsChan = <<>>
    /\ connects = 0
    /\ connecting = FALSE
    /\ closed = FALSE
    /\ pool = [gen |-> 0, len |-> 0]
    /\ idx = 0
    /\ picks = <<>>
    /\ count = 0
    /\ cb = "open"
    /\ sinkPc = "idle"
    /\ cur = NoEvent
    /\ result = [e \in Events |-> "pending"]
    /\ dispGen = [e \in Events |-> 0]
    /\ task = [e \in Events |-> "none"]
    /\ outcome = [e \in Events |-> "none"]
    /\ produced = [e \in Events |-> 0]
    /\ toSend = [e \in Events |-> 0]
    /\ dropped = [e \in Events |-> 0]
    /\ respChan = <<>>
    /\ delivered = <<>>
    /\ pullResult = "none"

Next ==
    \/ ConnectCall
    \/ Connect
    \/ \E e \in Events : OnEvent(e)
    \/ Dispatch
    \/ OnSignal
    \/ \E e \in Events : TaskInvoke(e) \/ TaskSend(e) \/ TaskSendClosed(e)
    \/ Teardown
    \/ Terminated
    \/ SourcePull
    \/ SourcePullTimeout

(* The sink task runs on_event to completion, the async runtime polls      *)
(* every ready spawned task and wakes a connect whose send has room, and   *)
(* the source manager keeps calling pull_data. Calls of connect, and the   *)
(* arrival of events and signals, are environment choices.                 *)
Fairness ==
    /\ WF_vars(Dispatch)
    /\ WF_vars(Connect)
    /\ \A e \in Events : WF_vars(TaskInvoke(e)) /\ WF_vars(TaskSend(e))
    /\ \A e \in Events : WF_vars(TaskSendClosed(e))
    /\ WF_vars(SourcePull)

Spec == Init /\ [][Next]_vars /\ Fairness

-----------------------------------------------------------------------------
TypeOK ==
    /\ pending \subseteq Events
    /\ clientsChan \in Seq(Pool) /\ Len(clientsChan) <= ClientsCap
    /\ connects \in Gens
    /\ connecting \in BOOLEAN
    /\ closed \in BOOLEAN
    /\ pool \in Pool
    /\ idx \in 0..(IdxWrap - 1)
    /\ picks \in Seq(Nat)
    /\ count \in 0..MaxConcurrency
    /\ cb \in {"open", "closed"}
    /\ sinkPc \in {"idle", "acquired"}
    /\ cur \in Events \cup {NoEvent}
    /\ result \in [Events -> {"pending", "none", "fail", "error"}]
    /\ dispGen \in [Events -> Gens]
    /\ task \in [Events -> {"none", "exchanging", "sending", "done"}]
    /\ outcome \in [Events -> {"none", "valid", "codec", "err"}]
    /\ produced \in [Events -> 0..MaxReplies]
    /\ toSend \in [Events -> 0..MaxReplies]
    /\ dropped \in [Events -> 0..MaxReplies]
    /\ respChan \in Seq(Reply) /\ Len(respChan) <= RespCap
    /\ delivered \in Seq(Reply)
    /\ pullResult \in {"none", "reply", "error"}

(* Reply conservation, across the task, the channel and pull_data: every   *)
(* reply a task produced is, at any time, either still to be sent, in the  *)
(* response channel, or returned by pull_data exactly once; none is lost   *)
(* or duplicated however sends and pulls interleave.                       *)
ReplyConservation ==
    \A e \in Events :
        Copies(e, delivered) + Copies(e, respChan) + toSend[e] + dropped[e]
            = produced[e]

(* Every reply a spawned task produced, including the synthesised 415      *)
(* reply of a codec error, is eventually returned by pull_data: a full     *)
(* channel delays a reply but never drops it. Only a teardown of the       *)
(* connector, which drops the channel's receivers, loses replies.          *)
AllRepliesDelivered ==
    \A e \in Events :
        task[e] = "exchanging"
            ~> (task[e] = "done" /\ (Copies(e, delivered) = produced[e] \/ closed))

(* Round robin: since the last pool swap, the k-th client next() handed    *)
(* out is client (k-1) mod len, so len consecutive dispatches use every    *)
(* client of the pool once, in order.                                      *)
RoundRobin ==
    \A k \in DOMAIN picks : picks[k] = (k - 1) % pool.len

(* Replies of concurrently spawned tasks interleave in the one delivery   *)
(* channel in any order, but for each event, the replies pull_data has   *)
(* returned and those still in the channel are that event's replies       *)
(* 1, 2, ... in the order its task's send loop produced them: none is     *)
(* skipped, repeated or overtaken by a later one of the same response.    *)
ReplyOrder ==
    \A e \in Events :
        LET mine == SelectSeq(delivered \o respChan, LAMBDA r : r.ev = e)
        IN  \A i \in DOMAIN mine : mine[i].seq = i

(* A connect suspended on the full clients channel returns, provided the   *)
(* sink keeps receiving signals (on_signal's refresh_clients is then the   *)
(* only consumer of the channel); nothing in the connector itself forces   *)
(* that, so the signals are the hypothesis, not a fairness of the spec.    *)
ConnectReturns ==
    WF_vars(OnSignal) => (connecting ~> ~connecting)

(* Once the connector is torn down and the response channel has no       *)
(* receiver, every spawned task still ends: the `?` on the failed         *)
(* response_tx.send returns from the task instead of waiting or retrying,  *)
(* so no task is left holding its replies forever.                         *)
TeardownEndsTasks ==
    closed ~> \A e \in Events : task[e] \in {"none", "done"}

-----------------------------------------------------------------------------
(* Spec: at most max_concurrency requests are in flight at once (a permit  *)
(* is held by the spawned task for the whole exchange).                    *)
InFlight == {e \in Events : task[e] \in {"exchanging", "sending"}}
InFlightBounded == Cardinality(InFlight) <= MaxConcurrency

(* Spec: next() is absent only while no connection has delivered a pool;   *)
(* an event dispatched after connect's pool reached the sink finds a       *)
(* client.                                                                 *)
FailOnlyBeforeConnect ==
    \A e \in Events : result[e] = "fail" => dispGen[e] = 0

(* Spec: pull() on an empty but open channel returns a timeout indication, *)
(* not an error.                                                           *)
PullTimeoutNotError == pullResult # "error"

-----------------------------------------------------------------------------
(* Refinement mapping onto HttpExchange: an event is queued until on_event *)
(* returns for it, refused if it returned FAIL or Err, in flight while its *)
(* task awaits the response, answered after; the replies it is owed are    *)
(* those its task has yet to send plus those in the response channel.      *)
ReqState(e) ==
    CASE result[e] = "pending" -> "queued"
      [] result[e] \in {"fail", "error"} -> "refused"
      [] task[e] = "exchanging" -> "inflight"
      [] OTHER -> "answered"

Exchange == INSTANCE HttpExchange WITH
    req <- [e \in Events |-> ReqState(e)],
    owed <- [e \in Events |-> IF closed THEN 0 ELSE toSend[e] + Copies(e, respChan)],
    kindOf <- [e \in Events |-> ReplyOf(e).kind],
    delivered <- [i \in DOMAIN delivered |-> [ev |-> delivered[i].ev, kind |-> delivered[i].kind]],
    closed <- closed

(* The connector implements HttpExchange: every step of the sink, tasks,   *)
(* channel and source is a step of the abstract exchange or leaves it      *)
(* unchanged, and under the runtime's fairness every accepted request is   *)
(* answered and every reply it owes is delivered exactly once.             *)
ExchangeRefined == Exchange!Spec

=============================================================================
