----------------------------- MODULE HttpExchange -----------------------------
(***************************************************************************)
(* What the http_client connector promises each event (spec sections 4.2   *)
(* and 4.4), without its pool, cap, tasks or channels: an event is refused *)
(* or accepted; an accepted request is answered with some decoded replies, *)
(* one 415 reply for a codec error, or nothing for a transport failure;    *)
(* and every reply owed is eventually delivered to the source, once,     *)
(* unless the runtime tears the connector down: then no request is taken  *)
(* and the replies owed, now or later, have no receiver and are lost.      *)
(***************************************************************************)
EXTENDS Naturals, Sequences

CONSTANTS Events, MaxReplies

VARIABLES
    req,        \* per event: "queued", "refused", "inflight" or "answered"
    owed,       \* per event: replies answered but not yet delivered
    kindOf,     \* per event: the kind of its replies
    delivered,  \* the replies the source returned, in order
    closed      \* the connector has been torn down

avars == <<req, owed, kindOf, delivered, closed>>

Init ==
    /\ req = [e \in Events |-> "queued"]
    /\ owed = [e \in Events |-> 0]
    /\ kindOf = [e \in Events |-> "data"]
    /\ delivered = <<>>
    /\ closed = FALSE

\* The sink fails the event, or returns an error for it.
Refuse(e) ==
    /\ req[e] = "queued" /\ ~closed
    /\ req' = [req EXCEPT ![e] = "refused"]
    /\ UNCHANGED <<owed, kindOf, delivered, closed>>

\* The sink sends the request.
Accept(e) ==
    /\ req[e] = "queued" /\ ~closed
    /\ req' = [req EXCEPT ![e] = "inflight"]
    /\ UNCHANGED <<owed, kindOf, delivered, closed>>

\* The response arrives: k decoded replies, one 415 reply, or none; after
\* the teardown nobody can receive them, so nothing is owed.
Owing(k) == IF closed THEN 0 ELSE k

Answer(e) ==
    /\ req[e] = "inflight"
    /\ req' = [req EXCEPT ![e] = "answered"]
    /\ \/ \E k \in 0..MaxReplies : owed' = [owed EXCEPT ![e] = Owing(k)] /\ UNCHANGED kindOf
       \/ owed' = [owed EXCEPT ![e] = Owing(1)] /\ kindOf' = [kindOf EXCEPT ![e] = "s415"]
    /\ UNCHANGED <<delivered, closed>>

\* The source returns one reply owed to e.
Deliver(e) ==
    /\ owed[e] > 0
    /\ owed' = [owed EXCEPT ![e] = @ - 1]
    /\ delivered' = Append(delivered, [ev |-> e, kind |-> kindOf[e]])
    /\ UNCHANGED <<req, kindOf, closed>>

\* The runtime tears the connector down: every reply still owed is lost.
Close ==
    /\ ~closed
    /\ closed' = TRUE
    /\ owed' = [e \in Events |-> 0]
    /\ UNCHANGED <<req, kindOf, delivered>>

Next ==
    \/ \E e \in Events : Refuse(e) \/ Accept(e) \/ Answer(e) \/ Deliver(e)
    \/ Close

(* Whether an event arrives is up to the pipeline; once accepted, it is    *)
(* answered, and every reply owed is delivered.                            *)
Spec ==
    /\ Init /\ [][Next]_avars
    /\ \A e \in Events : WF_avars(Answer(e)) /\ WF_avars(Deliver(e))
====
