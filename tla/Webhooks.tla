------------------------------ MODULE Webhooks ------------------------------
(***************************************************************************)
(* A billing event delivered to several instances: the webhook route of    *)
(* server.js reserves the event's key (IdempotencyStore.beginAsync), in    *)
(* the shared store once it is wired and in the instance's own store until *)
(* then, accepts the event if the key was free, and marks it completed.    *)
(* Billing delivers an event again until it is answered with 200.          *)
(***************************************************************************)
EXTENDS Naturals, FiniteSets

CONSTANTS
    HEvent, HServer,
    HMaxDeliveries, \* bound: deliveries of all events
    HMaxFaults      \* bound: lost commands, lost replies, crashes and expiries

ASSUME WebhooksAssumption == {HMaxDeliveries, HMaxFaults} \subseteq Nat

VARIABLES
    hKind,      \* the shared store of the deployment: "none", "redis" or "postgres"
    hWired,     \* [HServer -> idempotencyStore.remote is set]
    hShared,    \* [HEvent -> state of its key in the shared store]
    hLocal,     \* [HServer -> [HEvent -> state of its key in the instance's file]]
    hRequests,  \* requests under way: [n, event, server, at, shared]
    hDeliveries,
    hAnswers,   \* history: [n, event, server, fresh, shared] of the answers with 200
    hLapsed,    \* history: events whose shared key ended
    hFaults

webhookVars == <<hKind, hWired, hShared, hLocal, hRequests, hDeliveries, hAnswers, hLapsed, hFaults>>

KeyState == {"none", "running", "completed"}

\* A postgres store is wired before the server listens; redis once it is reached.
WebhooksInit ==
    /\ hKind \in {"none", "redis", "postgres"}
    /\ hWired = [s \in HServer |-> hKind = "postgres"]
    /\ hShared = [e \in HEvent |-> "none"]
    /\ hLocal = [s \in HServer |-> [e \in HEvent |-> "none"]]
    /\ hRequests = {} /\ hDeliveries = 0 /\ hAnswers = {} /\ hLapsed = {} /\ hFaults = 0

\* wireIdempotencyRemote, after the coordinator was exchanged.
WireRemote(s) ==
    /\ hKind = "redis" /\ ~hWired[s]
    /\ hWired' = [hWired EXCEPT ![s] = TRUE]
    /\ UNCHANGED <<hKind, hShared, hLocal, hRequests, hDeliveries, hAnswers, hLapsed, hFaults>>

\* A request whose signature is good and recent (verifyStripeSignature) and which
\* names its event; any other one is answered with 400.
DeliverEvent(e, s) ==
    /\ hDeliveries < HMaxDeliveries
    /\ hDeliveries' = hDeliveries + 1
    /\ hRequests' = hRequests \cup
           {[n |-> hDeliveries + 1, event |-> e, server |-> s, at |-> "begin", shared |-> FALSE]}
    /\ UNCHANGED <<hKind, hWired, hShared, hLocal, hAnswers, hLapsed, hFaults>>

To(q, at, shared) == hRequests' = (hRequests \ {q}) \cup {[q EXCEPT !.at = at, !.shared = shared]}
Answer(q, fresh, shared) ==
    /\ hRequests' = hRequests \ {q}
    /\ hAnswers' = hAnswers \cup
           {[n |-> q.n, event |-> q.event, server |-> q.server, fresh |-> fresh, shared |-> shared]}
Fault == hFaults < HMaxFaults /\ hFaults' = hFaults + 1

\* SET NX, INSERT ... ON CONFLICT DO NOTHING.
Free(e) == hShared[e] = "none"

Reserved(e) == [hShared EXCEPT ![e] = "running"]

\* beginAsync with a remote: the winner mirrors the record.  The others read the
\* record that is there (in redis, if it still is) and answer.
BeginShared(q) ==
    /\ q \in hRequests /\ q.at = "begin" /\ hWired[q.server]
    /\ IF Free(q.event)
       THEN /\ hShared' = Reserved(q.event)
            /\ hLocal' = [hLocal EXCEPT ![q.server][q.event] = "running"]
            /\ To(q, "complete", TRUE) /\ UNCHANGED hAnswers
       ELSE Answer(q, FALSE, TRUE) /\ UNCHANGED <<hShared, hLocal>>
    /\ UNCHANGED <<hKind, hWired, hDeliveries, hLapsed, hFaults>>

\* The command fails, or it is carried out and its reply is lost: the request
\* ends with an error, and the key may stay reserved.
BeginFails(q, applied) ==
    /\ q \in hRequests /\ q.at = "begin" /\ hWired[q.server] /\ Fault
    /\ hShared' = IF applied /\ Free(q.event) THEN Reserved(q.event) ELSE hShared
    /\ hRequests' = hRequests \ {q}
    /\ UNCHANGED <<hKind, hWired, hLocal, hDeliveries, hAnswers, hLapsed>>

\* beginAsync without a remote (degraded): the instance's own records.
BeginLocal(q) ==
    /\ q \in hRequests /\ q.at = "begin" /\ ~hWired[q.server]
    /\ IF hLocal[q.server][q.event] = "none"
       THEN /\ hLocal' = [hLocal EXCEPT ![q.server][q.event] = "running"]
            /\ To(q, "complete", FALSE) /\ UNCHANGED hAnswers
       ELSE Answer(q, FALSE, FALSE) /\ UNCHANGED hLocal
    /\ UNCHANGED <<hKind, hWired, hShared, hDeliveries, hLapsed, hFaults>>

\* completeAsync: the remote, if there is one by now (an UPDATE needs the row,
\* SET writes it anyway), then the instance's own record.
CompleteKey(q) ==
    /\ q \in hRequests /\ q.at = "complete"
    /\ hShared' = IF hWired[q.server] /\ (hKind = "redis" \/ ~Free(q.event))
                  THEN [hShared EXCEPT ![q.event] = "completed"] ELSE hShared
    /\ hLocal' = [hLocal EXCEPT ![q.server][q.event] = "completed"]
    /\ Answer(q, TRUE, q.shared)
    /\ UNCHANGED <<hKind, hWired, hDeliveries, hLapsed, hFaults>>

CompleteFails(q, applied) ==
    /\ q \in hRequests /\ q.at = "complete" /\ hWired[q.server] /\ Fault
    /\ hShared' = IF applied THEN [hShared EXCEPT ![q.event] = "completed"] ELSE hShared
    /\ hRequests' = hRequests \ {q}
    /\ UNCHANGED <<hKind, hWired, hLocal, hDeliveries, hAnswers, hLapsed>>

\* The instance dies and comes back with the records of its file.
InstanceRestarts(s) ==
    /\ Fault
    /\ hRequests' = {q \in hRequests : q.server # s}
    /\ hWired' = [hWired EXCEPT ![s] = hKind = "postgres"]
    /\ UNCHANGED <<hKind, hShared, hLocal, hDeliveries, hAnswers, hLapsed>>

\* A key of redis ends after a week, long after the requests that used it.
KeyExpires(e) ==
    /\ hKind = "redis" /\ ~Free(e) /\ Fault
    /\ \A q \in hRequests : q.event # e
    /\ hShared' = [hShared EXCEPT ![e] = "none"]
    /\ hLapsed' = hLapsed \cup {e}
    /\ UNCHANGED <<hKind, hWired, hLocal, hRequests, hDeliveries, hAnswers>>

WebhooksNext ==
    \/ \E s \in HServer : WireRemote(s) \/ InstanceRestarts(s) \/ \E e \in HEvent : DeliverEvent(e, s)
    \/ \E q \in hRequests : BeginShared(q) \/ BeginLocal(q) \/ CompleteKey(q)
                            \/ \E b \in BOOLEAN : BeginFails(q, b) \/ CompleteFails(q, b)
    \/ \E e \in HEvent : KeyExpires(e)

\* The keys of both stores are in their states.
WebhooksTypeOK ==
    /\ hShared \in [HEvent -> KeyState] /\ hLocal \in [HServer -> [HEvent -> KeyState]]
    /\ hWired \in [HServer -> BOOLEAN] /\ hFaults \in 0..HMaxFaults

\* "Distributed reservation: cross-instance safe when a remote idempotency backend
\* is configured" (server.js 1410): however deliveries, lost replies and restarts
\* interleave, the instances together accept an event under the shared key once,
\* each of them accepts it once more at most while it has no shared store, and an
\* answer with 200 leaves a record of the event where the answer came from.
AcceptedOnce ==
    \A e \in HEvent :
        LET of == {a \in hAnswers : a.event = e}
            accepted == {a \in of : a.fresh}
        IN  /\ Cardinality({a \in accepted : a.shared}) <= IF e \in hLapsed THEN hFaults + 1 ELSE 1
            /\ \A s \in HServer : Cardinality({a \in accepted : a.server = s /\ ~a.shared}) <= 1
            /\ \A a \in of : IF a.shared THEN hShared[e] # "none" \/ e \in hLapsed
                             ELSE hLocal[a.server][e] # "none"
=============================================================================
