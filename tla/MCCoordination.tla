--------------------------- MODULE MCCoordination ---------------------------
\* The parts of a process that coordinate it with others: run lock, in-memory
\* queue, rate limits, boot, webhooks.  They share no variable: each behaviour has
\* one of them move (part), so that their state spaces add up.
EXTENDS Locks, MemoryQueue, RateLimit, Startup, Webhooks, TLC
CONSTANTS w1, w2, w3, s1, s2, j1, j2, j3, k1, k2

MCServerOf == (w1 :> s1) @@ (w2 :> s1) @@ (w3 :> s2)
MCMKeyOf == (j1 :> k1) @@ (j2 :> k1) @@ (j3 :> k2)
MCRServerOf == (j1 :> s1) @@ (j2 :> s2) @@ (j3 :> s1)
MCUKeyOf == (j1 :> k1) @@ (j2 :> k2) @@ (j3 :> k1)

VARIABLE part
coordVars == <<lockVars, mqVars, rateVars, upVars, webhookVars>>

CoordInit ==
    /\ LockInit /\ MQInit /\ RateInit /\ StartupInit /\ WebhooksInit
    /\ part \in {"locks", "queue", "rate", "startup", "webhooks"}
    /\ part # "locks" => coord = "local"
    /\ part # "rate" => ~shared
    /\ part # "webhooks" => hKind = "none"

CoordNext ==
    /\ UNCHANGED part
    /\ \/ part = "locks" /\ LockNext /\ UNCHANGED <<mqVars, rateVars, upVars, webhookVars>>
       \/ part = "queue" /\ MQNext /\ UNCHANGED <<lockVars, rateVars, upVars, webhookVars>>
       \/ part = "rate" /\ RateNext /\ UNCHANGED <<lockVars, mqVars, upVars, webhookVars>>
       \/ part = "startup" /\ StartupNext /\ UNCHANGED <<lockVars, mqVars, rateVars, webhookVars>>
       \/ part = "webhooks" /\ WebhooksNext /\ UNCHANGED <<lockVars, mqVars, rateVars, upVars>>

\* Redis ends keys whose time is over; the event loop runs what is queued.
CoordFairness ==
    /\ \A s \in Server \cup {Redis} : WF_lockVars(part = "locks" /\ Expire(s))
    /\ WF_upVars(part = "startup" /\ (StartOld \/ \E b \in Probed : Upgrade(b)))
    /\ WF_upVars(part = "startup" /\ (CarryJob \/ CarryFails))
    /\ WF_upVars(part = "startup" /\ StartNew)
    /\ \A j \in UJob : WF_upVars(part = "startup" /\ (SettleOld(j) \/ SettleNew(j)))

CoordSpec == CoordInit /\ [][CoordNext]_<<coordVars, part>> /\ CoordFairness

\* The states of the parts have their types.
CoordTypeOK == LockTypeOK /\ MQTypeOK /\ RateTypeOK /\ StartupTypeOK /\ WebhooksTypeOK

\* Instances that share a store agree, as far as its leases and counters go: one
\* worker at a time runs a run (Locks), the request limit holds over all of them
\* and its windows end (RateLimit), an instance that calls itself ready serves
\* every job it accepted (Startup), and a billing event is accepted once (Webhooks).
InstancesAgree == CoordTypeOK /\ FencedByLease /\ WindowCanEnd /\ ReadyIsShared /\ AcceptedOnce

\* What waits on shared state is let go: a lock nobody holds any more ends
\* (Locks), and a request accepted while the queue was exchanged under it is
\* answered (server.js 501, Startup).
WaitsEnd == StaleLockEnds /\ StartupRequestsAnswered
=============================================================================
