------------------------------ MODULE RateLimit ------------------------------
(***************************************************************************)
(* The two rate limits a request passes: the bucket of its process         *)
(* (allowRequest, backend/server.js) and, when redis is attached, the      *)
(* fixed window all processes share (RateLimiter.allow, infrastructure/    *)
(* rate-limit.js), which counts with INCR and, in a second call, gives the *)
(* window its end with EXPIRE.  One address and kind of request: others    *)
(* have counters of their own.                                             *)
(***************************************************************************)
EXTENDS Naturals, FiniteSets

CONSTANTS
    RReq,           \* requests
    RServer,        \* processes
    RServerOf,
    Limit,          \* requests per window
    MaxRateFaults,  \* bound: failing redis calls and crashes
    MaxWindows      \* bound: ends of windows

ASSUME RateLimitAssumption ==
    /\ RServerOf \in [RReq -> RServer]
    /\ Limit \in Nat \ {0} /\ MaxRateFaults \in Nat /\ MaxWindows \in Nat

VARIABLES
    shared,       \* distributedLimiter.distributed
    bucket,       \* process -> count of its local window
    counter,      \* the redis counter and whether it has a time to live
    req,          \* request -> where it is
    admitted,     \* history: admitted by the counter in the present window
    rateFaults, windows

rateVars == <<shared, bucket, counter, req, admitted, rateFaults, windows>>

RPlaces == {"new", "local", "expire", "allowed", "refused", "dead"}

RateInit ==
    /\ shared \in BOOLEAN
    /\ bucket = [s \in RServer |-> 0]
    /\ counter = [count |-> 0, ttl |-> FALSE]
    /\ req = [r \in RReq |-> "new"]
    /\ admitted = {} /\ rateFaults = 0 /\ windows = 0

Goes(r, from, to) == req[r] = from /\ req' = [req EXCEPT ![r] = to]
RateFault == rateFaults < MaxRateFaults /\ rateFaults' = rateFaults + 1

\* allowRequest: every request counts, the refused ones too.
LocalShed(r) ==
    /\ bucket' = [bucket EXCEPT ![RServerOf[r]] = @ + 1]
    /\ Goes(r, "new", CASE bucket'[RServerOf[r]] > Limit -> "refused"
                        [] shared -> "local"
                        [] OTHER -> "allowed")
    /\ UNCHANGED <<shared, counter, admitted, rateFaults, windows>>

\* allow: the requests up to the limit.
Within(n) == n <= Limit

Decide(r, from, n) ==
    /\ Goes(r, from, IF Within(n) THEN "allowed" ELSE "refused")
    /\ admitted' = IF Within(n) THEN admitted \cup {r} ELSE admitted

\* INCR; the first of a window goes on to EXPIRE.
Incr(r) ==
    /\ req[r] = "local" /\ counter' = [counter EXCEPT !.count = @ + 1]
    /\ IF counter'.count = 1 THEN Goes(r, "local", "expire") /\ UNCHANGED admitted
       ELSE Decide(r, "local", counter'.count)
    /\ UNCHANGED <<shared, bucket, rateFaults, windows>>

\* EXPIRE: the counter it finds gets an end (none if the key is gone).
SetExpire(r) ==
    /\ counter' = [counter EXCEPT !.ttl = counter.count > 0]
    /\ Decide(r, "expire", 1)
    /\ UNCHANGED <<shared, bucket, rateFaults, windows>>

\* A call fails, applied or not: allowRequestDistributed lets the request pass.
RedisFails(r, applied) ==
    /\ req[r] \in {"local", "expire"} /\ RateFault
    /\ counter' = CASE ~applied -> counter
                    [] req[r] = "local" -> [counter EXCEPT !.count = @ + 1]
                    [] OTHER -> [counter EXCEPT !.ttl = counter.count > 0]
    /\ Goes(r, req[r], "allowed")
    /\ UNCHANGED <<shared, bucket, admitted, windows>>

\* The process dies with the requests it serves, and its buckets with it.
RateCrash(s) ==
    /\ RateFault
    /\ bucket' = [bucket EXCEPT ![s] = 0]
    /\ req' = [r \in RReq |-> IF RServerOf[r] = s /\ req[r] \in {"local", "expire"}
                              THEN "dead" ELSE req[r]]
    /\ UNCHANGED <<shared, counter, admitted, windows>>

\* A minute has passed: a local bucket starts anew, or redis drops the key.
LocalWindowEnds(s) ==
    /\ bucket[s] > 0 /\ windows < MaxWindows /\ windows' = windows + 1
    /\ bucket' = [bucket EXCEPT ![s] = 0]
    /\ UNCHANGED <<shared, counter, req, admitted, rateFaults>>
SharedWindowEnds ==
    /\ counter.ttl /\ windows < MaxWindows /\ windows' = windows + 1
    /\ counter' = [count |-> 0, ttl |-> FALSE] /\ admitted' = {}
    /\ UNCHANGED <<shared, bucket, req, rateFaults>>

RateNext ==
    \/ \E r \in RReq : LocalShed(r) \/ Incr(r) \/ SetExpire(r)
                       \/ \E applied \in BOOLEAN : RedisFails(r, applied)
    \/ \E s \in RServer : RateCrash(s) \/ LocalWindowEnds(s)
    \/ SharedWindowEnds
RateSpec == RateInit /\ [][RateNext]_rateVars

RateTypeOK ==
    /\ shared \in BOOLEAN /\ bucket \in [RServer -> Nat]
    /\ counter \in [count: Nat, ttl: BOOLEAN]
    /\ req \in [RReq -> RPlaces] /\ admitted \subseteq RReq
    /\ rateFaults \in 0..MaxRateFaults /\ windows \in 0..MaxWindows

\* The shared limit holds over all processes, and every window can end: while
\* no redis call failed and no process died, a counter without a time to live
\* has the request that is about to give it one.  (After such a fault between
\* INCR and EXPIRE the counter never ends, and the address stays refused.)
WindowCanEnd ==
    /\ Cardinality(admitted) <= Limit
    /\ counter.count > 0 /\ ~counter.ttl /\ rateFaults = 0
       => \E r \in RReq : req[r] = "expire"
=============================================================================
