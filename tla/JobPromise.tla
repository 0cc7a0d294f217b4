----------------------------- MODULE JobPromise -----------------------------
(***************************************************************************)
(* What the job queue promises its callers (the guarantees in the header   *)
(* of backend/src/infrastructure/queue.js), without list, hash, leases or  *)
(* processes: deliveries of a job to workers and its terminal states.      *)
(***************************************************************************)
CONSTANTS Job, Token, Retryable

VARIABLES
    claims,   \* job -> the deliveries of it to a worker so far
    ended     \* job -> the terminal states recorded for it

promiseVars == <<claims, ended>>

Init == /\ claims = [j \in Job |-> {}]
        /\ ended = [j \in Job |-> {}]

\* A fresh delivery; a non-retryable job is delivered only once.
Deliver(j, t) ==
    /\ j \in Retryable \/ claims[j] = {}
    /\ \A i \in Job : t \notin claims[i]
    /\ claims' = [claims EXCEPT ![j] = @ \cup {t}]
    /\ UNCHANGED ended

Terminal == {{"completed"}, {"failed"}, {"failed", "dead_letter"}}

\* A terminal state is recorded; completion presupposes a delivery, and
\* nothing recorded is ever withdrawn.
End(j, m) ==
    /\ "completed" \in m => claims[j] # {}
    /\ ended' = [ended EXCEPT ![j] = @ \cup m]
    /\ UNCHANGED claims

Next == \E j \in Job : \/ \E t \in Token : Deliver(j, t)
                       \/ \E m \in Terminal : End(j, m)

Spec == Init /\ [][Next]_promiseVars
=============================================================================
