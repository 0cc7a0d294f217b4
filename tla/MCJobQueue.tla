----------------------------- MODULE MCJobQueue -----------------------------
(* Model values for JobQueue: two jobs under one idempotency key, the first  *)
(* a run execution (non-retryable), the second a maintenance job.            *)
EXTENDS JobQueue, TLC
CONSTANTS p1, p2, j1, j2, k1, t1, t2, t3

MCKeyOf == [j \in Job |-> k1]
MCRetryable == Job \ {j1}
ProcTokenSymmetry == Permutations(Proc) \cup Permutations(Token)
=============================================================================
