---------------------------- MODULE MemoryQueue -----------------------------
(***************************************************************************)
(* The in-memory provider of the job queue (MemoryJobQueue and the parts   *)
(* of BaseJobQueue it uses, backend/src/infrastructure/queue.js) with the  *)
(* request that waits for a worker to claim its job (enqueueAndClaim, POST *)
(* /messages in server.js).  One process: enqueue registers its waiters    *)
(* before any callback runs, so it is one step.  A handler that times out  *)
(* goes on outside of the queue.                                           *)
(***************************************************************************)
EXTENDS Naturals, Sequences, FiniteSets, SequencesExt

CONSTANTS
    MJob,          \* jobs; each is enqueued at most once
    MKey,          \* idempotency keys
    MKeyOf,
    MRetryable,    \* maintenance; run execution is not retryable
    MHandled,      \* jobs whose type has a handler
    MMaxAttempts,
    MConcurrency,
    NoMJob

ASSUME MemoryQueueAssumption ==
    /\ MKeyOf \in [MJob -> MKey] /\ MRetryable \subseteq MJob /\ MHandled \subseteq MJob
    /\ MMaxAttempts \in Nat \ {0} /\ MConcurrency \in Nat \ {0} /\ NoMJob \notin MJob

VARIABLES
    mpending,     \* this.pending
    mjob,         \* job -> where it is, its failed attempts, its deliveries (history)
    mkeys,        \* inflightKeys
    mopen,        \* jobs with a settle waiter
    answer,       \* what the request of a job was told
    mended,       \* stats: job -> terminal states recorded
    mclosed       \* open, closing (waits for running jobs), closed

mqVars == <<mpending, mjob, mkeys, mopen, answer, mended, mclosed>>

Where == {"new", "refused", "pending", "running", "backoff", "ended", "dropped"}
Answers == {"none", "waiting", "claimed", "accepted", "result", "error",
            "duplicate", "timeout", "closed"}
InQueue == {"pending", "running", "backoff"}

MQInit ==
    /\ mpending = <<>> /\ mopen = {} /\ mclosed = "open"
    /\ mjob = [j \in MJob |-> [at |-> "new", attempts |-> 0, runs |-> 0]]
    /\ mkeys = [k \in MKey |-> NoMJob]
    /\ answer = [j \in MJob |-> "none"]
    /\ mended = [j \in MJob |-> {}]

RunningM == {j \in MJob : mjob[j].at = "running"}

\* _normalizeEnqueue and enqueueAndClaim: a key in flight is a duplicate; the
\* queue takes jobs even after close.  fire: enqueue without waiters.
EnqueueM(j, fire) ==
    /\ mjob[j].at = "new"
    /\ IF mkeys[MKeyOf[j]] # NoMJob
       THEN /\ mjob' = [mjob EXCEPT ![j].at = "refused"]
            /\ answer' = [answer EXCEPT ![j] = "duplicate"]
            /\ UNCHANGED <<mpending, mkeys, mopen>>
       ELSE /\ mjob' = [mjob EXCEPT ![j].at = "pending"]
            /\ mpending' = Append(mpending, j)
            /\ mkeys' = [mkeys EXCEPT ![MKeyOf[j]] = j]
            /\ IF fire THEN UNCHANGED <<mopen, answer>>
               ELSE mopen' = mopen \cup {j} /\ answer' = [answer EXCEPT ![j] = "waiting"]
    /\ UNCHANGED <<mended, mclosed>>

\* _settleWaiter: the request learns the outcome if it still waits for it.
Told(f, js, what) ==
    [j \in MJob |-> IF j \in js /\ j \in mopen /\ f[j] \in {"waiting", "claimed"}
                    THEN what ELSE f[j]]

\* _releaseKey: whoever holds the key now.
Freed(js) == [k \in MKey |-> IF \E j \in js : MKeyOf[j] = k THEN NoMJob ELSE mkeys[k]]

\* A terminal outcome: count it, free the key, settle.
EndM(j, marks, what) ==
    /\ mjob' = [mjob EXCEPT ![j].at = "ended"]
    /\ mended' = [mended EXCEPT ![j] = @ \cup marks]
    /\ mkeys' = Freed({j})
    /\ answer' = Told(answer, {j}, what) /\ mopen' = mopen \ {j}

\* A turn of the drain loop: a free slot takes the head of the list and tells
\* its request; a job without handler fails at once.
Drain ==
    /\ mclosed = "open" /\ mpending # <<>> /\ Cardinality(RunningM) < MConcurrency
    /\ mpending' = Tail(mpending)
    /\ LET j == Head(mpending) IN
       IF j \in MHandled
       THEN /\ mjob' = [mjob EXCEPT ![j].at = "running", ![j].runs = @ + 1]
            /\ answer' = [answer EXCEPT ![j] = IF @ = "waiting" THEN "claimed" ELSE @]
            /\ UNCHANGED <<mkeys, mopen, mended>>
       ELSE EndM(j, {"failed"}, "error")
    /\ UNCHANGED mclosed

\* _afterSuccess.
Succeeds(j) ==
    /\ mjob[j].at = "running" /\ EndM(j, {"completed"}, "result")
    /\ UNCHANGED <<mpending, mclosed>>

BugRetryRuns(j, final) == ~final /\ mclosed = "open" /\ mjob[j].attempts + 1 < MMaxAttempts + 1

\* final: the error code says that a retry is useless.
RetriesM(j, final) ==
    /\ j \in MRetryable /\ ~final /\ mclosed = "open"
    /\ mjob[j].attempts + 1 < MMaxAttempts

\* _afterFailure, a timed-out handler included: retry later or fail.
Fails(j, final) ==
    /\ mjob[j].at = "running"
    /\ IF RetriesM(j, final)
       THEN /\ mjob' = [mjob EXCEPT ![j].at = "backoff", ![j].attempts = @ + 1]
            /\ UNCHANGED <<mkeys, mopen, answer, mended>>
       ELSE EndM(j, IF j \in MRetryable /\ ~final /\ mjob[j].attempts + 1 >= MMaxAttempts
                    THEN {"failed", "dead_letter"} ELSE {"failed"}, "error")
    /\ UNCHANGED <<mpending, mclosed>>

BugForgetBackoff(j) ==
    /\ mjob[j].at = "backoff" /\ mclosed # "open"
    /\ mjob' = [mjob EXCEPT ![j].at = "ended"] /\ mkeys' = Freed({j})
    /\ UNCHANGED <<mpending, mopen, answer, mended, mclosed>>

\* The backoff timer: back to the list, or fail when the queue is closing.
BackoffTimer(j) ==
    /\ mjob[j].at = "backoff"
    /\ IF mclosed # "open" THEN EndM(j, {"failed"}, "error") /\ UNCHANGED mpending
       ELSE /\ mjob' = [mjob EXCEPT ![j].at = "pending"]
            /\ mpending' = Append(mpending, j)
            /\ UNCHANGED <<mkeys, mopen, answer, mended>>
    /\ UNCHANGED mclosed

\* After the claim the request waits a moment for a fast outcome (grace), before
\* it the claim timeout runs.  The settle waiter stays registered.
GraceEnds(j) ==
    /\ answer[j] = "claimed" /\ answer' = [answer EXCEPT ![j] = "accepted"]
    /\ UNCHANGED <<mpending, mjob, mkeys, mopen, mended, mclosed>>
ClaimTimeout(j) ==
    /\ answer[j] \in {"waiting", "claimed"} /\ answer' = [answer EXCEPT ![j] = "timeout"]
    /\ UNCHANGED <<mpending, mjob, mkeys, mopen, mended, mclosed>>

\* close: no new work; when the running jobs ended or the grace time passed,
\* the pending jobs are dropped, all waiters rejected and all keys freed.
CloseM ==
    /\ mclosed = "open" /\ mclosed' = "closing"
    /\ UNCHANGED <<mpending, mjob, mkeys, mopen, answer, mended>>
CloseMEnds ==
    LET dropped == {mpending[i] : i \in 1..Len(mpending)} IN
    /\ mclosed = "closing" /\ mclosed' = "closed"
    /\ mpending' = <<>> /\ mopen' = {}
    /\ mjob' = [j \in MJob |-> IF j \in dropped THEN [mjob[j] EXCEPT !.at = "dropped"] ELSE mjob[j]]
    /\ mkeys' = [k \in MKey |-> NoMJob]
    /\ answer' = Told(answer, MJob, "closed")
    /\ UNCHANGED mended

JobStepM(j) ==
    \/ \E fire \in BOOLEAN : EnqueueM(j, fire)
    \/ Succeeds(j) \/ \E final \in BOOLEAN : Fails(j, final)
    \/ BackoffTimer(j) \/ GraceEnds(j) \/ ClaimTimeout(j)
MQNext == Drain \/ CloseM \/ CloseMEnds \/ \E j \in MJob : JobStepM(j)
MQSpec == MQInit /\ [][MQNext]_mqVars

MQTypeOK ==
    /\ mpending \in Seq(MJob)
    /\ mjob \in [MJob -> [at: Where, attempts: 0..MMaxAttempts, runs: Nat]]
    /\ mkeys \in [MKey -> MJob \cup {NoMJob}] /\ mopen \subseteq MJob
    /\ answer \in [MJob -> Answers]
    /\ mended \in [MJob -> SUBSET {"completed", "failed", "dead_letter"}]
    /\ mclosed \in {"open", "closing", "closed"}

\* The in-memory provider keeps the promise of the header of queue.js too: run
\* execution is delivered once, completion presupposes a delivery, and no
\* terminal state is withdrawn, through timeouts, retries and shutdown.
MPromise == INSTANCE JobPromise
    WITH Job <- MJob, Token <- MJob \X (1..MMaxAttempts), Retryable <- MRetryable,
         claims <- [j \in MJob |-> {<<j, n>> : n \in 1..mjob[j].runs}],
         ended <- mended
MemoryKeepsPromise == MPromise!Spec

\* What a request is told is true, whatever order claim, outcome, timeouts and
\* shutdown arrive in: accepted only when a worker had the job; an error only
\* for a job that will not run any more; and one that still waits has a job
\* that can still answer it (no waiter is left behind).
AnswerIsHonest ==
    \A j \in MJob :
        /\ answer[j] \in {"claimed", "accepted", "result"} => mjob[j].runs > 0
        /\ answer[j] = "error" => mjob[j].at = "ended" /\ "failed" \in mended[j]
        /\ j \in mopen => mjob[j].at \in InQueue
=============================================================================
