------------------------------ MODULE JobQueue ------------------------------
(***************************************************************************)
(* The redis provider of the job queue (backend/src/infrastructure/        *)
(* queue.js, class RedisJobQueue on top of BaseJobQueue): several API      *)
(* processes share a durable pending list and a durable processing hash,   *)
(* and each keeps in its own memory the idempotency keys it accepted, the  *)
(* promises of its callers and the backoff timers of jobs to be retried.   *)
(*                                                                         *)
(* Every redis script (claim, compare-and-delete, compare-and-set) is one  *)
(* atomic step; the process that issued it continues in a later step, so   *)
(* other processes, lease expiry and crashes fall in between.  A redis     *)
(* call whose reply is lost is a step of its own: the server applied it,   *)
(* the caller sees an error.  When redis runs no script for a release, a   *)
(* renewal or a reclaim (evalRedis returns null), the caller falls back on *)
(* a read and, in a later step, a write that compares nothing.  Other      *)
(* calls that fail without being applied and a duplicate enqueue change no *)
(* state and have no action.                                               *)
(***************************************************************************)
EXTENDS Naturals, Sequences, FiniteSets

CONSTANTS
    Proc,          \* API processes sharing the redis queue
    Job,           \* job ids (newJobId); each is enqueued at most once
    Key,           \* idempotency keys
    Token,         \* lease tokens (crypto.randomBytes): one per claim
    KeyOf,         \* [Job -> Key]: the idempotencyKey option of enqueue
    Retryable,     \* the jobs enqueued with retryable # false
    Orphan,        \* the jobs whose type has no registered handler
    Awaited,       \* the jobs enqueued with enqueueAndWait / enqueueAndClaim
    Closers,       \* the processes that may be shut down with close()
    MaxAttempts,   \* job.maxAttempts
    Concurrency,   \* handlers a process runs at a time
    LeaseLoss,     \* may the lease of a live worker run out
    MaxVer,        \* bound: renewals of one lease
    MaxFaults,     \* bound: redis replies lost and scripts not run
    MaxCrashes,    \* bound: process crashes
    NoJob, NoProc, NoRec   \* absent values

\* A claim record; expired abstracts "deadline <= now".
Record == [token: Token, ver: Nat, attempts: Nat, expired: BOOLEAN]

ASSUME JobQueueAssumption ==
    /\ KeyOf \in [Job -> Key]
    /\ Retryable \subseteq Job /\ Orphan \subseteq Job /\ Awaited \subseteq Job
    /\ Closers \subseteq Proc
    /\ MaxAttempts \in Nat \ {0} /\ Concurrency \in Nat \ {0}
    /\ LeaseLoss \in BOOLEAN
    /\ MaxVer \in Nat /\ MaxFaults \in Nat /\ MaxCrashes \in Nat
    /\ NoJob \notin Job /\ NoProc \notin Proc /\ NoRec \notin Record

VARIABLES
    pending,     \* redis list queue:jobs: sequence of [id, attempts]
    processing,  \* redis hash queue:processing: job id -> claim record
    exec,        \* per lease token: the worker's side of the claim
    up, closed, draining,   \* per process: alive, closed, _draining
    inflight,    \* per process: inflightKeys, key -> job id
    timers,      \* per process: backoff setTimeouts, each holding a job copy
    stale,       \* per process: records _reclaim read and has not handled yet
    checks,      \* fallbacks whose read has matched and whose write is to come
    owner,       \* the process that enqueued the job
    waiter,      \* the promise of enqueueAndWait held by the owner
    outcomes,    \* terminal states counted for the job (stats())
    faults, crashes

redisVars == <<pending, processing>>
procVars  == <<up, closed, draining, inflight, timers, stale, checks>>
vars == <<pending, processing, exec, up, closed, draining, inflight, timers,
          stale, checks, owner, waiter, outcomes, faults, crashes>>

Entry  == [id: Job, attempts: Nat]
Timer  == [id: Job, attempts: Nat, token: Token, src: {"failure", "reclaim"}]
Stale  == [id: Job, token: Token, ver: Nat, attempts: Nat]
Check  == [op: {"release", "renew", "reclaim"}, by: Proc, s: Stale]
ExecState == {"claimed", "running", "finished", "released", "done", "dead"}
Result == {"none", "ok", "err", "terminal", "nohandler"}
Claimed == [st: ExecState, res: Result, proc: Proc, id: Job, attempts: Nat,
            ver: Nat, renewing: BOOLEAN]
Unused == [st |-> "unused", res |-> "none", proc |-> NoProc, id |-> NoJob,
           attempts |-> 0, ver |-> 0, renewing |-> FALSE]
Exec == Claimed \cup {Unused}
Outcome == {"completed", "failed", "dead_letter"}

-----------------------------------------------------------------------------
(* The state of one process's drain loop and workers. *)

\* this.running: handlers between the increment in _drain and the finally.
Running(p) == {t \in Token : /\ exec[t].st \in {"running", "finished", "released"}
                             /\ exec[t].proc = p
                             /\ exec[t].res # "nohandler"}

\* The drain loop of p awaits a claim reply or the release of an orphan job.
LoopBusy(p) == \E t \in Token :
    /\ exec[t].st \in {"claimed", "finished", "released"}
    /\ exec[t].proc = p
    /\ exec[t].st = "claimed" \/ exec[t].res = "nohandler"

\* _releaseKey deletes whatever job the key stands for, without comparing ids.
ReleaseKey(p, j) == inflight' = [inflight EXCEPT ![p][KeyOf[j]] = NoJob]

\* _settleWaiter: only the process that enqueued the job has its waiter.
SettleWaiter(p, j, r) ==
    waiter' = IF owner[j] = p /\ waiter[j] = "open"
              THEN [waiter EXCEPT ![j] = r] ELSE waiter

\* Seeded fault: a timeout is counted under a terminal state of its own.
BugExtraOutcome(j, marks) == outcomes' = [outcomes EXCEPT ![j] = @ \cup marks \cup {"timed_out"}]

Mark(j, marks) == outcomes' = [outcomes EXCEPT ![j] = @ \cup marks]

\* Seeded fault: compare the lease token only, not the whole record.
BugIgnoreDeadline(j, token, ver) == /\ processing[j] # NoRec
                                    /\ processing[j].token = token

\* The record in the processing hash is still the one read or written before
\* (compareAndDeleteHash / compareAndSetHash compare the serialized record).
SameRaw(j, token, ver) == /\ processing[j] # NoRec
                          /\ processing[j].token = token
                          /\ processing[j].ver = ver

Fault == faults < MaxFaults /\ faults' = faults + 1

\* The worker's claim as its fallback compares it.
Claim(t) == [id |-> exec[t].id, token |-> t, ver |-> exec[t].ver, attempts |-> exec[t].attempts]
OwnCheck(op, t) == [op |-> op, by |-> exec[t].proc, s |-> Claim(t)]
ReclaimCheck(p, s) == [op |-> "reclaim", by |-> p, s |-> s]
-----------------------------------------------------------------------------
Init ==
    /\ pending = <<>>
    /\ processing = [j \in Job |-> NoRec]
    /\ exec = [t \in Token |-> Unused]
    /\ up = [p \in Proc |-> TRUE]
    /\ closed = [p \in Proc |-> FALSE]
    /\ draining = [p \in Proc |-> FALSE]
    /\ inflight = [p \in Proc |-> [k \in Key |-> NoJob]]
    /\ timers = [p \in Proc |-> {}]
    /\ stale = [p \in Proc |-> {}]
    /\ checks = {}
    /\ owner = [j \in Job |-> NoProc]
    /\ waiter = [j \in Job |-> "none"]
    /\ outcomes = [j \in Job |-> {}]
    /\ faults = 0 /\ crashes = 0

-----------------------------------------------------------------------------
(* Enqueue.  There is no test of closed: a closed queue still accepts.      *)

\* _normalizeEnqueue: refuse a key this process already holds.
Accepts(p, j) == up[p] /\ owner[j] = NoProc /\ inflight[p][KeyOf[j]] = NoJob

\* enqueue / enqueueAndWait: register key and waiter, then RPUSH.
Enqueue(p, j) ==
    /\ Accepts(p, j)
    /\ inflight' = [inflight EXCEPT ![p][KeyOf[j]] = j]
    /\ owner' = [owner EXCEPT ![j] = p]
    /\ waiter' = [waiter EXCEPT ![j] = IF j \in Awaited THEN "open" ELSE @]
    /\ pending' = Append(pending, [id |-> j, attempts |-> 0])
    /\ UNCHANGED <<processing, exec, up, closed, draining, timers, stale, checks,
                   outcomes, faults, crashes>>

\* Seeded fault: the client resends the RPUSH whose reply was lost.
BugResendPush(p, j) ==
    /\ Accepts(p, j) /\ Fault
    /\ owner' = [owner EXCEPT ![j] = p]
    /\ waiter' = [waiter EXCEPT ![j] = IF j \in Awaited THEN "err" ELSE @]
    /\ pending' = pending \o <<[id |-> j, attempts |-> 0], [id |-> j, attempts |-> 0]>>
    /\ UNCHANGED <<processing, exec, up, closed, draining, inflight, timers,
                   stale, checks, outcomes, crashes>>

\* RPUSH applied, reply lost: key and waiter are dropped, the job stays.
EnqueueReplyLost(p, j) ==
    /\ Accepts(p, j) /\ Fault
    /\ owner' = [owner EXCEPT ![j] = p]
    /\ waiter' = [waiter EXCEPT ![j] = IF j \in Awaited THEN "err" ELSE @]
    /\ pending' = Append(pending, [id |-> j, attempts |-> 0])
    /\ UNCHANGED <<processing, exec, up, closed, draining, inflight, timers,
                   stale, checks, outcomes, crashes>>

\* enqueueAndWait gives up after waitMs; the job goes on.
WaitTimeout(j) ==
    /\ waiter[j] = "open"
    /\ waiter' = [waiter EXCEPT ![j] = "err"]
    /\ UNCHANGED <<redisVars, exec, procVars, owner, outcomes, faults, crashes>>

-----------------------------------------------------------------------------
(* The drain loop: closed is tested when the loop starts, not per claim.    *)

\* The loop is at `while (this.running < this.concurrency)`, or may start.
LoopReady(p) ==
    /\ up[p] /\ ~LoopBusy(p) /\ Cardinality(Running(p)) < Concurrency
    /\ draining[p] \/ ~closed[p]

\* CLAIM_LUA on the server: LPOP and HSETNX together; st is the worker's side.
ClaimLua(p, t, st) ==
    LET e == Head(pending) IN
    /\ pending # <<>> /\ exec[t] = Unused /\ processing[e.id] = NoRec
    /\ pending' = Tail(pending)
    /\ processing' = [processing EXCEPT ![e.id] =
           [token |-> t, ver |-> 0, attempts |-> e.attempts, expired |-> FALSE]]
    /\ exec' = [exec EXCEPT ![t] =
           [st |-> st, res |-> "none", proc |-> p, id |-> e.id,
            attempts |-> e.attempts, ver |-> 0, renewing |-> FALSE]]

ClaimNext(p, t) ==
    /\ LoopReady(p) /\ ClaimLua(p, t, "claimed")
    /\ draining' = [draining EXCEPT ![p] = TRUE]
    /\ UNCHANGED <<up, closed, inflight, timers, stale, checks, owner, waiter, outcomes,
                   faults, crashes>>

\* The script ran but its reply was lost: _claimNext throws, the loop stops,
\* and the record waits for its lease to expire.
ClaimReplyLost(p, t) ==
    /\ LoopReady(p) /\ Fault /\ ClaimLua(p, t, "dead")
    /\ draining' = [draining EXCEPT ![p] = FALSE]
    /\ UNCHANGED <<up, closed, inflight, timers, stale, checks, owner, waiter,
                   outcomes, crashes>>

\* HSETNX found the id already claimed: RPUSH to the tail, return -1, break.
ClaimConflict(p) ==
    /\ LoopReady(p) /\ pending # <<>>
    /\ processing[Head(pending).id] # NoRec
    /\ pending' = Append(Tail(pending), Head(pending))
    /\ draining' = [draining EXCEPT ![p] = FALSE]
    /\ UNCHANGED <<processing, exec, up, closed, inflight, timers, stale, checks, owner,
                   waiter, outcomes, faults, crashes>>

\* LPOP found nothing: the loop ends.
DrainEnd(p) ==
    /\ draining[p] /\ ~LoopBusy(p) /\ pending = <<>>
    /\ draining' = [draining EXCEPT ![p] = FALSE]
    /\ UNCHANGED <<redisVars, exec, up, closed, inflight, timers, stale, checks, owner,
                   waiter, outcomes, faults, crashes>>

\* The loop continues with the claimed job: start its handler (and loop while
\* there is a free slot), or release the job when nobody consumes its type.
ClaimReply(t) ==
    LET p == exec[t].proc IN
    /\ exec[t].st = "claimed"
    /\ exec' = [exec EXCEPT ![t] =
           IF exec[t].id \in Orphan
           THEN [@ EXCEPT !.st = "finished", !.res = "nohandler"]
           ELSE [@ EXCEPT !.st = "running"]]
    /\ draining' = [draining EXCEPT ![p] =
           exec[t].id \in Orphan \/ Cardinality(Running(p)) + 1 < Concurrency]
    /\ UNCHANGED <<redisVars, up, closed, inflight, timers, stale, checks, owner, waiter,
                   outcomes, faults, crashes>>

-----------------------------------------------------------------------------
(* Leases. *)

\* Time: the record's deadline passes (dead worker, stalled event loop,
\* redis unreachable for longer than the lease).
Expire(j) ==
    /\ processing[j] # NoRec /\ ~processing[j].expired
    /\ LeaseLoss \/ exec[processing[j].token].st \in {"done", "dead"}
    /\ processing' = [processing EXCEPT ![j].expired = TRUE]
    /\ UNCHANGED <<pending, exec, procVars, owner, waiter, outcomes, faults, crashes>>

\* _renew, on the server: the record gets a new deadline.  refreshing keeps a
\* second renewal from starting before the reply of the first.
Renew(t) ==
    LET j == exec[t].id IN
    /\ exec[t].st = "running" /\ ~exec[t].renewing /\ exec[t].ver < MaxVer
    /\ SameRaw(j, t, exec[t].ver)
    /\ processing' = [processing EXCEPT ![j] = [@ EXCEPT !.ver = exec[t].ver + 1, !.expired = FALSE]]
    /\ exec' = [exec EXCEPT ![t].renewing = TRUE]
    /\ UNCHANGED <<pending, procVars, owner, waiter, outcomes, faults, crashes>>

\* _renew without scripts: HGET shows a record with this lease's token, so the
\* record of the renewal is written, whatever is there by then.
RenewRead(t) ==
    LET j == exec[t].id IN
    /\ exec[t].st = "running" /\ ~exec[t].renewing /\ exec[t].ver < MaxVer /\ Fault
    /\ processing[j] # NoRec /\ processing[j].token = t
    /\ exec' = [exec EXCEPT ![t].renewing = TRUE]
    /\ checks' = checks \cup {OwnCheck("renew", t)}
    /\ UNCHANGED <<redisVars, up, closed, draining, inflight, timers, stale, owner, waiter,
                   outcomes, crashes>>

RenewWrite(t) ==
    /\ OwnCheck("renew", t) \in checks
    /\ processing' = [processing EXCEPT ![exec[t].id] =
           [token |-> t, ver |-> exec[t].ver + 1, attempts |-> exec[t].attempts,
            expired |-> FALSE]]
    /\ checks' = checks \ {OwnCheck("renew", t)}
    /\ UNCHANGED <<pending, exec, up, closed, draining, inflight, timers, stale, owner, waiter,
                   outcomes, faults, crashes>>

\* The reply: only now does lease.raw follow.  The handler may have ended (and
\* the release been sent) before it, and a lost reply never comes.
RenewReply(t) ==
    /\ exec[t].st \in {"running", "finished"} /\ exec[t].renewing
    /\ OwnCheck("renew", t) \notin checks
    /\ exec' = [exec EXCEPT ![t] = [@ EXCEPT !.ver = exec[t].ver + 1, !.renewing = FALSE]]
    /\ UNCHANGED <<redisVars, procVars, owner, waiter, outcomes, faults, crashes>>

-----------------------------------------------------------------------------
(* The end of a handler: _invoke settles, then _release, then bookkeeping.  *)

\* The handlers return ("ok"), throw or exceed timeoutMs ("err"), or throw a
\* code that is never retried ("terminal": terminal, not_found, busy, ...).
HandlerEnds(t, r) ==
    /\ exec[t].st = "running"
    /\ exec' = [exec EXCEPT ![t] = [@ EXCEPT !.st = "finished", !.res = r]]
    /\ UNCHANGED <<redisVars, procVars, owner, waiter, outcomes, faults, crashes>>

\* _release without scripts: HGET still returns the record of this worker.
ReleaseRead(t) ==
    /\ exec[t].st = "finished" /\ Fault /\ OwnCheck("release", t) \notin checks
    /\ SameRaw(exec[t].id, t, exec[t].ver)
    /\ checks' = checks \cup {OwnCheck("release", t)}
    /\ UNCHANGED <<redisVars, exec, up, closed, draining, inflight, timers, stale,
                   owner, waiter, outcomes, crashes>>

\* _release: delete the record if it is still the one this worker wrote; the
\* HDEL of the fallback deletes the record that is there now.
Release(t) ==
    /\ exec[t].st = "finished"
    /\ exec' = [exec EXCEPT ![t].st = "released"]
    /\ processing' = IF OwnCheck("release", t) \in checks \/ SameRaw(exec[t].id, t, exec[t].ver)
                     THEN [processing EXCEPT ![exec[t].id] = NoRec]
                     ELSE processing
    /\ checks' = checks \ {OwnCheck("release", t)}
    /\ UNCHANGED <<pending, up, closed, draining, inflight, timers, stale, owner, waiter,
                   outcomes, faults, crashes>>

\* redis unreachable: _release returns false and its callers ignore it.
ReleaseFails(t) ==
    /\ exec[t].st = "finished" /\ Fault
    /\ exec' = [exec EXCEPT ![t].st = "released"]
    /\ checks' = checks \ {OwnCheck("release", t)}
    /\ UNCHANGED <<redisVars, up, closed, draining, inflight, timers, stale, owner, waiter,
                   outcomes, crashes>>

Done(t) == exec' = [exec EXCEPT ![t].st = "done"]

AfterSuccess(t) ==
    LET p == exec[t].proc  j == exec[t].id IN
    /\ exec[t].st = "released" /\ exec[t].res = "ok"
    /\ Done(t) /\ ReleaseKey(p, j) /\ Mark(j, {"completed"})
    /\ SettleWaiter(p, j, "ok")
    /\ UNCHANGED <<redisVars, up, closed, draining, timers, stale, checks, owner, faults, crashes>>

\* Seeded fault: the retryable flag is not looked at.
BugRetryAll(p, j, attempts) == attempts < MaxAttempts /\ ~closed[p]

\* Seeded fault: off by one at maxAttempts.
BugOneTryMore(p, j, attempts) == j \in Retryable /\ attempts <= MaxAttempts /\ ~closed[p]

\* The retry decision of _afterFailure; attempts already counts this failure.
MayRetry(p, j, attempts) == j \in Retryable /\ attempts < MaxAttempts /\ ~closed[p]

\* _afterFailure, retry branch: the job lives on only in a setTimeout of p.
AfterFailureRetry(t) ==
    LET p == exec[t].proc  j == exec[t].id  a == exec[t].attempts + 1 IN
    /\ exec[t].st = "released" /\ exec[t].res = "err" /\ MayRetry(p, j, a)
    /\ Done(t)
    /\ timers' = [timers EXCEPT ![p] = @ \cup
           {[id |-> j, attempts |-> a, token |-> t, src |-> "failure"]}]
    /\ UNCHANGED <<redisVars, up, closed, draining, inflight, stale, checks, owner,
                   waiter, outcomes, faults, crashes>>

\* _afterFailure, terminal branch; also the no-handler branch of _drain.
AfterFailureTerminal(t) ==
    LET p == exec[t].proc  j == exec[t].id  a == exec[t].attempts + 1 IN
    /\ exec[t].st = "released" /\ exec[t].res \in {"err", "terminal", "nohandler"}
    /\ ~(exec[t].res = "err" /\ MayRetry(p, j, a))
    /\ Done(t) /\ ReleaseKey(p, j) /\ SettleWaiter(p, j, "err")
    /\ Mark(j, {"failed"} \cup
               (IF exec[t].res = "err" /\ j \in Retryable /\ a >= MaxAttempts
                THEN {"dead_letter"} ELSE {}))
    /\ UNCHANGED <<redisVars, up, closed, draining, timers, stale, checks, owner, faults, crashes>>

\* A backoff timer fires: push the copy back, or fail it when closed.
TimerFires(p, r) ==
    /\ r \in timers[p]
    /\ timers' = [timers EXCEPT ![p] = @ \ {r}]
    /\ IF closed[p]
       THEN /\ ReleaseKey(p, r.id) /\ SettleWaiter(p, r.id, "err")
            /\ Mark(r.id, {"failed"})
            /\ UNCHANGED pending
       ELSE /\ pending' = Append(pending, [id |-> r.id, attempts |-> r.attempts])
            /\ UNCHANGED <<inflight, waiter, outcomes>>
    /\ UNCHANGED <<processing, exec, up, closed, draining, stale, checks, owner, faults, crashes>>

\* The push of the retry errs: the job is failed whether it was applied or not.
TimerPushErrs(p, r, applied) ==
    /\ r \in timers[p] /\ ~closed[p] /\ Fault
    /\ timers' = [timers EXCEPT ![p] = @ \ {r}]
    /\ pending' = IF applied
                  THEN Append(pending, [id |-> r.id, attempts |-> r.attempts])
                  ELSE pending
    /\ ReleaseKey(p, r.id) /\ SettleWaiter(p, r.id, "err") /\ Mark(r.id, {"failed"})
    /\ UNCHANGED <<processing, exec, up, closed, draining, stale, checks, owner, crashes>>

-----------------------------------------------------------------------------
(* _reclaim: scan the processing hash, then handle the stale records found. *)

StaleOf(j) == [id |-> j, token |-> processing[j].token,
               ver |-> processing[j].ver, attempts |-> processing[j].attempts]

\* Seeded fault: the scan looks at non-retryable jobs only.
BugScanMisses(p) ==
    LET found == {StaleOf(j) : j \in {i \in Job \ Retryable :
                      processing[i] # NoRec /\ processing[i].expired}} IN
    /\ up[p] /\ ~closed[p] /\ stale[p] = {} /\ found # {}
    /\ stale' = [stale EXCEPT ![p] = found]
    /\ UNCHANGED <<redisVars, exec, up, closed, draining, inflight, timers,
                   checks, owner, waiter, outcomes, faults, crashes>>

ReclaimScan(p) ==
    LET found == {StaleOf(j) : j \in {i \in Job : /\ processing[i] # NoRec
                                                  /\ processing[i].expired}} IN
    /\ up[p] /\ ~closed[p] /\ stale[p] = {} /\ found # {}
    /\ stale' = [stale EXCEPT ![p] = found]
    /\ UNCHANGED <<redisVars, exec, up, closed, draining, inflight, timers,
                   checks, owner, waiter, outcomes, faults, crashes>>

\* The record was renewed, released or reclaimed meanwhile, or redis failed.
ReclaimSkip(p, s) ==
    /\ s \in stale[p]
    /\ ReclaimCheck(p, s) \in checks \/ ~SameRaw(s.id, s.token, s.ver)
    /\ stale' = [stale EXCEPT ![p] = @ \ {s}]
    /\ checks' = checks \ {ReclaimCheck(p, s)}
    /\ UNCHANGED <<redisVars, exec, up, closed, draining, inflight, timers,
                   owner, waiter, outcomes, faults, crashes>>

\* _reclaim without scripts: HGET still returns the record of the scan.
ReclaimRead(p, s) ==
    /\ s \in stale[p] /\ Fault /\ ReclaimCheck(p, s) \notin checks
    /\ SameRaw(s.id, s.token, s.ver)
    /\ checks' = checks \cup {ReclaimCheck(p, s)}
    /\ UNCHANGED <<redisVars, exec, up, closed, draining, inflight, timers, stale,
                   owner, waiter, outcomes, crashes>>

\* What the delete of _reclaim is sent for: the script compares the record, the
\* HDEL of the fallback does not.
MayTake(p, s) == ReclaimCheck(p, s) \in checks \/ SameRaw(s.id, s.token, s.ver)

\* Seeded fault: a job that is not requeued is dropped without a dead letter.
BugDropWithoutMark(p, s) ==
    LET a == s.attempts + 1 IN
    /\ s \in stale[p] /\ MayTake(p, s)
    /\ stale' = [stale EXCEPT ![p] = @ \ {s}]
    /\ checks' = checks \ {ReclaimCheck(p, s)}
    /\ processing' = [processing EXCEPT ![s.id] = NoRec]
    /\ timers' = IF MayRetry(p, s.id, a)
                 THEN [timers EXCEPT ![p] = @ \cup {[id |-> s.id, attempts |-> a,
                                       token |-> s.token, src |-> "reclaim"]}]
                 ELSE timers
    /\ UNCHANGED <<pending, exec, up, closed, draining, inflight, owner, waiter,
                   outcomes, faults, crashes>>

\* The delete succeeds: requeue with backoff, or dead-letter.
ReclaimTake(p, s) ==
    LET a == s.attempts + 1 IN
    /\ s \in stale[p] /\ MayTake(p, s)
    /\ stale' = [stale EXCEPT ![p] = @ \ {s}]
    /\ checks' = checks \ {ReclaimCheck(p, s)}
    /\ processing' = [processing EXCEPT ![s.id] = NoRec]
    /\ IF MayRetry(p, s.id, a)
       THEN /\ timers' = [timers EXCEPT ![p] = @ \cup
                  {[id |-> s.id, attempts |-> a, token |-> s.token, src |-> "reclaim"]}]
            /\ UNCHANGED <<inflight, waiter, outcomes>>
       ELSE /\ ReleaseKey(p, s.id) /\ SettleWaiter(p, s.id, "err")
            /\ Mark(s.id, {"failed", "dead_letter"})
            /\ UNCHANGED timers
    /\ UNCHANGED <<pending, exec, up, closed, draining, owner, faults, crashes>>

\* The delete was applied but its reply lost; the second call of evalRedis
\* finds nothing, returns 0, and the loop skips the job it has just removed.
ReclaimReplyLost(p, s) ==
    /\ s \in stale[p] /\ MayTake(p, s) /\ Fault
    /\ stale' = [stale EXCEPT ![p] = @ \ {s}]
    /\ checks' = checks \ {ReclaimCheck(p, s)}
    /\ processing' = [processing EXCEPT ![s.id] = NoRec]
    /\ UNCHANGED <<pending, exec, up, closed, draining, inflight, timers,
                   owner, waiter, outcomes, crashes>>

-----------------------------------------------------------------------------
(* Shutdown, crash, restart. *)

Close(p) ==
    /\ up[p] /\ ~closed[p] /\ p \in Closers
    /\ closed' = [closed EXCEPT ![p] = TRUE]
    /\ UNCHANGED <<redisVars, exec, up, draining, inflight, timers, stale, checks,
                   owner, waiter, outcomes, faults, crashes>>

\* close() after its grace loop (no handler left, or the grace period over):
\* reject every waiter and forget every key.
CloseEnd(p) ==
    /\ up[p] /\ closed[p]
    /\ inflight' = [inflight EXCEPT ![p] = [k \in Key |-> NoJob]]
    /\ waiter' = [j \in Job |-> IF owner[j] = p /\ waiter[j] = "open"
                                THEN "err" ELSE waiter[j]]
    /\ <<inflight', waiter'>> # <<inflight, waiter>>
    /\ UNCHANGED <<redisVars, exec, up, closed, draining, timers, stale, checks, owner,
                   outcomes, faults, crashes>>

\* Everything in memory is gone: handlers, timers, keys, waiters, scans.
Crash(p) ==
    /\ up[p] /\ crashes < MaxCrashes
    /\ crashes' = crashes + 1
    /\ up' = [up EXCEPT ![p] = FALSE]
    /\ exec' = [t \in Token |->
           IF exec[t].st \in {"claimed", "running", "finished", "released"}
              /\ exec[t].proc = p
           THEN [exec[t] EXCEPT !.st = "dead"] ELSE exec[t]]
    /\ draining' = [draining EXCEPT ![p] = FALSE]
    /\ inflight' = [inflight EXCEPT ![p] = [k \in Key |-> NoJob]]
    /\ timers' = [timers EXCEPT ![p] = {}]
    /\ stale' = [stale EXCEPT ![p] = {}]
    /\ checks' = {c \in checks : c.by # p}
    /\ waiter' = [j \in Job |-> IF owner[j] = p /\ waiter[j] = "open"
                                THEN "err" ELSE waiter[j]]
    /\ UNCHANGED <<redisVars, closed, owner, outcomes, faults>>

Restart(p) ==
    /\ ~up[p]
    /\ up' = [up EXCEPT ![p] = TRUE]
    /\ closed' = [closed EXCEPT ![p] = FALSE]
    /\ UNCHANGED <<redisVars, exec, draining, inflight, timers, stale, checks, owner,
                   waiter, outcomes, faults, crashes>>

-----------------------------------------------------------------------------
WorkerStep(t) ==
    \/ ClaimReply(t) \/ Renew(t) \/ RenewRead(t) \/ RenewWrite(t) \/ RenewReply(t)
    \/ \E r \in {"ok", "err", "terminal"} : HandlerEnds(t, r)
    \/ ReleaseRead(t) \/ Release(t) \/ ReleaseFails(t)
    \/ AfterSuccess(t) \/ AfterFailureRetry(t) \/ AfterFailureTerminal(t)

ProcStep(p) ==
    \/ \E j \in Job : Enqueue(p, j) \/ EnqueueReplyLost(p, j)
    \/ DrainEnd(p) \/ ClaimConflict(p)
    \/ \E t \in Token : ClaimNext(p, t) \/ ClaimReplyLost(p, t)
    \/ \E r \in timers[p] : \/ TimerFires(p, r)
                            \/ \E applied \in BOOLEAN : TimerPushErrs(p, r, applied)
    \/ ReclaimScan(p)
    \/ \E s \in stale[p] : \/ ReclaimSkip(p, s) \/ ReclaimRead(p, s)
                           \/ ReclaimTake(p, s) \/ ReclaimReplyLost(p, s)
    \/ Close(p) \/ CloseEnd(p) \/ Crash(p) \/ Restart(p)

Next ==
    \/ \E t \in Token : WorkerStep(t)
    \/ \E p \in Proc : ProcStep(p)
    \/ \E j \in Job : Expire(j) \/ WaitTimeout(j)

Spec == Init /\ [][Next]_vars

-----------------------------------------------------------------------------
(* Fairness: a live process's timers, polls and promises run; a handler     *)
(* returns or is timed out by _invoke; clocks advance past an unrenewed     *)
(* deadline; a crashed process is restarted by its supervisor.              *)
Fairness ==
    /\ \A t \in Token :
          /\ WF_vars(ClaimReply(t))
          /\ WF_vars(\E r \in {"ok", "err", "terminal"} : HandlerEnds(t, r))
          /\ WF_vars(Release(t)) /\ WF_vars(RenewWrite(t))
          /\ WF_vars(AfterSuccess(t) \/ AfterFailureRetry(t) \/ AfterFailureTerminal(t))
    /\ \A p \in Proc :
          /\ WF_vars(DrainEnd(p))
          /\ WF_vars(ClaimConflict(p) \/ \E t \in Token : ClaimNext(p, t))
          /\ WF_vars(\E r \in timers[p] : TimerFires(p, r))
          /\ WF_vars(ReclaimScan(p))
          /\ WF_vars(\E s \in stale[p] : ReclaimSkip(p, s) \/ ReclaimTake(p, s))
          /\ WF_vars(Restart(p))
    /\ \A j \in Job : WF_vars(Expire(j))

FairSpec == Spec /\ Fairness
-----------------------------------------------------------------------------
(* Properties. *)

TypeOK ==
    /\ pending \in Seq(Entry)
    /\ processing \in [Job -> Record \cup {NoRec}]
    /\ exec \in [Token -> Exec]
    /\ up \in [Proc -> BOOLEAN] /\ closed \in [Proc -> BOOLEAN]
    /\ draining \in [Proc -> BOOLEAN]
    /\ inflight \in [Proc -> [Key -> Job \cup {NoJob}]]
    /\ timers \in [Proc -> SUBSET Timer]
    /\ stale \in [Proc -> SUBSET Stale]
    /\ checks \subseteq Check
    /\ owner \in [Job -> Proc \cup {NoProc}]
    /\ waiter \in [Job -> {"none", "open", "ok", "err"}]
    /\ outcomes \in [Job -> SUBSET Outcome]
    /\ faults \in Nat /\ crashes \in Nat

\* The claims ever made on j, one per delivery to a worker.
Claims(j) == {t \in Token : exec[t].id = j}

InPending(j) == \E i \in 1..Len(pending) : pending[i].id = j

\* Run execution is enqueued with retryable: false because its side effects
\* are unknown (server.js): over every crash, restart, lost redis reply, lost
\* lease and concurrent reclaim such a job reaches a worker at most once.
NonRetryableRunsOnce ==
    \A j \in Job \ Retryable : \A t1, t2 \in Claims(j) : t1 = t2

\* Why it holds, as an inductive invariant: a non-retryable job is in the
\* pending list at most once and only before its one claim, and no backoff
\* timer (of a failure or of a reclaim) ever holds a copy of it.
OnceFor(j) ==
    /\ owner[j] = NoProc => ~InPending(j) /\ Claims(j) = {}
    /\ InPending(j) => Claims(j) = {}
    /\ \A a, b \in 1..Len(pending) : pending[a].id = j /\ pending[b].id = j => a = b
    /\ \A a, b \in Claims(j) : a = b
    /\ \A p \in Proc : \A r \in timers[p] : r.id # j
OnceInv == \A j \in Job \ Retryable : OnceFor(j)

\* The queue does what its header promises, for every interleaving: deliveries
\* and terminal states evolve as JobPromise allows.
Promise == INSTANCE JobPromise WITH claims <- [j \in Job |-> Claims(j)],
                                    ended <- outcomes
ImplementsPromise == Promise!Spec

InTimer(j)   == \E p \in Proc : \E r \in timers[p] : r.id = j
Busy(t)      == exec[t].st \in {"claimed", "running", "finished", "released"}
Held(j) == InPending(j) \/ InTimer(j) \/ processing[j] # NoRec
           \/ \E t \in Claims(j) : Busy(t)

\* A job that is still somewhere (list, hash, worker or backoff timer) and has
\* no terminal state keeps being somewhere or gets a terminal state in every
\* step but a crash and a redis fault: no handler path drops a job silently.
NoSilentLoss ==
    [][\A j \in Job :
          /\ Held(j) /\ outcomes[j] = {}
          /\ crashes' = crashes /\ faults' = faults
          => Held(j)' \/ outcomes[j]' # {}]_vars

\* A lease that has not expired is ended by its own worker only: neither the
\* late release of a worker that lost its lease nor a reclaim acting on an
\* old scan may remove the record of the present holder.  Without scripts the
\* delete is not atomic, and there is one way: the record was renewed, or
\* claimed anew, between the read of the fallback and its HDEL.
Outdated(c) == ~SameRaw(c.s.id, c.s.token, c.s.ver)
LiveLeaseIsRespected ==
    [][\A j \in Job :
          /\ processing[j] # NoRec /\ ~processing[j].expired
          /\ processing'[j] = NoRec
          => \/ /\ exec[processing[j].token].st = "finished"
                /\ exec'[processing[j].token].st = "released"
             \/ \E c \in checks \ checks' :
                   c.s.id = j /\ c.op \in {"release", "reclaim"} /\ Outdated(c)]_vars

\* The places from which one more delivery of j can come, counted.
Copies(j) ==
    Cardinality({i \in 1..Len(pending) : pending[i].id = j})
    + Cardinality({pr \in Proc \X UNION {timers[p] : p \in Proc} :
                      pr[2] \in timers[pr[1]] /\ pr[2].id = j})
    + Cardinality({t \in Claims(j) :
          \/ exec[t].st \in {"claimed", "running", "finished"}
          \/ exec[t].st = "released" /\ exec[t].res = "err"
          \/ exec[t].st = "dead" /\ processing[j] # NoRec /\ processing[j].token = t})

\* While leases of live workers hold and redis answers, a job is in one place
\* only, whatever crashes: never delivered to two workers, never queued twice.
OneCopy == \A j \in Job : Copies(j) <= 1

\* "retryable jobs are retried with backoff up to maxAttempts" (queue.js
\* header): no job is delivered more often than that.
ClaimsWithinMaxAttempts == \A j \in Job : Cardinality(Claims(j)) <= MaxAttempts

\* "every job ends as completed | failed | dead_letter" (queue.js header): a
\* job that was reported completed is not reported failed as well.
EndsOneWay == \A j \in Job : ~({"completed", "failed"} \subseteq outcomes[j])

\* The running counter tested before an await and incremented after it never
\* passes the concurrency limit, a claim in flight included.
ConcurrencyRespected ==
    \A p \in Proc :
        Cardinality(Running(p) \cup {t \in Token : /\ exec[t].st = "claimed"
                                                   /\ exec[t].proc = p}) <= Concurrency

\* Liveness of scheduling: an accepted job reaches a terminal state, unless a
\* crash took the only copy of it (then ~Held), although workers crash,
\* lose leases, fail and shut down, as long as one process stays open.
EventuallyEnds ==
    \A j \in Job : (owner[j] # NoProc) ~> (outcomes[j] # {} \/ ~Held(j))

\* What the queue keeps of a job through crashes, retries and shutdowns while live
\* workers hold their leases and redis answers: it is in one place at most, it
\* ends in one way only, it is claimed at most MaxAttempts times, and no process
\* runs more jobs than its concurrency.
StableQueue == OneCopy /\ EndsOneWay /\ ClaimsWithinMaxAttempts /\ ConcurrencyRespected
=============================================================================
