--------------------------- MODULE JobQueueProofs ---------------------------
(* Proofs about JobQueue for every set of processes, jobs, keys and tokens. *)
EXTENDS JobQueue, FiniteSetTheorems, SequenceTheorems, TLAPS

-----------------------------------------------------------------------------
(* Type correctness. *)

\* The initial state is well typed.
LEMMA InitTypeOK == Init => TypeOK
  BY JobQueueAssumption
  DEF Init, TypeOK, Entry, Exec, Unused

\* Only the record of a token never used carries the phase "unused".
LEMMA ClaimedExec ==
  ASSUME TypeOK, NEW t \in Token, exec[t].st # "unused"
  PROVE  exec[t] \in Claimed
  BY DEF TypeOK, Exec, Unused

\* A claimed execution stays well typed when its record is replaced.
LEMMA ExecTyped ==
  ASSUME TypeOK, NEW t \in Token, NEW e \in Claimed, exec' = [exec EXCEPT ![t] = e]
  PROVE  exec' \in [Token -> Exec]
  BY DEF TypeOK, Exec

\* A claimed execution stays well typed when its phase changes.
LEMMA PhaseTyped ==
  ASSUME TypeOK, NEW t \in Token, NEW st \in ExecState, exec[t].st # "unused",
         exec' = [exec EXCEPT ![t].st = st]
  PROVE  exec' \in [Token -> Exec]
<1>1. [exec[t] EXCEPT !.st = st] \in Claimed
  BY ClaimedExec DEF Claimed
<1> QED BY <1>1, ExecTyped

\* Settling a job's waiter keeps the waiters well typed.
LEMMA SettleTyped ==
  ASSUME TypeOK, NEW p \in Proc, NEW j \in Job, NEW r \in {"ok", "err"},
         SettleWaiter(p, j, r)
  PROVE  waiter' \in [Job -> {"none", "open", "ok", "err"}]
<1>1. waiter \in [Job -> {"none", "open", "ok", "err"}]
  BY DEF TypeOK
<1> QED BY <1>1 DEF SettleWaiter

\* Releasing a job's key keeps the keys well typed.
LEMMA KeyTyped ==
  ASSUME TypeOK, NEW p \in Proc, NEW j \in Job, ReleaseKey(p, j)
  PROVE  inflight' \in [Proc -> [Key -> Job \cup {NoJob}]]
<1>1. inflight \in [Proc -> [Key -> Job \cup {NoJob}]]
  BY DEF TypeOK
<1>2. [inflight[p] EXCEPT ![KeyOf[j]] = NoJob] \in [Key -> Job \cup {NoJob}]
  BY <1>1
<1>3. inflight' = [inflight EXCEPT ![p] = [inflight[p] EXCEPT ![KeyOf[j]] = NoJob]]
  BY DEF ReleaseKey
<1> QED BY <1>1, <1>2, <1>3

\* Recording terminal states keeps outcomes well typed.
LEMMA MarkTyped ==
  ASSUME TypeOK, NEW j \in Job, NEW m \in SUBSET Outcome, Mark(j, m)
  PROVE  outcomes' \in [Job -> SUBSET Outcome]
<1>1. outcomes \in [Job -> SUBSET Outcome]
  BY DEF TypeOK
<1> QED BY <1>1 DEF Mark

\* A fallback of a worker belongs to a claim.
LEMMA CheckClaimed ==
  ASSUME TypeOK, NEW t \in Token, NEW op, OwnCheck(op, t) \in checks
  PROVE  exec[t] \in Claimed
<1>1. OwnCheck(op, t) \in Check
  BY DEF TypeOK
<1>2. exec[t].proc \in Proc
  BY <1>1 DEF Check, OwnCheck
<1> QED BY <1>2, JobQueueAssumption DEF TypeOK, Exec, Unused

\* Only a token that was claimed makes steps.
LEMMA WorkerClaimed ==
  ASSUME TypeOK, NEW t \in Token, WorkerStep(t)
  PROVE  exec[t] \in Claimed
  BY ClaimedExec, CheckClaimed DEF WorkerStep, ClaimReply, Renew, RenewRead, RenewWrite,
     RenewReply, HandlerEnds, ReleaseRead, Release, ReleaseFails, AfterSuccess,
     AfterFailureRetry, AfterFailureTerminal

\* The claim that a worker's fallback compares.
LEMMA CheckTyped ==
  ASSUME TypeOK, NEW t \in Token, exec[t] \in Claimed, NEW op \in {"release", "renew"}
  PROVE  OwnCheck(op, t) \in Check
  BY DEF OwnCheck, Claim, Check, Stale, Claimed

\* Steps of a worker (claim reply, renewal, end of the handler, settlement)
\* preserve the type invariant.
LEMMA WorkerTypeOK ==
  ASSUME TypeOK, NEW t \in Token, WorkerStep(t)
  PROVE  TypeOK'
<1>e. exec[t] \in Claimed
  BY WorkerClaimed
<1>p. exec[t].proc \in Proc /\ exec[t].id \in Job /\ exec[t].attempts \in Nat
  BY <1>e DEF Claimed
<1>1. CASE ClaimReply(t)
  <2>1. /\ [exec[t] EXCEPT !.st = "running"] \in Claimed
        /\ [exec[t] EXCEPT !.st = "finished", !.res = "nohandler"] \in Claimed
    BY <1>e DEF Claimed, ExecState, Result
  <2>2. exec' \in [Token -> Exec]
    BY <1>1, <2>1, ExecTyped DEF ClaimReply
  <2> QED BY <1>1, <2>2 DEF ClaimReply, TypeOK, redisVars
<1>2. CASE Renew(t)
  <2>1. [exec[t] EXCEPT !.renewing = TRUE] \in Claimed
    BY <1>e DEF Claimed
  <2>2. exec' \in [Token -> Exec]
    BY <1>2, <2>1, ExecTyped DEF Renew
  <2>3. processing' \in [Job -> Record \cup {NoRec}]
    <3>1. processing \in [Job -> Record \cup {NoRec}]
      BY DEF TypeOK
    <3>2. processing[exec[t].id] \in Record
      BY <1>2, <1>p, <3>1 DEF Renew, SameRaw
    <3>3. ASSUME NEW v \in Nat
          PROVE  [processing[exec[t].id] EXCEPT !.ver = v, !.expired = FALSE] \in Record
      BY <3>2 DEF Record
    <3>4. exec[t].ver + 1 \in Nat
      BY <1>e DEF Claimed
    <3> QED BY <1>2, <1>p, <3>1, <3>3, <3>4 DEF Renew
  <2> QED BY <1>2, <2>2, <2>3 DEF Renew, TypeOK, procVars
<1>3. CASE RenewReply(t)
  <2>1. ASSUME NEW v \in Nat
        PROVE  [exec[t] EXCEPT !.ver = v, !.renewing = FALSE] \in Claimed
    BY <1>e DEF Claimed
  <2>2. exec[t].ver + 1 \in Nat
    BY <1>e DEF Claimed
  <2>3. exec' \in [Token -> Exec]
    BY <1>3, <2>1, <2>2, ExecTyped DEF RenewReply
  <2> QED BY <1>3, <2>3 DEF RenewReply, TypeOK, redisVars, procVars
<1>4. ASSUME NEW r \in {"ok", "err", "terminal"}, HandlerEnds(t, r)
      PROVE  TypeOK'
  <2>1. [exec[t] EXCEPT !.st = "finished", !.res = r] \in Claimed
    BY <1>e DEF Claimed, ExecState, Result
  <2>2. exec' = [exec EXCEPT ![t] = [exec[t] EXCEPT !.st = "finished", !.res = r]]
    BY <1>4 DEF HandlerEnds, TypeOK
  <2>3. exec' \in [Token -> Exec]
    BY <2>1, <2>2, ExecTyped
  <2> QED BY <1>4, <2>3 DEF HandlerEnds, TypeOK, redisVars, procVars
<1>5. CASE Release(t)
  <2>1. exec' \in [Token -> Exec]
    BY <1>5, PhaseTyped DEF Release, ExecState
  <2>2. processing' \in [Job -> Record \cup {NoRec}]
    BY <1>5, <1>p DEF Release, TypeOK
  <2>3. checks' \subseteq Check
    BY <1>5 DEF Release, TypeOK
  <2> QED BY <1>5, <2>1, <2>2, <2>3 DEF Release, TypeOK
<1>6. CASE ReleaseFails(t)
  <2>1. exec' \in [Token -> Exec]
    BY <1>6, PhaseTyped DEF ReleaseFails, ExecState
  <2>2. checks' \subseteq Check
    BY <1>6 DEF ReleaseFails, TypeOK
  <2> QED BY <1>6, <2>1, <2>2 DEF ReleaseFails, Fault, TypeOK, redisVars
<1>7. CASE AfterSuccess(t)
  <2>1. exec' \in [Token -> Exec]
    BY <1>7, PhaseTyped DEF AfterSuccess, Done, ExecState
  <2>2. waiter' \in [Job -> {"none", "open", "ok", "err"}]
    BY <1>7, <1>p, SettleTyped DEF AfterSuccess
  <2>3. inflight' \in [Proc -> [Key -> Job \cup {NoJob}]]
    BY <1>7, <1>p, KeyTyped DEF AfterSuccess
  <2>4. outcomes' \in [Job -> SUBSET Outcome]
    BY <1>7, <1>p, MarkTyped DEF AfterSuccess, Outcome
  <2> QED BY <1>7, <2>1, <2>2, <2>3, <2>4 DEF AfterSuccess, TypeOK, redisVars
<1>8. CASE AfterFailureRetry(t)
  <2>1. exec' \in [Token -> Exec]
    BY <1>8, PhaseTyped DEF AfterFailureRetry, Done, ExecState
  <2>2. timers' \in [Proc -> SUBSET Timer]
    <3>1. timers \in [Proc -> SUBSET Timer]
      BY DEF TypeOK
    <3>2. [id |-> exec[t].id, attempts |-> exec[t].attempts + 1, token |-> t,
           src |-> "failure"] \in Timer
      BY <1>p DEF Timer
    <3> QED BY <1>8, <3>1, <3>2 DEF AfterFailureRetry
  <2> QED BY <1>8, <2>1, <2>2 DEF AfterFailureRetry, TypeOK, redisVars
<1>9. CASE AfterFailureTerminal(t)
  <2>1. exec' \in [Token -> Exec]
    BY <1>9, PhaseTyped DEF AfterFailureTerminal, Done, ExecState
  <2>2. waiter' \in [Job -> {"none", "open", "ok", "err"}]
    BY <1>9, <1>p, SettleTyped DEF AfterFailureTerminal
  <2>3. inflight' \in [Proc -> [Key -> Job \cup {NoJob}]]
    BY <1>9, <1>p, KeyTyped DEF AfterFailureTerminal
  <2>4. outcomes' \in [Job -> SUBSET Outcome]
    BY <1>9, <1>p, MarkTyped DEF AfterFailureTerminal, Outcome
  <2> QED BY <1>9, <2>1, <2>2, <2>3, <2>4 DEF AfterFailureTerminal, TypeOK, redisVars
<1>10. CASE RenewRead(t)
  <2>1. [exec[t] EXCEPT !.renewing = TRUE] \in Claimed
    BY <1>e DEF Claimed
  <2>2. exec' \in [Token -> Exec]
    BY <1>10, <2>1, ExecTyped DEF RenewRead
  <2>3. checks' \subseteq Check
    BY <1>10, <1>e, CheckTyped DEF RenewRead, TypeOK
  <2> QED BY <1>10, <2>2, <2>3 DEF RenewRead, Fault, TypeOK, redisVars
<1>11. CASE RenewWrite(t)
  <2>1. exec[t].ver + 1 \in Nat
    BY <1>e DEF Claimed
  <2>2. [token |-> t, ver |-> exec[t].ver + 1, attempts |-> exec[t].attempts,
         expired |-> FALSE] \in Record
    BY <1>p, <2>1 DEF Record
  <2>3. processing' \in [Job -> Record \cup {NoRec}]
    BY <1>11, <1>p, <2>2 DEF RenewWrite, TypeOK
  <2>4. checks' \subseteq Check
    BY <1>11 DEF RenewWrite, TypeOK
  <2> QED BY <1>11, <2>3, <2>4 DEF RenewWrite, TypeOK
<1>12. CASE ReleaseRead(t)
  <2>1. checks' \subseteq Check
    BY <1>12, <1>e, CheckTyped DEF ReleaseRead, TypeOK
  <2> QED BY <1>12, <2>1 DEF ReleaseRead, Fault, TypeOK, redisVars
<1> QED BY <1>1, <1>2, <1>3, <1>4, <1>5, <1>6, <1>7, <1>8, <1>9, <1>10, <1>11, <1>12
        DEF WorkerStep

\* Appending a job entry keeps the pending list well typed.
LEMMA AppendTyped ==
  ASSUME TypeOK, NEW j \in Job, NEW a \in Nat
  PROVE  Append(pending, [id |-> j, attempts |-> a]) \in Seq(Entry)
  BY DEF TypeOK, Entry

\* The claim script keeps list, hash and executions well typed.
LEMMA ClaimLuaTyped ==
  ASSUME TypeOK, NEW p \in Proc, NEW t \in Token, NEW st \in ExecState,
         ClaimLua(p, t, st)
  PROVE  /\ pending' \in Seq(Entry)
         /\ processing' \in [Job -> Record \cup {NoRec}]
         /\ exec' \in [Token -> Exec]
<1> DEFINE e == Head(pending)
<1>1. pending \in Seq(Entry) /\ pending # <<>>
  BY DEF TypeOK, ClaimLua
<1>2. e \in Entry /\ Tail(pending) \in Seq(Entry)
  BY <1>1
<1>3. e.id \in Job /\ e.attempts \in Nat
  BY <1>2 DEF Entry
<1> HIDE DEF e
<1>4. [token |-> t, ver |-> 0, attempts |-> e.attempts, expired |-> FALSE] \in Record
  BY <1>3 DEF Record
<1>5. [st |-> st, res |-> "none", proc |-> p, id |-> e.id, attempts |-> e.attempts,
       ver |-> 0, renewing |-> FALSE] \in Claimed
  BY <1>3 DEF Claimed, Result
<1>6. exec' \in [Token -> Exec]
  BY <1>5, ExecTyped DEF ClaimLua, e
<1>7. processing' \in [Job -> Record \cup {NoRec}]
  <2>1. processing \in [Job -> Record \cup {NoRec}]
    BY DEF TypeOK
  <2> QED BY <2>1, <1>4 DEF ClaimLua, e
<1>8. pending' \in Seq(Entry)
  BY <1>2 DEF ClaimLua
<1> QED BY <1>6, <1>7, <1>8

\* Steps of a process (enqueue, claim, timers, reclaim, shutdown, crash)
\* preserve the type invariant.
LEMMA ProcTypeOK ==
  ASSUME TypeOK, NEW p \in Proc, ProcStep(p)
  PROVE  TypeOK'
<1>1. ASSUME NEW j \in Job, Enqueue(p, j)
      PROVE  TypeOK'
  <2>1. pending' \in Seq(Entry)
    BY <1>1, AppendTyped DEF Enqueue
  <2>2. inflight' \in [Proc -> [Key -> Job \cup {NoJob}]]
    <3>1. inflight \in [Proc -> [Key -> Job \cup {NoJob}]]
      BY DEF TypeOK
    <3>2. [inflight[p] EXCEPT ![KeyOf[j]] = j] \in [Key -> Job \cup {NoJob}]
      BY <3>1
    <3> QED BY <1>1, <3>1, <3>2 DEF Enqueue
  <2>3. waiter' \in [Job -> {"none", "open", "ok", "err"}]
    <3>1. waiter \in [Job -> {"none", "open", "ok", "err"}]
      BY DEF TypeOK
    <3> QED BY <1>1, <3>1 DEF Enqueue
  <2> QED BY <1>1, <2>1, <2>2, <2>3 DEF Enqueue, TypeOK
<1>2. ASSUME NEW j \in Job, EnqueueReplyLost(p, j)
      PROVE  TypeOK'
  <2>1. pending' \in Seq(Entry)
    BY <1>2, AppendTyped DEF EnqueueReplyLost
  <2>2. waiter' \in [Job -> {"none", "open", "ok", "err"}]
    <3>1. waiter \in [Job -> {"none", "open", "ok", "err"}]
      BY DEF TypeOK
    <3> QED BY <1>2, <3>1 DEF EnqueueReplyLost
  <2> QED BY <1>2, <2>1, <2>2 DEF EnqueueReplyLost, Fault, TypeOK
<1>3. CASE DrainEnd(p)
  BY <1>3 DEF DrainEnd, TypeOK, redisVars
<1>4. CASE ClaimConflict(p)
  <2>1. pending \in Seq(Entry) /\ pending # <<>>
    BY <1>4 DEF ClaimConflict, TypeOK
  <2>2. pending' \in Seq(Entry)
    BY <1>4, <2>1 DEF ClaimConflict
  <2> QED BY <1>4, <2>2 DEF ClaimConflict, TypeOK
<1>5. ASSUME NEW t \in Token, ClaimNext(p, t)
      PROVE  TypeOK'
  BY <1>5, ClaimLuaTyped DEF ClaimNext, TypeOK, ExecState
<1>6. ASSUME NEW t \in Token, ClaimReplyLost(p, t)
      PROVE  TypeOK'
  BY <1>6, ClaimLuaTyped DEF ClaimReplyLost, Fault, TypeOK, ExecState
<1>7. ASSUME NEW r \in timers[p],
             TimerFires(p, r) \/ \E applied \in BOOLEAN : TimerPushErrs(p, r, applied)
      PROVE  TypeOK'
  <2>1. r.id \in Job /\ r.attempts \in Nat
    BY DEF TypeOK, Timer
  <2>2. pending' \in Seq(Entry)
    <3>1. pending' \in {pending, Append(pending, [id |-> r.id, attempts |-> r.attempts])}
      BY <1>7 DEF TimerFires, TimerPushErrs
    <3> QED BY <2>1, <3>1, AppendTyped DEF TypeOK
  <2>3. waiter' \in [Job -> {"none", "open", "ok", "err"}]
    <3>1. SettleWaiter(p, r.id, "err") \/ UNCHANGED waiter
      BY <1>7 DEF TimerFires, TimerPushErrs
    <3> QED BY <2>1, <3>1, SettleTyped DEF TypeOK
  <2>4. inflight' \in [Proc -> [Key -> Job \cup {NoJob}]]
    <3>1. ReleaseKey(p, r.id) \/ UNCHANGED inflight
      BY <1>7 DEF TimerFires, TimerPushErrs
    <3> QED BY <2>1, <3>1, KeyTyped DEF TypeOK
  <2>5. outcomes' \in [Job -> SUBSET Outcome]
    <3>1. Mark(r.id, {"failed"}) \/ UNCHANGED outcomes
      BY <1>7 DEF TimerFires, TimerPushErrs
    <3> QED BY <2>1, <3>1, MarkTyped DEF TypeOK, Outcome
  <2>6. timers' \in [Proc -> SUBSET Timer]
    <3>1. timers' = [timers EXCEPT ![p] = @ \ {r}] /\ timers \in [Proc -> SUBSET Timer]
      BY <1>7 DEF TimerFires, TimerPushErrs, TypeOK
    <3> QED BY <3>1
  <2>7. faults' \in Nat
    BY <1>7 DEF TimerFires, TimerPushErrs, Fault, TypeOK
  <2> QED BY <1>7, <2>2, <2>3, <2>4, <2>5, <2>6, <2>7 DEF TimerFires, TimerPushErrs, TypeOK
<1>8. CASE ReclaimScan(p)
  <2>1. ASSUME NEW j \in Job, processing[j] # NoRec
        PROVE  StaleOf(j) \in Stale
    <3>1. processing[j] \in Record
      BY <2>1 DEF TypeOK
    <3> QED BY <3>1 DEF StaleOf, Stale, Record
  <2>2. stale' \in [Proc -> SUBSET Stale]
    BY <1>8, <2>1 DEF ReclaimScan, TypeOK
  <2> QED BY <1>8, <2>2 DEF ReclaimScan, TypeOK, redisVars
<1>9. ASSUME NEW s \in stale[p],
             ReclaimSkip(p, s) \/ ReclaimTake(p, s) \/ ReclaimReplyLost(p, s)
      PROVE  TypeOK'
  <2>1. s.id \in Job /\ s.attempts + 1 \in Nat /\ s.token \in Token
    BY DEF TypeOK, Stale
  <2>2. waiter' \in [Job -> {"none", "open", "ok", "err"}]
    <3>1. SettleWaiter(p, s.id, "err") \/ UNCHANGED waiter
      BY <1>9 DEF ReclaimSkip, ReclaimTake, ReclaimReplyLost
    <3> QED BY <2>1, <3>1, SettleTyped DEF TypeOK
  <2>3. inflight' \in [Proc -> [Key -> Job \cup {NoJob}]]
    <3>1. ReleaseKey(p, s.id) \/ UNCHANGED inflight
      BY <1>9 DEF ReclaimSkip, ReclaimTake, ReclaimReplyLost
    <3> QED BY <2>1, <3>1, KeyTyped DEF TypeOK
  <2>4. outcomes' \in [Job -> SUBSET Outcome]
    <3>1. Mark(s.id, {"failed", "dead_letter"}) \/ UNCHANGED outcomes
      BY <1>9 DEF ReclaimSkip, ReclaimTake, ReclaimReplyLost
    <3> QED BY <2>1, <3>1, MarkTyped DEF TypeOK, Outcome
  <2>5. timers' \in [Proc -> SUBSET Timer]
    <3>1. timers \in [Proc -> SUBSET Timer]
      BY DEF TypeOK
    <3>2. [id |-> s.id, attempts |-> s.attempts + 1, token |-> s.token,
           src |-> "reclaim"] \in Timer
      BY <2>1 DEF Timer
    <3> QED BY <1>9, <3>1, <3>2 DEF ReclaimSkip, ReclaimTake, ReclaimReplyLost
  <2>6. /\ processing' \in [Job -> Record \cup {NoRec}]
        /\ stale' \in [Proc -> SUBSET Stale] /\ faults' \in Nat
    <3>1. /\ processing' = processing \/ processing' = [processing EXCEPT ![s.id] = NoRec]
          /\ stale' = [stale EXCEPT ![p] = @ \ {s}]
          /\ faults' = faults \/ faults' = faults + 1
      BY <1>9 DEF ReclaimSkip, ReclaimTake, ReclaimReplyLost, Fault, redisVars
    <3>2. processing \in [Job -> Record \cup {NoRec}] /\ stale \in [Proc -> SUBSET Stale]
          /\ faults \in Nat
      BY DEF TypeOK
    <3> QED BY <3>1, <3>2
  <2>7. checks' \subseteq Check
    BY <1>9 DEF ReclaimSkip, ReclaimTake, ReclaimReplyLost, TypeOK
  <2> QED BY <1>9, <2>2, <2>3, <2>4, <2>5, <2>6, <2>7
          DEF ReclaimSkip, ReclaimTake, ReclaimReplyLost, TypeOK, redisVars
<1>10. CASE Close(p)
  BY <1>10 DEF Close, TypeOK, redisVars
<1>11. CASE CloseEnd(p)
  BY <1>11 DEF CloseEnd, TypeOK, redisVars
<1>12. CASE Crash(p)
  <2>1. ASSUME NEW t \in Token, exec[t].st # "unused"
        PROVE  [exec[t] EXCEPT !.st = "dead"] \in Claimed
    BY <2>1, ClaimedExec DEF Claimed, ExecState
  <2>2. exec' \in [Token -> Exec]
    BY <1>12, <2>1 DEF Crash, TypeOK, Exec
  <2>3. waiter' \in [Job -> {"none", "open", "ok", "err"}]
    BY <1>12 DEF Crash, TypeOK
  <2>4. checks' \subseteq Check
    BY <1>12 DEF Crash, TypeOK
  <2> QED BY <1>12, <2>2, <2>3, <2>4 DEF Crash, TypeOK, redisVars
<1>13. CASE Restart(p)
  BY <1>13 DEF Restart, TypeOK, redisVars
<1>14. ASSUME NEW s \in stale[p], ReclaimRead(p, s)
       PROVE  TypeOK'
  <2>1. ReclaimCheck(p, s) \in Check
    BY DEF ReclaimCheck, Check, TypeOK
  <2>2. checks' \subseteq Check
    BY <1>14, <2>1 DEF ReclaimRead, TypeOK
  <2> QED BY <1>14, <2>2 DEF ReclaimRead, Fault, TypeOK, redisVars
<1> QED BY <1>1, <1>2, <1>3, <1>4, <1>5, <1>6, <1>7, <1>8, <1>9, <1>10, <1>11,
           <1>12, <1>13, <1>14 DEF ProcStep

\* Every step preserves the type invariant.
LEMMA NextTypeOK == TypeOK /\ [Next]_vars => TypeOK'
<1> SUFFICES ASSUME TypeOK, [Next]_vars PROVE TypeOK'
  OBVIOUS
<1>1. ASSUME NEW j \in Job, Expire(j)
      PROVE  TypeOK'
  <2>1. processing[j] \in Record
    BY <1>1 DEF Expire, TypeOK
  <2>2. [processing[j] EXCEPT !.expired = TRUE] \in Record
    BY <2>1 DEF Record
  <2>3. processing' \in [Job -> Record \cup {NoRec}]
    BY <1>1, <2>2 DEF Expire, TypeOK
  <2> QED BY <1>1, <2>3 DEF Expire, TypeOK, procVars
<1>2. ASSUME NEW j \in Job, WaitTimeout(j)
      PROVE  TypeOK'
  <2>1. waiter' \in [Job -> {"none", "open", "ok", "err"}]
    BY <1>2 DEF WaitTimeout, TypeOK
  <2> QED BY <1>2, <2>1 DEF WaitTimeout, TypeOK, redisVars, procVars
<1>3. CASE UNCHANGED vars
  BY <1>3 DEF vars, TypeOK
<1> QED BY <1>1, <1>2, <1>3, WorkerTypeOK, ProcTypeOK DEF Next

\* Every reachable state of the redis queue is well typed: lists, hash,
\* leases, keys, timers and waiters hold what the code expects in them.
THEOREM TypeCorrect == Spec => []TypeOK
  BY InitTypeOK, NextTypeOK, PTL DEF Spec

-----------------------------------------------------------------------------
(* A non-retryable job is delivered at most once. *)

\* OnceInv holds initially: nothing is queued, claimed or delayed.
LEMMA InitOnce == Init => OnceInv
  BY JobQueueAssumption
  DEF Init, OnceInv, OnceFor, InPending, Claims, Unused

\* A step that leaves list, owners and the ids of all executions alone, and
\* sets timers for retryable jobs only, preserves OnceInv.
LEMMA QuietOnce ==
  ASSUME TypeOK, OnceInv, pending' = pending, owner' = owner,
         \A t \in Token : exec'[t].id = exec[t].id,
         \A p \in Proc : \A r \in timers'[p] : r \in timers[p] \/ r.id \in Retryable
  PROVE  OnceInv'
<1> SUFFICES ASSUME NEW j \in Job \ Retryable PROVE OnceFor(j)'
  BY JobQueueAssumption DEF OnceInv
<1>1. Claims(j)' = Claims(j)
  BY DEF Claims
<1>2. InPending(j)' <=> InPending(j)
  BY DEF InPending
<1>3. OnceFor(j)
  BY DEF OnceInv
<1>4. \A p \in Proc : \A r \in timers'[p] : r.id # j
  BY <1>3 DEF OnceFor
<1> QED BY <1>1, <1>2, <1>3, <1>4 DEF OnceFor

\* Appending a retryable job, or a job nobody has enqueued before, preserves
\* OnceInv.
LEMMA AppendOnce ==
  ASSUME TypeOK, OnceInv, NEW i \in Job, NEW a \in Nat,
         pending' = Append(pending, [id |-> i, attempts |-> a]),
         i \in Retryable \/ (owner[i] = NoProc /\ owner'[i] # NoProc),
         \A k \in Job \ {i} : owner'[k] = owner[k],
         \A t \in Token : exec'[t].id = exec[t].id,
         \A p \in Proc : \A r \in timers'[p] : r \in timers[p]
  PROVE  OnceInv'
<1> SUFFICES ASSUME NEW j \in Job \ Retryable PROVE OnceFor(j)'
  BY JobQueueAssumption DEF OnceInv
<1>1. Claims(j)' = Claims(j)
  BY DEF Claims
<1>2. OnceFor(j)
  BY DEF OnceInv
<1>3. /\ Len(pending') = Len(pending) + 1 /\ Len(pending) \in Nat
      /\ \A k \in 1..Len(pending) : pending'[k] = pending[k]
      /\ pending'[Len(pending) + 1].id = i
  BY DEF TypeOK
<1>4. \A p \in Proc : \A r \in timers'[p] : r.id # j
  BY <1>2 DEF OnceFor
<1>5. CASE j # i
  <2>1. \A k \in 1..Len(pending') : pending'[k].id = j => k \in 1..Len(pending)
    BY <1>3, <1>5
  <2>2. InPending(j)' => InPending(j)
    BY <1>3, <2>1 DEF InPending
  <2>3. \A k, l \in 1..Len(pending') : pending'[k].id = j /\ pending'[l].id = j => k = l
    BY <1>2, <1>3, <2>1 DEF OnceFor
  <2> QED BY <1>1, <1>2, <1>4, <1>5, <2>2, <2>3 DEF OnceFor
<1>6. CASE j = i
  <2>1. owner[j] = NoProc /\ owner'[j] # NoProc
    BY <1>6
  <2>2. ~InPending(j) /\ Claims(j) = {}
    BY <1>2, <2>1 DEF OnceFor
  <2>3. \A k \in 1..Len(pending') : pending'[k].id = j => k = Len(pending) + 1
    BY <1>3, <2>2 DEF InPending
  <2> QED BY <1>1, <1>4, <2>1, <2>2, <2>3 DEF OnceFor
<1> QED BY <1>5, <1>6

\* The claim script preserves OnceInv: the job leaves the list for good.
LEMMA ClaimOnce ==
  ASSUME TypeOK, OnceInv, NEW p \in Proc, NEW t \in Token, NEW st \in ExecState,
         ClaimLua(p, t, st), owner' = owner, timers' = timers
  PROVE  OnceInv'
<1> SUFFICES ASSUME NEW j \in Job \ Retryable PROVE OnceFor(j)'
  BY JobQueueAssumption DEF OnceInv
<1> DEFINE e == Head(pending)
<1>1. OnceFor(j)
  BY DEF OnceInv
<1>2. /\ pending \in Seq(Entry) /\ pending # <<>> /\ Len(pending) \in Nat \ {0}
      /\ e = pending[1] /\ e \in Entry
  BY DEF TypeOK, ClaimLua
<1>3. /\ Len(pending') = Len(pending) - 1
      /\ \A k \in 1..Len(pending') : pending'[k] = pending[k + 1]
  BY <1>2 DEF ClaimLua
<1>4. exec'[t].id = e.id /\ \A u \in Token \ {t} : exec'[u].id = exec[u].id
  BY DEF ClaimLua, TypeOK
<1>5. exec[t].id = NoJob
  BY DEF ClaimLua, Unused
<1>6. InPending(j)' => InPending(j)
  BY <1>2, <1>3 DEF InPending
<1>7. \A k, l \in 1..Len(pending') : pending'[k].id = j /\ pending'[l].id = j => k = l
  <2> SUFFICES ASSUME NEW k \in 1..Len(pending'), NEW l \in 1..Len(pending'),
                      pending'[k].id = j, pending'[l].id = j
               PROVE  k = l
    OBVIOUS
  <2>1. /\ k + 1 \in 1..Len(pending) /\ pending[k + 1].id = j
        /\ l + 1 \in 1..Len(pending) /\ pending[l + 1].id = j
    BY <1>2, <1>3
  <2>2. k + 1 = l + 1
    BY <1>1, <2>1 DEF OnceFor
  <2> QED BY <1>2, <1>3, <2>2
<1>8. CASE e.id # j
  <2>1. Claims(j)' = Claims(j)
    BY <1>4, <1>5, <1>8, JobQueueAssumption DEF Claims
  <2> QED BY <1>1, <1>6, <1>7, <2>1 DEF OnceFor
<1>9. CASE e.id = j
  <2>1. InPending(j)
    BY <1>2, <1>9 DEF InPending
  <2>2. Claims(j) = {} /\ owner[j] # NoProc
    BY <1>1, <2>1 DEF OnceFor
  <2>3. Claims(j)' = {t}
    BY <1>4, <1>9, <2>2 DEF Claims
  <2>4. ~InPending(j)'
    <3> SUFFICES ASSUME NEW k \in 1..Len(pending'), pending'[k].id = j PROVE FALSE
      BY DEF InPending
    <3>1. k + 1 \in 1..Len(pending) /\ 1 \in 1..Len(pending) /\ pending[k + 1].id = j
      BY <1>2, <1>3
    <3>2. k + 1 = 1
      BY <1>1, <1>2, <1>9, <3>1 DEF OnceFor
    <3> QED BY <3>2
  <2> QED BY <1>1, <1>7, <2>2, <2>3, <2>4 DEF OnceFor
<1> QED BY <1>8, <1>9

\* Rotating an unclaimable head to the tail preserves OnceInv.
LEMMA ConflictOnce ==
  ASSUME TypeOK, OnceInv, NEW p \in Proc, ClaimConflict(p)
  PROVE  OnceInv'
<1> SUFFICES ASSUME NEW j \in Job \ Retryable PROVE OnceFor(j)'
  BY JobQueueAssumption DEF OnceInv
<1> DEFINE n == Len(pending)
<1> DEFINE old(k) == IF k = n THEN 1 ELSE k + 1
<1>1. OnceFor(j)
  BY DEF OnceInv
<1>2. pending \in Seq(Entry) /\ pending # <<>> /\ n \in Nat \ {0}
  BY DEF TypeOK, ClaimConflict
<1>3. /\ Len(pending') = n
      /\ \A k \in 1..n : old(k) \in 1..n /\ pending'[k] = pending[old(k)]
  BY <1>2 DEF ClaimConflict
<1>4. Claims(j)' = Claims(j)
  BY DEF ClaimConflict, Claims
<1>5. InPending(j)' => InPending(j)
  BY <1>3 DEF InPending
<1>6. \A k, l \in 1..n : old(k) = old(l) => k = l
  BY <1>2
<1> HIDE DEF old, n
<1>7. \A k, l \in 1..n : pending'[k].id = j /\ pending'[l].id = j => k = l
  BY <1>1, <1>3, <1>6 DEF OnceFor, n
<1> QED BY <1>1, <1>3, <1>4, <1>5, <1>7 DEF OnceFor, ClaimConflict

\* A worker's step changes no id, no list entry and no owner, and sets a timer
\* for a retryable job only.
LEMMA WorkerQuiet ==
  ASSUME TypeOK, NEW t \in Token, WorkerStep(t)
  PROVE  /\ pending' = pending /\ owner' = owner
         /\ \A u \in Token : exec'[u].id = exec[u].id
         /\ \A p \in Proc : \A r \in timers'[p] : r \in timers[p] \/ r.id \in Retryable
<1>e. exec \in [Token -> Exec] /\ exec[t] \in Claimed
  BY WorkerClaimed DEF TypeOK
<1>0. ASSUME NEW e, e.id = exec[t].id, exec' = [exec EXCEPT ![t] = e]
      PROVE  \A u \in Token : exec'[u].id = exec[u].id
  BY <1>e, <1>0
<1>st. ASSUME NEW st
       PROVE  [exec[t] EXCEPT !.st = st].id = exec[t].id
  BY <1>e DEF Claimed
<1>1. CASE ClaimReply(t)
  <2>1. /\ [exec[t] EXCEPT !.st = "finished", !.res = "nohandler"].id = exec[t].id
        /\ [exec[t] EXCEPT !.st = "running"].id = exec[t].id
    BY <1>e DEF Claimed
  <2>2. \A u \in Token : exec'[u].id = exec[u].id
    BY <1>e, <1>1, <2>1 DEF ClaimReply
  <2> QED BY <1>1, <2>2 DEF ClaimReply, redisVars
<1>2. CASE Renew(t)
  <2>1. [exec[t] EXCEPT !.renewing = TRUE].id = exec[t].id
    BY <1>e DEF Claimed
  <2>2. \A u \in Token : exec'[u].id = exec[u].id
    BY <1>e, <1>2, <2>1 DEF Renew
  <2> QED BY <1>2, <2>2 DEF Renew, procVars
<1>3. CASE RenewReply(t)
  <2>1. ASSUME NEW v PROVE [exec[t] EXCEPT !.ver = v, !.renewing = FALSE].id = exec[t].id
    BY <1>e DEF Claimed
  <2>2. \A u \in Token : exec'[u].id = exec[u].id
    BY <1>e, <1>3, <2>1 DEF RenewReply
  <2> QED BY <1>3, <2>2 DEF RenewReply, procVars, redisVars
<1>4. ASSUME NEW r \in {"ok", "err", "terminal"}, HandlerEnds(t, r)
      PROVE  /\ pending' = pending /\ owner' = owner /\ timers' = timers
             /\ \A u \in Token : exec'[u].id = exec[u].id
  <2>1. [exec[t] EXCEPT !.st = "finished", !.res = r].id = exec[t].id
    BY <1>e DEF Claimed
  <2>2. \A u \in Token : exec'[u].id = exec[u].id
    BY <1>e, <1>4, <2>1 DEF HandlerEnds
  <2> QED BY <1>4, <2>2 DEF HandlerEnds, procVars, redisVars
<1>5. CASE Release(t) \/ ReleaseFails(t)
  <2>1. \A u \in Token : exec'[u].id = exec[u].id
    <3>1. exec' = [exec EXCEPT ![t] = [exec[t] EXCEPT !.st = "released"]]
      BY <1>e, <1>5 DEF Release, ReleaseFails
    <3> QED BY <1>0, <1>st, <3>1
  <2> QED BY <1>5, <2>1 DEF Release, ReleaseFails, procVars, redisVars
<1>6. CASE AfterSuccess(t) \/ AfterFailureTerminal(t)
  <2>1. \A u \in Token : exec'[u].id = exec[u].id
    <3>1. exec' = [exec EXCEPT ![t] = [exec[t] EXCEPT !.st = "done"]]
      BY <1>e, <1>6 DEF AfterSuccess, AfterFailureTerminal, Done
    <3> QED BY <1>0, <1>st, <3>1
  <2> QED BY <1>6, <2>1 DEF AfterSuccess, AfterFailureTerminal, redisVars
<1>7. CASE AfterFailureRetry(t)
  <2>1. \A u \in Token : exec'[u].id = exec[u].id
    <3>1. exec' = [exec EXCEPT ![t] = [exec[t] EXCEPT !.st = "done"]]
      BY <1>e, <1>7 DEF AfterFailureRetry, Done
    <3> QED BY <1>0, <1>st, <3>1
  <2>2. \A p \in Proc : \A r \in timers'[p] : r \in timers[p] \/ r.id \in Retryable
    BY <1>7 DEF AfterFailureRetry, MayRetry, TypeOK
  <2> QED BY <1>7, <2>1, <2>2 DEF AfterFailureRetry, redisVars
<1>8. CASE RenewRead(t)
  <2>1. [exec[t] EXCEPT !.renewing = TRUE].id = exec[t].id
    BY <1>e DEF Claimed
  <2>2. \A u \in Token : exec'[u].id = exec[u].id
    BY <1>e, <1>8, <2>1 DEF RenewRead
  <2> QED BY <1>8, <2>2 DEF RenewRead, redisVars
<1>9. CASE RenewWrite(t) \/ ReleaseRead(t)
  BY <1>9 DEF RenewWrite, ReleaseRead, redisVars
<1> QED BY <1>1, <1>2, <1>3, <1>4, <1>5, <1>6, <1>7, <1>8, <1>9 DEF WorkerStep

\* Every step preserves OnceInv.
LEMMA NextOnce == TypeOK /\ OnceInv /\ [Next]_vars => OnceInv'
<1> SUFFICES ASSUME TypeOK, OnceInv, [Next]_vars PROVE OnceInv'
  OBVIOUS
<1>1. ASSUME NEW t \in Token, WorkerStep(t)
      PROVE  OnceInv'
  BY <1>1, WorkerQuiet, QuietOnce
<1>2. ASSUME NEW p \in Proc, ProcStep(p)
      PROVE  OnceInv'
  <2>1. ASSUME NEW j \in Job, Enqueue(p, j) \/ EnqueueReplyLost(p, j)
        PROVE  OnceInv'
    <3>1. /\ pending' = Append(pending, [id |-> j, attempts |-> 0])
          /\ exec' = exec /\ timers' = timers
          /\ owner[j] = NoProc /\ owner' = [owner EXCEPT ![j] = p]
      BY <2>1 DEF Enqueue, EnqueueReplyLost, Accepts
    <3>2. owner'[j] # NoProc /\ \A k \in Job \ {j} : owner'[k] = owner[k]
      BY <3>1, JobQueueAssumption DEF TypeOK
    <3> QED BY <3>1, <3>2, AppendOnce
  <2>2. CASE \/ DrainEnd(p) \/ ReclaimScan(p) \/ Close(p) \/ CloseEnd(p) \/ Restart(p)
             \/ \E s \in stale[p] : ReclaimRead(p, s)
    <3>1. pending' = pending /\ owner' = owner /\ exec' = exec /\ timers' = timers
      BY <2>2 DEF DrainEnd, ReclaimScan, Close, CloseEnd, Restart, ReclaimRead, redisVars
    <3> QED BY <3>1, QuietOnce
  <2>3. CASE ClaimConflict(p)
    BY <2>3, ConflictOnce
  <2>4. ASSUME NEW t \in Token, ClaimNext(p, t) \/ ClaimReplyLost(p, t)
        PROVE  OnceInv'
    <3>1. /\ ClaimLua(p, t, "claimed") \/ ClaimLua(p, t, "dead")
          /\ owner' = owner /\ timers' = timers
      BY <2>4 DEF ClaimNext, ClaimReplyLost
    <3> QED BY <3>1, ClaimOnce DEF ExecState
  <2>5. ASSUME NEW r \in timers[p],
               TimerFires(p, r) \/ \E applied \in BOOLEAN : TimerPushErrs(p, r, applied)
        PROVE  OnceInv'
    <3>1. r.id \in Job /\ r.attempts \in Nat
      BY DEF TypeOK, Timer
    <3>2. r.id \in Retryable
      BY <3>1 DEF OnceInv, OnceFor
    <3>3. /\ owner' = owner /\ exec' = exec
          /\ timers' = [timers EXCEPT ![p] = @ \ {r}]
          /\ \/ pending' = pending
             \/ pending' = Append(pending, [id |-> r.id, attempts |-> r.attempts])
      BY <2>5 DEF TimerFires, TimerPushErrs
    <3>4. \A q \in Proc : \A s \in timers'[q] : s \in timers[q]
      BY <3>3 DEF TypeOK
    <3>5. CASE pending' = pending
      BY <3>3, <3>4, <3>5, QuietOnce
    <3>6. CASE pending' = Append(pending, [id |-> r.id, attempts |-> r.attempts])
      BY <3>1, <3>2, <3>3, <3>4, <3>6, AppendOnce
    <3> QED BY <3>3, <3>5, <3>6
  <2>6. ASSUME NEW s \in stale[p],
               ReclaimSkip(p, s) \/ ReclaimTake(p, s) \/ ReclaimReplyLost(p, s)
        PROVE  OnceInv'
    <3>1. pending' = pending /\ owner' = owner /\ exec' = exec
      BY <2>6 DEF ReclaimSkip, ReclaimTake, ReclaimReplyLost, redisVars
    <3>2. \A q \in Proc : \A r \in timers'[q] : r \in timers[q] \/ r.id \in Retryable
      <4>1. \/ timers' = timers
            \/ /\ s.id \in Retryable
               /\ timers' = [timers EXCEPT ![p] = @ \cup {[id |-> s.id,
                     attempts |-> s.attempts + 1, token |-> s.token, src |-> "reclaim"]}]
        BY <2>6 DEF ReclaimSkip, ReclaimTake, ReclaimReplyLost, MayRetry
      <4> QED BY <4>1 DEF TypeOK
    <3> QED BY <3>1, <3>2, QuietOnce
  <2>7. CASE Crash(p)
    <3>1. pending' = pending /\ owner' = owner
      BY <2>7 DEF Crash, redisVars
    <3>2. \A q \in Proc : \A r \in timers'[q] : r \in timers[q]
      BY <2>7 DEF Crash, TypeOK
    <3>3. ASSUME NEW u \in Token PROVE exec'[u].id = exec[u].id
      <4>1. exec[u].st # "unused" => [exec[u] EXCEPT !.st = "dead"].id = exec[u].id
        BY ClaimedExec DEF Claimed
      <4> QED BY <2>7, <4>1 DEF Crash
    <3> QED BY <3>1, <3>2, <3>3, QuietOnce
  <2> QED BY <1>2, <2>1, <2>2, <2>3, <2>4, <2>5, <2>6, <2>7 DEF ProcStep
<1>3. ASSUME NEW j \in Job, Expire(j) \/ WaitTimeout(j)
      PROVE  OnceInv'
  <2>1. pending' = pending /\ owner' = owner /\ exec' = exec /\ timers' = timers
    BY <1>3 DEF Expire, WaitTimeout, redisVars, procVars
  <2> QED BY <2>1, QuietOnce
<1>4. CASE UNCHANGED vars
  BY <1>4, QuietOnce DEF vars
<1> QED BY <1>1, <1>2, <1>3, <1>4 DEF Next

\* OnceInv holds in every reachable state.
LEMMA OnceCorrect == Spec => []OnceInv
  BY InitTypeOK, NextTypeOK, InitOnce, NextOnce, PTL DEF Spec

\* For every number of processes, jobs, crashes, lost replies and lost leases,
\* a job enqueued with retryable: false reaches a worker at most once.
THEOREM RunExecutionOnce == Spec => []NonRetryableRunsOnce
<1>1. OnceInv => NonRetryableRunsOnce
  BY DEF OnceInv, OnceFor, NonRetryableRunsOnce
<1> QED BY <1>1, OnceCorrect, PTL

-----------------------------------------------------------------------------
(* The redis queue implements JobPromise. *)

\* A step that changes no execution's id and no outcome is a stutter of the
\* promise.
LEMMA PromiseStutter ==
  ASSUME \A t \in Token : exec'[t].id = exec[t].id, outcomes' = outcomes
  PROVE  UNCHANGED Promise!promiseVars
<1>1. [j \in Job |-> Claims(j)]' = [j \in Job |-> Claims(j)]
  BY DEF Claims
<1> QED BY <1>1 DEF Promise!promiseVars

\* Recording a terminal state is the promise's End; a completed job has been
\* delivered.
LEMMA PromiseEnd ==
  ASSUME TypeOK, NEW j \in Job, NEW m \in Promise!Terminal, Mark(j, m),
         "completed" \in m => Claims(j) # {},
         \A t \in Token : exec'[t].id = exec[t].id
  PROVE  Promise!Next
<1>1. [i \in Job |-> Claims(i)]' = [i \in Job |-> Claims(i)]
  BY DEF Claims
<1>2. Promise!End(j, m)
  BY <1>1 DEF Promise!End, Mark
<1> QED BY <1>2 DEF Promise!Next

\* The claim script is the promise's Deliver.
LEMMA PromiseDeliver ==
  ASSUME TypeOK, OnceInv, NEW p \in Proc, NEW t \in Token, NEW st \in ExecState,
         ClaimLua(p, t, st), outcomes' = outcomes
  PROVE  Promise!Next
<1>1. /\ pending # <<>> /\ Len(pending) \in Nat \ {0}
      /\ Head(pending) = pending[1] /\ Head(pending) \in Entry
  BY DEF TypeOK, ClaimLua
<1>2. PICK j \in Job : j = Head(pending).id
  BY <1>1 DEF Entry
<1>3. InPending(j)
  BY <1>1, <1>2 DEF InPending
<1>4. j \in Retryable \/ Claims(j) = {}
  BY <1>2, <1>3 DEF OnceInv, OnceFor
<1>5. exec[t].id = NoJob /\ exec'[t].id = j /\ \A u \in Token \ {t} : exec'[u].id = exec[u].id
  BY <1>2 DEF ClaimLua, Unused, TypeOK
<1>6. \A i \in Job : t \notin Claims(i)
  BY <1>5, JobQueueAssumption DEF Claims
<1>7. Claims(j)' = Claims(j) \cup {t} /\ \A i \in Job \ {j} : Claims(i)' = Claims(i)
  BY <1>5, JobQueueAssumption DEF Claims
<1>8. [i \in Job |-> Claims(i)]' = [[i \in Job |-> Claims(i)] EXCEPT ![j] = @ \cup {t}]
  BY <1>2, <1>7
<1>9. Promise!Deliver(j, t)
  BY <1>2, <1>4, <1>6, <1>8 DEF Promise!Deliver
<1> QED BY <1>2, <1>9 DEF Promise!Next

\* Every step of the queue is a step or a stutter of the promise.
LEMMA NextPromise ==
  ASSUME TypeOK, OnceInv, [Next]_vars
  PROVE  [Promise!Next]_(Promise!promiseVars)
<1>1. ASSUME NEW t \in Token, WorkerStep(t)
      PROVE  Promise!Next \/ UNCHANGED Promise!promiseVars
  <2>1. \A u \in Token : exec'[u].id = exec[u].id
    BY <1>1, WorkerQuiet
  <2>2. CASE AfterSuccess(t)
    <3>1. exec[t].id \in Job /\ t \in Claims(exec[t].id)
      BY <2>2, ClaimedExec DEF AfterSuccess, Claimed, Claims
    <3>2. Mark(exec[t].id, {"completed"}) /\ {"completed"} \in Promise!Terminal
      BY <2>2 DEF AfterSuccess, Promise!Terminal
    <3> QED BY <2>1, <3>1, <3>2, PromiseEnd
  <2>3. CASE AfterFailureTerminal(t)
    <3>1. exec[t].id \in Job
      BY <2>3, ClaimedExec DEF AfterFailureTerminal, Claimed
    <3>2. Mark(exec[t].id, {"failed"}) \/ Mark(exec[t].id, {"failed", "dead_letter"})
      <4>1. {"failed"} \cup {} = {"failed"}
            /\ {"failed"} \cup {"dead_letter"} = {"failed", "dead_letter"}
        OBVIOUS
      <4> QED BY <2>3, <4>1 DEF AfterFailureTerminal
    <3> QED BY <2>1, <3>1, <3>2, PromiseEnd DEF Promise!Terminal
  <2>4. CASE ~AfterSuccess(t) /\ ~AfterFailureTerminal(t)
    <3>1. outcomes' = outcomes
      BY <1>1, <2>4 DEF WorkerStep, ClaimReply, Renew, RenewRead, RenewWrite, RenewReply,
         HandlerEnds, ReleaseRead, Release, ReleaseFails, AfterFailureRetry
    <3> QED BY <2>1, <3>1, PromiseStutter
  <2> QED BY <2>2, <2>3, <2>4
<1>2. ASSUME NEW p \in Proc, ProcStep(p)
      PROVE  Promise!Next \/ UNCHANGED Promise!promiseVars
  <2>1. ASSUME NEW j \in Job, Enqueue(p, j) \/ EnqueueReplyLost(p, j)
        PROVE  UNCHANGED Promise!promiseVars
    BY <2>1, PromiseStutter DEF Enqueue, EnqueueReplyLost
  <2>2. CASE \/ DrainEnd(p) \/ ReclaimScan(p) \/ Close(p) \/ CloseEnd(p)
             \/ Restart(p) \/ ClaimConflict(p)
             \/ \E s \in stale[p] : ReclaimRead(p, s)
    <3>1. exec' = exec /\ outcomes' = outcomes
      BY <2>2 DEF DrainEnd, ReclaimScan, Close, CloseEnd, Restart, ClaimConflict, ReclaimRead
    <3> QED BY <3>1, PromiseStutter
  <2>3. ASSUME NEW t \in Token, ClaimNext(p, t) \/ ClaimReplyLost(p, t)
        PROVE  Promise!Next
    <3>1. /\ ClaimLua(p, t, "claimed") \/ ClaimLua(p, t, "dead")
          /\ outcomes' = outcomes
      BY <2>3 DEF ClaimNext, ClaimReplyLost
    <3> QED BY <3>1, PromiseDeliver DEF ExecState
  <2>4. ASSUME NEW r \in timers[p],
               TimerFires(p, r) \/ \E applied \in BOOLEAN : TimerPushErrs(p, r, applied)
        PROVE  Promise!Next \/ UNCHANGED Promise!promiseVars
    <3>1. r.id \in Job
      BY DEF TypeOK, Timer
    <3>2. exec' = exec /\ (Mark(r.id, {"failed"}) \/ outcomes' = outcomes)
      BY <2>4 DEF TimerFires, TimerPushErrs
    <3> QED BY <3>1, <3>2, PromiseEnd, PromiseStutter DEF Promise!Terminal
  <2>5. ASSUME NEW s \in stale[p],
               ReclaimSkip(p, s) \/ ReclaimTake(p, s) \/ ReclaimReplyLost(p, s)
        PROVE  Promise!Next \/ UNCHANGED Promise!promiseVars
    <3>1. s.id \in Job
      BY DEF TypeOK, Stale
    <3>2. /\ exec' = exec
          /\ Mark(s.id, {"failed", "dead_letter"}) \/ outcomes' = outcomes
      BY <2>5 DEF ReclaimSkip, ReclaimTake, ReclaimReplyLost
    <3> QED BY <3>1, <3>2, PromiseEnd, PromiseStutter DEF Promise!Terminal
  <2>6. CASE Crash(p)
    <3>1. ASSUME NEW u \in Token PROVE exec'[u].id = exec[u].id
      <4>1. exec[u].st # "unused" => [exec[u] EXCEPT !.st = "dead"].id = exec[u].id
        BY ClaimedExec DEF Claimed
      <4> QED BY <2>6, <4>1 DEF Crash
    <3> QED BY <2>6, <3>1, PromiseStutter DEF Crash
  <2> QED BY <1>2, <2>1, <2>2, <2>3, <2>4, <2>5, <2>6 DEF ProcStep
<1>3. ASSUME NEW j \in Job, Expire(j) \/ WaitTimeout(j)
      PROVE  UNCHANGED Promise!promiseVars
  BY <1>3, PromiseStutter DEF Expire, WaitTimeout
<1>4. CASE UNCHANGED vars
  BY <1>4, PromiseStutter DEF vars
<1> QED BY <1>1, <1>2, <1>3, <1>4 DEF Next

\* The redis queue keeps the promises of its header: deliveries are fresh, a
\* non-retryable job is delivered once, completion follows a delivery, and
\* terminal states are never withdrawn.
THEOREM PromiseKept == Spec => ImplementsPromise
<1>1. Init => Promise!Init
  BY JobQueueAssumption DEF Init, Promise!Init, Claims, Unused
<1>2. TypeOK /\ OnceInv /\ [Next]_vars => [Promise!Next]_(Promise!promiseVars)
  BY NextPromise
<1> QED BY <1>1, <1>2, TypeCorrect, OnceCorrect, PTL
        DEF Spec, ImplementsPromise, Promise!Spec

-----------------------------------------------------------------------------
(* What one step of a worker, and one claim, change. *)

\* A worker's step moves its own execution forward and nobody else's: the
\* worker holds the job until it counts a terminal state of it or sets a
\* backoff timer for it.
LEMMA WorkerMoves ==
  ASSUME TypeOK, NEW t \in Token, WorkerStep(t)
  PROVE  /\ exec[t] \in Claimed /\ exec'[t].id = exec[t].id /\ exec'[t].attempts = exec[t].attempts
         /\ exec'[t].st # "unused" /\ exec'[t].proc = exec[t].proc
         /\ \/ exec'[t].ver = exec[t].ver /\ exec'[t].renewing = exec[t].renewing
            \/ Renew(t) \/ RenewRead(t) \/ RenewReply(t)
         /\ \A u \in Token \ {t} : exec'[u] = exec[u]
         /\ stale' = stale
         /\ \/ exec'[t].st \in {"running", "finished", "released"} /\ timers' = timers
            \/ outcomes'[exec[t].id] # {} /\ timers' = timers
            \/ /\ \A p \in Proc : timers[p] \subseteq timers'[p]
               /\ \E p \in Proc : \E r \in timers'[p] : r.id = exec[t].id
            \/ RenewWrite(t)
         /\ \A j \in Job : outcomes[j] \subseteq outcomes'[j]
<1>e. exec[t] \in Claimed
  BY WorkerClaimed
<1>p. exec[t].proc \in Proc /\ exec[t].id \in Job /\ exec[t].attempts \in Nat
      /\ exec[t].ver \in Nat /\ exec[t].renewing \in BOOLEAN
  BY <1>e DEF Claimed
<1>x. exec \in [Token -> Exec] /\ outcomes \in [Job -> SUBSET Outcome]
  BY DEF TypeOK
<1>1. ASSUME NEW e \in Claimed, exec' = [exec EXCEPT ![t] = e],
             e.id = exec[t].id, e.attempts = exec[t].attempts, e.proc = exec[t].proc,
             e.st \in {"running", "finished", "released"},
             \/ e.ver = exec[t].ver /\ e.renewing = exec[t].renewing
             \/ Renew(t) \/ RenewRead(t) \/ RenewReply(t),
             stale' = stale, timers' = timers, outcomes' = outcomes
      PROVE  /\ exec'[t].id = exec[t].id /\ exec'[t].attempts = exec[t].attempts
             /\ exec'[t].st # "unused" /\ exec'[t].proc = exec[t].proc
             /\ \/ exec'[t].ver = exec[t].ver /\ exec'[t].renewing = exec[t].renewing
                \/ Renew(t) \/ RenewRead(t) \/ RenewReply(t)
             /\ \A u \in Token \ {t} : exec'[u] = exec[u]
             /\ stale' = stale
             /\ exec'[t].st \in {"running", "finished", "released"} /\ timers' = timers
             /\ \A j \in Job : outcomes[j] \subseteq outcomes'[j]
  <2>1. exec'[t] = e /\ \A u \in Token \ {t} : exec'[u] = exec[u]
    BY <1>x, <1>1
  <2> QED BY <1>1, <2>1
<1>2. CASE ClaimReply(t)
  <2>1. PICK e : /\ exec' = [exec EXCEPT ![t] = e]
                 /\ \/ e = [exec[t] EXCEPT !.st = "finished", !.res = "nohandler"]
                    \/ e = [exec[t] EXCEPT !.st = "running"]
    BY <1>x, <1>2 DEF ClaimReply
  <2>2. /\ e \in Claimed /\ e.id = exec[t].id /\ e.attempts = exec[t].attempts /\ e.proc = exec[t].proc
        /\ e.st \in {"running", "finished"}
        /\ e.ver = exec[t].ver /\ e.renewing = exec[t].renewing
    BY <1>e, <2>1 DEF Claimed, ExecState, Result
  <2>4. stale' = stale /\ timers' = timers /\ outcomes' = outcomes
    BY <1>2 DEF ClaimReply
  <2> QED BY <1>1, <1>e, <2>1, <2>2, <2>4
<1>3. CASE Renew(t) \/ RenewRead(t)
  <2>1. PICK e : e = [exec[t] EXCEPT !.renewing = TRUE] /\ exec' = [exec EXCEPT ![t] = e]
    BY <1>x, <1>3 DEF Renew, RenewRead
  <2>2. /\ e \in Claimed /\ e.id = exec[t].id /\ e.attempts = exec[t].attempts /\ e.proc = exec[t].proc
        /\ e.st = exec[t].st
    BY <1>e, <2>1 DEF Claimed
  <2>3. e.st = "running"
    BY <1>3, <2>2 DEF Renew, RenewRead
  <2>4. stale' = stale /\ timers' = timers /\ outcomes' = outcomes
    BY <1>3 DEF Renew, RenewRead, procVars
  <2> QED BY <1>1, <1>3, <1>e, <2>1, <2>2, <2>3, <2>4
<1>4. CASE RenewReply(t)
  <2> DEFINE n == exec[t].ver + 1
  <2>0. n \in Nat
    BY <1>p
  <2>1. PICK e : /\ e = [exec[t] EXCEPT !.ver = n, !.renewing = FALSE]
                 /\ exec' = [exec EXCEPT ![t] = e]
    BY <1>x, <1>4 DEF RenewReply
  <2> HIDE DEF n
  <2>2. /\ e \in Claimed /\ e.id = exec[t].id /\ e.attempts = exec[t].attempts /\ e.proc = exec[t].proc /\ e.st = exec[t].st
    BY <1>e, <2>0, <2>1 DEF Claimed
  <2>3. e.st \in {"running", "finished"}
    BY <1>4, <2>2 DEF RenewReply
  <2>4. stale' = stale /\ timers' = timers /\ outcomes' = outcomes
    BY <1>4 DEF RenewReply, procVars
  <2> QED BY <1>1, <1>4, <1>e, <2>1, <2>2, <2>3, <2>4
<1>5. ASSUME NEW r \in {"ok", "err", "terminal"}, HandlerEnds(t, r)
      PROVE  /\ exec'[t].id = exec[t].id /\ exec'[t].attempts = exec[t].attempts
             /\ exec'[t].st # "unused" /\ exec'[t].proc = exec[t].proc
             /\ \/ exec'[t].ver = exec[t].ver /\ exec'[t].renewing = exec[t].renewing
                \/ Renew(t) \/ RenewRead(t) \/ RenewReply(t)
             /\ \A u \in Token \ {t} : exec'[u] = exec[u]
             /\ stale' = stale
             /\ exec'[t].st \in {"running", "finished", "released"} /\ timers' = timers
             /\ \A j \in Job : outcomes[j] \subseteq outcomes'[j]
  <2>1. PICK e : e = [exec[t] EXCEPT !.st = "finished", !.res = r]
                 /\ exec' = [exec EXCEPT ![t] = e]
    BY <1>x, <1>5 DEF HandlerEnds
  <2>2. /\ e \in Claimed /\ e.id = exec[t].id /\ e.attempts = exec[t].attempts /\ e.proc = exec[t].proc
        /\ e.st = "finished" /\ e.ver = exec[t].ver /\ e.renewing = exec[t].renewing
    BY <1>e, <2>1 DEF Claimed, ExecState, Result
  <2>4. stale' = stale /\ timers' = timers /\ outcomes' = outcomes
    BY <1>5 DEF HandlerEnds, procVars
  <2> QED BY <1>1, <1>e, <2>1, <2>2, <2>4
<1>6. CASE Release(t) \/ ReleaseFails(t)
  <2>1. PICK e : e = [exec[t] EXCEPT !.st = "released"] /\ exec' = [exec EXCEPT ![t] = e]
    BY <1>x, <1>6 DEF Release, ReleaseFails
  <2>2. /\ e \in Claimed /\ e.id = exec[t].id /\ e.attempts = exec[t].attempts /\ e.proc = exec[t].proc
        /\ e.st = "released" /\ e.ver = exec[t].ver /\ e.renewing = exec[t].renewing
    BY <1>e, <2>1 DEF Claimed, ExecState
  <2>4. stale' = stale /\ timers' = timers /\ outcomes' = outcomes
    BY <1>6 DEF Release, ReleaseFails
  <2> QED BY <1>1, <1>e, <2>1, <2>2, <2>4
<1>7. CASE AfterSuccess(t) \/ AfterFailureRetry(t) \/ AfterFailureTerminal(t)
  <2>1. PICK e : e = [exec[t] EXCEPT !.st = "done"] /\ exec' = [exec EXCEPT ![t] = e]
    BY <1>x, <1>7 DEF AfterSuccess, AfterFailureRetry, AfterFailureTerminal, Done
  <2>2. /\ e.id = exec[t].id /\ e.attempts = exec[t].attempts /\ e.proc = exec[t].proc
        /\ e.st = "done" /\ e.ver = exec[t].ver /\ e.renewing = exec[t].renewing
    BY <1>e, <2>1 DEF Claimed
  <2>4. exec'[t] = e /\ \A u \in Token \ {t} : exec'[u] = exec[u]
    BY <1>x, <2>1
  <2>5. stale' = stale
    BY <1>7 DEF AfterSuccess, AfterFailureRetry, AfterFailureTerminal
  <2>6. CASE AfterSuccess(t) \/ AfterFailureTerminal(t)
    <3>1. \E m : m # {} /\ Mark(exec[t].id, m)
      BY <2>6, Zenon DEF AfterSuccess, AfterFailureTerminal
    <3>2. /\ outcomes'[exec[t].id] # {}
          /\ \A j \in Job : outcomes[j] \subseteq outcomes'[j]
      BY <1>p, <1>x, <3>1 DEF Mark
    <3>3. timers' = timers
      BY <2>6 DEF AfterSuccess, AfterFailureTerminal
    <3> QED BY <1>e, <2>2, <2>4, <2>5, <3>2, <3>3
  <2>7. CASE AfterFailureRetry(t)
    <3>1. PICK r : r.id = exec[t].id /\ timers' = [timers EXCEPT ![exec[t].proc] = @ \cup {r}]
      BY <2>7 DEF AfterFailureRetry
    <3>2. timers \in [Proc -> SUBSET Timer]
      BY DEF TypeOK
    <3>3. /\ \A p \in Proc : timers[p] \subseteq timers'[p]
          /\ r \in timers'[exec[t].proc]
      BY <1>p, <3>1, <3>2
    <3>4. outcomes' = outcomes
      BY <2>7 DEF AfterFailureRetry
    <3> QED BY <1>e, <1>p, <2>2, <2>4, <2>5, <3>1, <3>3, <3>4
  <2> QED BY <1>7, <2>6, <2>7
<1>8. CASE RenewWrite(t) \/ ReleaseRead(t)
  <2>1. exec' = exec /\ stale' = stale /\ timers' = timers /\ outcomes' = outcomes
    BY <1>8 DEF RenewWrite, ReleaseRead
  <2>2. CASE ReleaseRead(t)
    BY <1>e, <2>1, <2>2 DEF ReleaseRead, Claimed
  <2>3. CASE RenewWrite(t)
    <3>1. exec[t].st # "unused"
      BY <1>e DEF Claimed, ExecState
    <3> QED BY <1>e, <2>1, <2>3, <3>1
  <2> QED BY <1>8, <2>2, <2>3
<1> QED BY <1>e, <1>2, <1>3, <1>4, <1>5, <1>6, <1>7, <1>8 DEF WorkerStep

\* The claim script takes the head of the list, writes a record for the fresh
\* token and starts that token's execution.
LEMMA ClaimMoves ==
  ASSUME TypeOK, NEW p \in Proc, NEW t \in Token, NEW st \in ExecState,
         ClaimLua(p, t, st)
  PROVE  \E i \in Job :
            /\ Len(pending) \in Nat \ {0} /\ pending[1].id = i
            /\ Len(pending') = Len(pending) - 1
            /\ \A k \in 1..Len(pending') : pending'[k] = pending[k + 1]
            /\ exec[t] = Unused /\ processing[i] = NoRec
            /\ exec'[t].st = st /\ exec'[t].id = i /\ exec'[t].proc = p
            /\ exec'[t].res = "none" /\ exec'[t].ver = 0 /\ ~exec'[t].renewing
            /\ exec'[t].attempts = pending[1].attempts
            /\ \A u \in Token \ {t} : exec'[u] = exec[u]
            /\ processing'[i] # NoRec /\ processing'[i].token = t
            /\ processing'[i].ver = 0
            /\ \A j \in Job \ {i} : processing'[j] = processing[j]
<1> DEFINE e == Head(pending)
<1>1. /\ pending \in Seq(Entry) /\ pending # <<>> /\ Len(pending) \in Nat \ {0}
      /\ e = pending[1] /\ e \in Entry
  BY DEF TypeOK, ClaimLua
<1>2. e.id \in Job /\ e.attempts \in Nat
  BY <1>1 DEF Entry
<1>3. /\ Len(pending') = Len(pending) - 1
      /\ \A k \in 1..Len(pending') : pending'[k] = pending[k + 1]
  BY <1>1 DEF ClaimLua
<1>4. /\ exec[t] = Unused /\ processing[e.id] = NoRec
      /\ exec' = [exec EXCEPT ![t] = [st |-> st, res |-> "none", proc |-> p, id |-> e.id,
            attempts |-> e.attempts, ver |-> 0, renewing |-> FALSE]]
      /\ processing' = [processing EXCEPT ![e.id] =
           [token |-> t, ver |-> 0, attempts |-> e.attempts, expired |-> FALSE]]
  BY DEF ClaimLua
<1>5. /\ exec'[t].st = st /\ exec'[t].id = e.id /\ exec'[t].proc = p
      /\ exec'[t].res = "none" /\ exec'[t].ver = 0 /\ ~exec'[t].renewing
      /\ exec'[t].attempts = e.attempts
      /\ \A u \in Token \ {t} : exec'[u] = exec[u]
  BY <1>4 DEF TypeOK
<1>6. processing'[e.id] \in Record
  BY <1>2, <1>4 DEF TypeOK, Record
<1>7. /\ processing'[e.id] # NoRec /\ processing'[e.id].token = t
      /\ processing'[e.id].ver = 0
      /\ \A j \in Job \ {e.id} : processing'[j] = processing[j]
  BY <1>2, <1>4, <1>6, JobQueueAssumption DEF TypeOK
<1> QED BY <1>1, <1>2, <1>3, <1>4, <1>5, <1>7

\* A crash ends the executions of its process and changes no other.
LEMMA CrashMoves ==
  ASSUME TypeOK, NEW p \in Proc, Crash(p), NEW u \in Token
  PROVE  \/ exec'[u] = exec[u]
         \/ /\ exec[u] \in Claimed /\ exec[u].proc = p
            /\ exec[u].st \in {"claimed", "running", "finished", "released"}
            /\ exec'[u] = [exec[u] EXCEPT !.st = "dead"]
            /\ exec'[u].st = "dead" /\ exec'[u].id = exec[u].id
            /\ exec'[u].res = exec[u].res /\ exec'[u].attempts = exec[u].attempts
            /\ exec'[u].ver = exec[u].ver /\ exec'[u].renewing = exec[u].renewing
            /\ exec'[u].proc = exec[u].proc
<1>1. CASE exec[u].st \in {"claimed", "running", "finished", "released"} /\ exec[u].proc = p
  <2>1. exec[u] \in Claimed
    BY <1>1, ClaimedExec
  <2>2. exec'[u] = [exec[u] EXCEPT !.st = "dead"]
    BY <1>1 DEF Crash
  <2> QED BY <1>1, <2>1, <2>2 DEF Claimed
<1>2. CASE ~(exec[u].st \in {"claimed", "running", "finished", "released"} /\ exec[u].proc = p)
  BY <1>2 DEF Crash
<1> QED BY <1>1, <1>2

-----------------------------------------------------------------------------
(* A live lease is ended by its own worker only. *)

\* How many versions of its record the worker of t has written: those whose reply
\* it has, and the one of a renewal whose reply is to come, but for a fallback
\* that has yet to write it.
Written == [t \in Token |->
    IF exec[t].st = "unused" THEN 0
    ELSE exec[t].ver + (IF exec[t].renewing /\ OwnCheck("renew", t) \notin checks THEN 2 ELSE 1)]

\* Why a reclaim that compares is safe: records and scan results carry versions
\* their workers have written, and a scan result that still matches the hash
\* matches an expired record.
LeaseInv ==
    /\ \A j \in Job : processing[j] # NoRec => processing[j].ver < Written[processing[j].token]
    /\ \A p \in Proc : \A s \in stale[p] :
          /\ s.ver < Written[s.token]
          /\ SameRaw(s.id, s.token, s.ver) => processing[s.id].expired

\* A fallback of a renewal is of a claim, and of the present version only while
\* the worker is renewing it.
RenewChecks == {c \in checks : c.op = "renew"}
CheckInv ==
    \A c \in RenewChecks :
        LET e == exec[c.s.token] IN
        /\ e.st # "unused" /\ c.s.ver <= e.ver
        /\ c.s.ver = e.ver => e.renewing

\* Versions are numbers.
LEMMA WrittenNat ==
  ASSUME TypeOK, NEW t \in Token
  PROVE  exec[t].ver \in Nat /\ Written[t] \in Nat
<1>1. exec[t].ver \in Nat
  BY DEF TypeOK, Exec, Claimed, Unused
<1> QED BY <1>1 DEF Written

\* The same after a step.
LEMMA WrittenNext ==
  ASSUME TypeOK', NEW t \in Token
  PROVE  Written'[t] \in Nat
<1>1. exec'[t].ver \in Nat
  BY DEF TypeOK, Exec, Claimed, Unused
<1> QED BY <1>1 DEF Written

\* The parts of a record that is in the hash.
LEMMA RecordParts ==
  ASSUME TypeOK, NEW j \in Job, processing[j] # NoRec
  PROVE  /\ processing[j] \in Record /\ processing[j].token \in Token
         /\ processing[j].ver \in Nat
<1>1. processing[j] \in Record
  BY DEF TypeOK
<1> QED BY <1>1 DEF Record

\* The record a fallback renewal writes is one of its own token.
LEMMA RenewWriteRecord ==
  ASSUME TypeOK, NEW t \in Token, RenewWrite(t)
  PROVE  /\ exec[t] \in Claimed /\ exec[t].id \in Job
         /\ processing'[exec[t].id] # NoRec
         /\ processing'[exec[t].id].token = t
         /\ processing'[exec[t].id].ver = exec[t].ver + 1
         /\ \A j \in Job \ {exec[t].id} : processing'[j] = processing[j]
<1>1. exec[t] \in Claimed
  BY CheckClaimed DEF RenewWrite
<1>2. exec[t].id \in Job /\ exec[t].ver \in Nat /\ exec[t].attempts \in Nat
  BY <1>1 DEF Claimed
<1> DEFINE n == exec[t].ver + 1
           r == [token |-> t, ver |-> n, attempts |-> exec[t].attempts, expired |-> FALSE]
<1>3. r \in Record /\ r.token = t /\ r.ver = n
  BY <1>2 DEF Record
<1>4. processing' = [processing EXCEPT ![exec[t].id] = r]
  BY DEF RenewWrite
<1> HIDE DEF r, n
<1>5. processing'[exec[t].id] = r
      /\ \A j \in Job \ {exec[t].id} : processing'[j] = processing[j]
  BY <1>2, <1>4 DEF TypeOK
<1>6. processing'[exec[t].id] # NoRec
  BY <1>3, <1>5, JobQueueAssumption
<1> QED BY <1>1, <1>2, <1>3, <1>5, <1>6 DEF n

\* Who keeps the versions of its lease and its renewals, and whose fallback does
\* not come anew, has written no less.
LEMMA WrittenStays ==
  ASSUME TypeOK, NEW t \in Token, exec'[t].st # "unused",
         exec'[t].ver = exec[t].ver, exec'[t].renewing = exec[t].renewing,
         exec'[t].id = exec[t].id, exec'[t].proc = exec[t].proc,
         exec'[t].attempts = exec[t].attempts,
         RenewChecks' \subseteq RenewChecks
  PROVE  Written'[t] >= Written[t]
<1>1. OwnCheck("renew", t)' = OwnCheck("renew", t)
  BY DEF OwnCheck, Claim
<1>2. OwnCheck("renew", t).op = "renew"
  BY DEF OwnCheck
<1>3. OwnCheck("renew", t)' \in checks' => OwnCheck("renew", t) \in checks
  BY <1>1, <1>2 DEF RenewChecks
<1>4. exec[t].ver \in Nat
  BY WrittenNat
<1> QED BY <1>3, <1>4 DEF Written

\* A step that leaves a token's execution alone and adds no fallback renewal of
\* it.
LEMMA WrittenSame ==
  ASSUME TypeOK, NEW t \in Token, exec'[t] = exec[t],
         OwnCheck("renew", t) \in RenewChecks' => OwnCheck("renew", t) \in RenewChecks
  PROVE  Written'[t] >= Written[t]
<1>1. OwnCheck("renew", t)' = OwnCheck("renew", t)
  BY DEF OwnCheck, Claim
<1>2. OwnCheck("renew", t).op = "renew"
  BY DEF OwnCheck
<1>3. OwnCheck("renew", t)' \in checks' => OwnCheck("renew", t) \in checks
  BY <1>1, <1>2 DEF RenewChecks
<1>4. exec[t].ver \in Nat
  BY WrittenNat
<1> QED BY <1>3, <1>4 DEF Written

\* LeaseInv survives a step after which executions have written no less,
\* records are old ones (perhaps expired meanwhile), and scan results are old
\* ones or were read from expired records just now.
LEMMA QuietLease ==
  ASSUME TypeOK, LeaseInv, TypeOK',
         \A t \in Token : Written'[t] >= Written[t],
         \A j \in Job : \/ processing'[j] = processing[j]
                        \/ processing'[j] = NoRec
                        \/ /\ processing[j] # NoRec
                           /\ processing'[j] = [processing[j] EXCEPT !.expired = TRUE],
         \A p \in Proc : \A s \in stale'[p] :
            \/ s \in stale[p]
            \/ /\ processing' = processing
               /\ \E j \in Job : /\ processing[j] # NoRec /\ processing[j].expired
                                 /\ s = StaleOf(j)
  PROVE  LeaseInv'
<1>1. ASSUME NEW j \in Job, processing'[j] # NoRec
      PROVE  /\ processing[j] # NoRec
             /\ processing'[j].token = processing[j].token
             /\ processing'[j].ver = processing[j].ver
             /\ processing[j].expired => processing'[j].expired
  <2>1. CASE processing'[j] = processing[j]
    BY <1>1, <2>1
  <2>2. CASE /\ processing[j] # NoRec
             /\ processing'[j] = [processing[j] EXCEPT !.expired = TRUE]
    <3>1. processing[j] \in Record
      BY <2>2, RecordParts
    <3> QED BY <2>2, <3>1 DEF Record
  <2> QED BY <1>1, <2>1, <2>2
<1>2. ASSUME NEW t \in Token, NEW v \in Nat, v < Written[t]
      PROVE  v < Written'[t]
  <2>1. Written[t] \in Nat /\ Written'[t] \in Nat
    BY WrittenNat, WrittenNext
  <2> QED BY <1>2, <2>1
<1>3. ASSUME NEW j \in Job, processing[j] # NoRec
      PROVE  processing[j].ver < Written'[processing[j].token]
  <2>1. processing[j].token \in Token /\ processing[j].ver \in Nat
    BY <1>3, RecordParts
  <2>2. processing[j].ver < Written[processing[j].token]
    BY <1>3 DEF LeaseInv
  <2> QED BY <1>2, <2>1, <2>2
<1>4. ASSUME NEW j \in Job, processing'[j] # NoRec
      PROVE  processing'[j].ver < Written'[processing'[j].token]
  <2>1. processing[j] # NoRec /\ processing'[j].token = processing[j].token
        /\ processing'[j].ver = processing[j].ver
    BY <1>1, <1>4
  <2>2. processing[j].ver < Written'[processing[j].token]
    BY <1>3, <2>1
  <2> QED BY <2>1, <2>2
<1>5. ASSUME NEW p \in Proc, NEW s \in stale'[p]
      PROVE  /\ s.ver < Written'[s.token]
             /\ SameRaw(s.id, s.token, s.ver)' => processing'[s.id].expired
  <2>1. CASE s \in stale[p]
    <3>1. s.id \in Job /\ s.token \in Token /\ s.ver \in Nat
      BY <2>1 DEF TypeOK, Stale
    <3>2. s.ver < Written[s.token]
      BY <2>1 DEF LeaseInv
    <3>3. s.ver < Written'[s.token]
      BY <1>2, <3>1, <3>2
    <3>4. SameRaw(s.id, s.token, s.ver) => processing[s.id].expired
      BY <2>1 DEF LeaseInv
    <3>5. SameRaw(s.id, s.token, s.ver)' => SameRaw(s.id, s.token, s.ver)
      BY <1>1, <3>1 DEF SameRaw
    <3>6. SameRaw(s.id, s.token, s.ver)' => processing'[s.id] # NoRec
      BY DEF SameRaw
    <3> QED BY <1>1, <3>1, <3>3, <3>4, <3>5, <3>6
  <2>2. ASSUME NEW j \in Job, processing' = processing, processing[j] # NoRec,
               processing[j].expired, s = StaleOf(j)
        PROVE  /\ s.ver < Written'[s.token]
               /\ SameRaw(s.id, s.token, s.ver)' => processing'[s.id].expired
    <3>1. s.id = j /\ s.token = processing[j].token /\ s.ver = processing[j].ver
      BY <2>2 DEF StaleOf
    <3>2. processing[j].ver < Written'[processing[j].token]
      BY <1>3, <2>2
    <3> QED BY <2>2, <3>1, <3>2
  <2> QED BY <2>1, <2>2
<1>6. \A j \in Job : processing'[j] # NoRec
                     => processing'[j].ver < Written'[processing'[j].token]
  BY <1>4
<1>7. \A p \in Proc : \A s \in stale'[p] :
          /\ s.ver < Written'[s.token]
          /\ SameRaw(s.id, s.token, s.ver)' => processing'[s.id].expired
  BY <1>5
<1> QED BY <1>6, <1>7 DEF LeaseInv

\* A renewal writes a version no scan result can carry.
LEMMA RenewedLease ==
  ASSUME TypeOK, LeaseInv, TypeOK', NEW t \in Token, NEW i \in Job, NEW n \in Nat,
         Written[t] = n, Written'[t] = n + 1, \A u \in Token : Written'[u] >= Written[u],
         processing'[i].token = t, processing'[i].ver = n,
         \A j \in Job \ {i} : processing'[j] = processing[j], stale' = stale
  PROVE  LeaseInv'
<1>1. ASSUME NEW u \in Token, NEW v \in Nat, v < Written[u]
      PROVE  v < Written'[u]
  <2>1. Written[u] \in Nat /\ Written'[u] \in Nat
    BY WrittenNat, WrittenNext
  <2> QED BY <1>1, <2>1
<1>2. ASSUME NEW j \in Job, processing'[j] # NoRec
      PROVE  processing'[j].ver < Written'[processing'[j].token]
  <2>1. CASE j = i
    BY <2>1
  <2>2. CASE j # i
    <3>1. processing'[j] = processing[j]
      BY <2>2
    <3>2. processing[j].token \in Token /\ processing[j].ver \in Nat
      BY <1>2, <3>1, RecordParts
    <3>3. processing[j].ver < Written[processing[j].token]
      BY <1>2, <3>1 DEF LeaseInv
    <3> QED BY <1>1, <3>1, <3>2, <3>3
  <2> QED BY <2>1, <2>2
<1>3. ASSUME NEW p \in Proc, NEW s \in stale'[p]
      PROVE  /\ s.ver < Written'[s.token]
             /\ SameRaw(s.id, s.token, s.ver)' => processing'[s.id].expired
  <2>1. s \in stale[p] /\ s.id \in Job /\ s.token \in Token /\ s.ver \in Nat
    BY DEF TypeOK, Stale
  <2>2. s.ver < Written[s.token] /\ (SameRaw(s.id, s.token, s.ver) => processing[s.id].expired)
    BY <2>1 DEF LeaseInv
  <2>3. CASE s.id = i
    <3>1. s.token = t => s.ver # n
      BY <2>1, <2>2
    <3>2. ~SameRaw(s.id, s.token, s.ver)'
      BY <2>3, <3>1 DEF SameRaw
    <3> QED BY <1>1, <2>1, <2>2, <3>2
  <2>4. CASE s.id # i
    <3>1. processing'[s.id] = processing[s.id]
      BY <2>1, <2>4
    <3>2. SameRaw(s.id, s.token, s.ver)' => SameRaw(s.id, s.token, s.ver)
      BY <3>1 DEF SameRaw
    <3> QED BY <1>1, <2>1, <2>2, <3>1, <3>2
  <2> QED BY <2>3, <2>4
<1> QED BY <1>2, <1>3 DEF LeaseInv

\* A renewal by script counts one more version written.
LEMMA RenewLease ==
  ASSUME TypeOK, LeaseInv, CheckInv, TypeOK', NEW t \in Token, Renew(t),
         \A u \in Token : Written'[u] >= Written[u]
  PROVE  LeaseInv'
<1> DEFINE i == exec[t].id
           n == exec[t].ver + 1
<1>1. exec[t] \in Claimed
  BY ClaimedExec DEF Renew
<1>2. i \in Job /\ exec[t].ver \in Nat /\ n \in Nat /\ exec[t].st = "running"
  BY <1>1 DEF Claimed, Renew
<1>3. processing[i] \in Record /\ processing[i].token = t
  BY <1>2 DEF Renew, SameRaw, TypeOK
<1>4. /\ processing'[i].token = t /\ processing'[i].ver = n
      /\ \A j \in Job \ {i} : processing'[j] = processing[j]
  <2>1. processing' = [processing EXCEPT ![i] = [processing[i] EXCEPT !.ver = n, !.expired = FALSE]]
    BY <1>2 DEF Renew, TypeOK
  <2> HIDE DEF i, n
  <2>2. processing'[i] = [processing[i] EXCEPT !.ver = n, !.expired = FALSE]
        /\ \A j \in Job \ {i} : processing'[j] = processing[j]
    BY <1>2, <2>1 DEF TypeOK
  <2> QED BY <1>3, <2>2 DEF Record
<1>5. exec'[t] = [exec[t] EXCEPT !.renewing = TRUE] /\ checks' = checks /\ stale' = stale
  BY DEF Renew, TypeOK, procVars
<1>6. /\ exec'[t].ver = exec[t].ver /\ exec'[t].renewing /\ exec'[t].st = "running"
      /\ OwnCheck("renew", t)' = OwnCheck("renew", t)
  BY <1>1, <1>2, <1>5 DEF Claimed, OwnCheck, Claim
<1>7. ~exec[t].renewing /\ OwnCheck("renew", t) \notin checks
  <2>1. ~exec[t].renewing
    BY DEF Renew
  <2>2. OwnCheck("renew", t).op = "renew" /\ OwnCheck("renew", t).s.token = t
        /\ OwnCheck("renew", t).s.ver = exec[t].ver
    BY DEF OwnCheck, Claim
  <2> QED BY <2>1, <2>2 DEF CheckInv, RenewChecks
<1>c. OwnCheck("renew", t)' \notin checks'
  BY <1>5, <1>6, <1>7
<1>d. exec[t].st # "unused"
  BY <1>2
<1>8. Written[t] = n /\ Written'[t] = n + 1
  BY <1>2, <1>6, <1>7, <1>c, <1>d DEF Written
<1> HIDE DEF i, n
<1> QED BY <1>2, <1>4, <1>5, <1>8, RenewedLease

\* So does the write of a renewal without scripts, whatever it replaces.
LEMMA RenewWriteLease ==
  ASSUME TypeOK, LeaseInv, CheckInv, TypeOK', NEW t \in Token, RenewWrite(t),
         \A u \in Token : Written'[u] >= Written[u]
  PROVE  LeaseInv'
<1> DEFINE i == exec[t].id
           n == exec[t].ver + 1
<1>1. /\ exec[t] \in Claimed /\ i \in Job
      /\ processing'[i].token = t /\ processing'[i].ver = n
      /\ \A j \in Job \ {i} : processing'[j] = processing[j]
  BY RenewWriteRecord
<1>2. exec[t].ver \in Nat /\ n \in Nat /\ exec[t].st # "unused"
  BY <1>1 DEF Claimed, ExecState
<1>3. exec' = exec /\ stale' = stale /\ OwnCheck("renew", t) \in checks
      /\ OwnCheck("renew", t) \notin checks'
  BY DEF RenewWrite
<1>4. exec[t].renewing
  <2>1. OwnCheck("renew", t).op = "renew" /\ OwnCheck("renew", t).s.token = t
        /\ OwnCheck("renew", t).s.ver = exec[t].ver
    BY DEF OwnCheck, Claim
  <2> QED BY <1>3, <2>1 DEF CheckInv, RenewChecks
<1>5. OwnCheck("renew", t)' = OwnCheck("renew", t)
  BY <1>3 DEF OwnCheck, Claim
<1>6. Written[t] = n /\ Written'[t] = n + 1
  BY <1>2, <1>3, <1>4, <1>5 DEF Written
<1> HIDE DEF i, n
<1> QED BY <1>1, <1>2, <1>3, <1>6, RenewedLease

\* A claim writes a record for a token nobody has scanned.
LEMMA ClaimLease ==
  ASSUME TypeOK, LeaseInv, TypeOK', NEW p \in Proc, NEW t \in Token,
         NEW st \in ExecState, ClaimLua(p, t, st), stale' = stale,
         \A u \in Token : Written'[u] >= Written[u]
  PROVE  LeaseInv'
<1>1. PICK i \in Job :
            /\ exec[t] = Unused /\ processing[i] = NoRec
            /\ exec'[t].st = st /\ exec'[t].ver = 0
            /\ \A u \in Token \ {t} : exec'[u] = exec[u]
            /\ processing'[i] # NoRec /\ processing'[i].token = t
            /\ processing'[i].ver = 0
            /\ \A j \in Job \ {i} : processing'[j] = processing[j]
  BY ClaimMoves
<1>2. ASSUME NEW u \in Token, NEW v \in Nat, v < Written[u]
      PROVE  u # t /\ v < Written'[u]
  <2>1. u # t
    BY <1>1, <1>2 DEF Written, Unused
  <2>2. Written[u] \in Nat /\ Written'[u] \in Nat
    BY WrittenNat, WrittenNext
  <2> QED BY <1>2, <2>1, <2>2
<1>w. 0 < Written'[t]
  BY <1>1 DEF Written, ExecState
<1>3. ASSUME NEW j \in Job, processing'[j] # NoRec
      PROVE  processing'[j].ver < Written'[processing'[j].token]
  <2>1. CASE j = i
    BY <1>1, <1>w, <2>1
  <2>2. CASE j # i
    <3>1. processing'[j] = processing[j]
      BY <1>1, <2>2
    <3>2. processing[j].token \in Token /\ processing[j].ver \in Nat
      BY <1>3, <3>1, RecordParts
    <3>3. processing[j].ver < Written[processing[j].token]
      BY <1>3, <3>1 DEF LeaseInv
    <3> QED BY <1>2, <3>1, <3>2, <3>3
  <2> QED BY <2>1, <2>2
<1>4. ASSUME NEW q \in Proc, NEW s \in stale'[q]
      PROVE  /\ s.ver < Written'[s.token]
             /\ SameRaw(s.id, s.token, s.ver)' => processing'[s.id].expired
  <2>1. s \in stale[q] /\ s.id \in Job /\ s.token \in Token /\ s.ver \in Nat
    BY DEF TypeOK, Stale
  <2>2. s.ver < Written[s.token]
        /\ (SameRaw(s.id, s.token, s.ver) => processing[s.id].expired)
    BY <2>1 DEF LeaseInv
  <2>3. s.token # t /\ s.ver < Written'[s.token]
    BY <1>2, <2>1, <2>2
  <2>4. CASE s.id = i
    BY <1>1, <2>3, <2>4 DEF SameRaw
  <2>5. CASE s.id # i
    <3>1. processing'[s.id] = processing[s.id]
      BY <1>1, <2>1, <2>5
    <3>2. SameRaw(s.id, s.token, s.ver)' => SameRaw(s.id, s.token, s.ver)
      BY <3>1 DEF SameRaw
    <3> QED BY <2>2, <2>3, <3>1, <3>2
  <2> QED BY <2>4, <2>5
<1>5. \A j \in Job : processing'[j] # NoRec
                     => processing'[j].ver < Written'[processing'[j].token]
  BY <1>3
<1>6. \A q \in Proc : \A s \in stale'[q] :
          /\ s.ver < Written'[s.token]
          /\ SameRaw(s.id, s.token, s.ver)' => processing'[s.id].expired
  BY <1>4
<1> QED BY <1>5, <1>6 DEF LeaseInv

\* What one step does to the lease of an execution.
SameLease(t) ==
    /\ exec'[t].ver = exec[t].ver /\ exec'[t].renewing = exec[t].renewing
    /\ exec'[t].id = exec[t].id /\ exec'[t].proc = exec[t].proc
    /\ exec'[t].attempts = exec[t].attempts
    /\ exec[t].st # "unused" => exec'[t].st # "unused"

LEMMA LeaseMoves ==
  ASSUME TypeOK, [Next]_vars, NEW t \in Token
  PROVE  SameLease(t) \/ Renew(t) \/ RenewRead(t) \/ RenewReply(t) \/ exec[t] = Unused
<1>0. CASE exec'[t] = exec[t]
  BY <1>0 DEF SameLease
<1>1. ASSUME NEW u \in Token, WorkerStep(u)
      PROVE  exec'[t] = exec[t] \/ SameLease(t) \/ Renew(t) \/ RenewRead(t) \/ RenewReply(t)
  <2>1. CASE u = t
    BY <1>1, <2>1, WorkerMoves DEF SameLease
  <2>2. CASE u # t
    BY <1>1, <2>2, WorkerMoves
  <2> QED BY <2>1, <2>2
<1>2. ASSUME NEW p \in Proc, ProcStep(p)
      PROVE  exec'[t] = exec[t] \/ SameLease(t) \/ exec[t] = Unused
  <2>1. ASSUME NEW u \in Token, ClaimNext(p, u) \/ ClaimReplyLost(p, u)
        PROVE  exec'[t] = exec[t] \/ exec[t] = Unused
    BY <2>1 DEF ClaimNext, ClaimReplyLost, ClaimLua, TypeOK
  <2>2. CASE Crash(p)
    <3>1. CASE exec[t].st \in {"claimed", "running", "finished", "released"}
      <4>1. exec[t] \in Claimed
        BY <3>1, ClaimedExec
      <4> QED BY <2>2, <4>1, CrashMoves DEF SameLease, Claimed
    <3>2. CASE exec[t].st \notin {"claimed", "running", "finished", "released"}
      BY <2>2, <3>2 DEF Crash
    <3> QED BY <3>1, <3>2
  <2>3. \/ exec' = exec \/ \E u \in Token : ClaimNext(p, u) \/ ClaimReplyLost(p, u)
        \/ Crash(p)
    BY <1>2 DEF ProcStep, Enqueue, EnqueueReplyLost, DrainEnd, ClaimConflict,
       TimerFires, TimerPushErrs, ReclaimScan, ReclaimSkip, ReclaimRead, ReclaimTake,
       ReclaimReplyLost, Close, CloseEnd, Restart
  <2> QED BY <2>1, <2>2, <2>3
<1>3. ASSUME NEW j \in Job, Expire(j) \/ WaitTimeout(j)
      PROVE  exec'[t] = exec[t]
  BY <1>3 DEF Expire, WaitTimeout
<1>4. CASE UNCHANGED vars
  BY <1>0, <1>4 DEF vars
<1> QED BY <1>0, <1>1, <1>2, <1>3, <1>4 DEF Next

\* Only a renewal without scripts adds a fallback of a renewal, its own.
LEMMA ChecksMove ==
  ASSUME [Next]_vars
  PROVE  \/ RenewChecks' \subseteq RenewChecks
         \/ \E t \in Token : /\ RenewRead(t)
                             /\ RenewChecks' \subseteq RenewChecks \cup {OwnCheck("renew", t)}
<1>0. CASE checks' \subseteq checks
  BY <1>0 DEF RenewChecks
<1>1. ASSUME NEW t \in Token, WorkerStep(t)
      PROVE  \/ RenewChecks' \subseteq RenewChecks
             \/ RenewRead(t) /\ RenewChecks' \subseteq RenewChecks \cup {OwnCheck("renew", t)}
  <2>1. CASE RenewRead(t)
    BY <2>1 DEF RenewRead, RenewChecks
  <2>2. CASE ReleaseRead(t)
    BY <2>2 DEF ReleaseRead, RenewChecks, OwnCheck
  <2>3. CASE ~RenewRead(t) /\ ~ReleaseRead(t)
    <3>1. checks' \subseteq checks
      BY <1>1, <2>3 DEF WorkerStep, ClaimReply, Renew, RenewWrite, RenewReply, HandlerEnds,
         Release, ReleaseFails, AfterSuccess, AfterFailureRetry, AfterFailureTerminal, procVars
    <3> QED BY <3>1 DEF RenewChecks
  <2> QED BY <2>1, <2>2, <2>3
<1>2. ASSUME NEW p \in Proc, ProcStep(p)
      PROVE  RenewChecks' \subseteq RenewChecks
  <2>1. ASSUME NEW s \in stale[p], ReclaimRead(p, s)
        PROVE  RenewChecks' \subseteq RenewChecks
    BY <2>1 DEF ReclaimRead, RenewChecks, ReclaimCheck
  <2>2. CASE \A s \in stale[p] : ~ReclaimRead(p, s)
    <3>1. checks' \subseteq checks
      BY <1>2, <2>2 DEF ProcStep, Enqueue, EnqueueReplyLost, DrainEnd, ClaimConflict,
         ClaimNext, ClaimReplyLost, TimerFires, TimerPushErrs, ReclaimScan, ReclaimSkip,
         ReclaimTake, ReclaimReplyLost, Close, CloseEnd, Crash, Restart
    <3> QED BY <3>1 DEF RenewChecks
  <2> QED BY <2>1, <2>2
<1>3. ASSUME NEW j \in Job, Expire(j) \/ WaitTimeout(j)
      PROVE  checks' \subseteq checks
  BY <1>3 DEF Expire, WaitTimeout, procVars
<1>4. CASE UNCHANGED vars
  BY <1>0, <1>4 DEF vars
<1> QED BY <1>0, <1>1, <1>2, <1>3, <1>4 DEF Next

\* What a renewal without scripts starts from and leaves.
LEMMA RenewReadMoves ==
  ASSUME TypeOK, NEW t \in Token, RenewRead(t)
  PROVE  /\ exec'[t].ver = exec[t].ver /\ exec'[t].renewing /\ ~exec[t].renewing
         /\ exec[t].st = "running" /\ exec'[t].st = "running"
         /\ OwnCheck("renew", t)' = OwnCheck("renew", t) /\ OwnCheck("renew", t) \in checks'
         /\ \A u \in Token \ {t} : exec'[u] = exec[u]
<1>1. exec[t] \in Claimed
  BY ClaimedExec DEF RenewRead
<1>2. exec'[t] = [exec[t] EXCEPT !.renewing = TRUE]
      /\ \A u \in Token \ {t} : exec'[u] = exec[u]
  BY DEF RenewRead, TypeOK
<1>3. /\ exec'[t].ver = exec[t].ver /\ exec'[t].renewing /\ exec'[t].st = exec[t].st
      /\ exec'[t].id = exec[t].id /\ exec'[t].proc = exec[t].proc
      /\ exec'[t].attempts = exec[t].attempts
  BY <1>1, <1>2 DEF Claimed
<1>4. OwnCheck("renew", t)' = OwnCheck("renew", t)
  BY <1>3 DEF OwnCheck, Claim
<1> QED BY <1>2, <1>3, <1>4 DEF RenewRead

\* The reply of a renewal counts the version up.
LEMMA RenewReplyMoves ==
  ASSUME TypeOK, NEW t \in Token, RenewReply(t)
  PROVE  /\ exec[t].ver \in Nat /\ exec'[t].ver = exec[t].ver + 1 /\ exec'[t].renewing = FALSE
         /\ exec[t].st # "unused" /\ exec'[t].st # "unused"
<1>1. exec[t] \in Claimed
  BY ClaimedExec DEF RenewReply
<1> DEFINE n == exec[t].ver + 1
<1>2. exec[t].ver \in Nat /\ n \in Nat /\ exec[t].st # "unused"
  BY <1>1 DEF Claimed, ExecState
<1>3. exec'[t] = [exec[t] EXCEPT !.ver = n, !.renewing = FALSE]
  BY DEF RenewReply, TypeOK
<1> HIDE DEF n
<1>4. exec'[t].ver = n /\ exec'[t].renewing = FALSE /\ exec'[t].st = exec[t].st
  BY <1>1, <1>3 DEF Claimed
<1> QED BY <1>2, <1>4 DEF n

\* Fallbacks of renewals stay what CheckInv says.
LEMMA NextCheck == TypeOK /\ CheckInv /\ [Next]_vars => CheckInv'
<1> SUFFICES ASSUME TypeOK, CheckInv, [Next]_vars, NEW c \in RenewChecks'
             PROVE  /\ exec'[c.s.token].st # "unused" /\ c.s.ver <= exec'[c.s.token].ver
                    /\ c.s.ver = exec'[c.s.token].ver => exec'[c.s.token].renewing
  BY DEF CheckInv
<1>1. CASE c \in RenewChecks
  <2> DEFINE t == c.s.token
  <2>1. t \in Token /\ c.s.ver \in Nat
    BY <1>1 DEF RenewChecks, TypeOK, Check, Stale
  <2>2. /\ exec[t].st # "unused" /\ c.s.ver <= exec[t].ver
        /\ c.s.ver = exec[t].ver => exec[t].renewing
    BY <1>1 DEF CheckInv
  <2> HIDE DEF t
  <2>3. CASE SameLease(t)
    BY <2>2, <2>3 DEF SameLease, t
  <2>4. CASE Renew(t)
    <3>1. exec[t] \in Claimed /\ exec'[t] = [exec[t] EXCEPT !.renewing = TRUE]
      BY <2>1, <2>4, ClaimedExec DEF Renew, TypeOK
    <3> QED BY <2>2, <3>1 DEF Claimed, t
  <2>5. CASE RenewRead(t)
    BY <2>1, <2>2, <2>5, RenewReadMoves DEF t
  <2>6. CASE RenewReply(t)
    <3>1. exec[t].ver \in Nat /\ exec'[t].ver = exec[t].ver + 1 /\ exec'[t].st # "unused"
      BY <2>1, <2>6, RenewReplyMoves
    <3>2. c.s.ver <= exec'[t].ver /\ c.s.ver # exec'[t].ver
      BY <2>1, <2>2, <3>1
    <3> QED BY <3>1, <3>2 DEF t
  <2>7. exec[t] # Unused
    BY <2>2 DEF Unused
  <2> QED BY <2>1, <2>3, <2>4, <2>5, <2>6, <2>7, LeaseMoves
<1>2. ASSUME NEW t \in Token, RenewRead(t), c = OwnCheck("renew", t)
      PROVE  /\ exec'[c.s.token].st # "unused" /\ c.s.ver <= exec'[c.s.token].ver
             /\ c.s.ver = exec'[c.s.token].ver => exec'[c.s.token].renewing
  <2>1. c.s.token = t /\ c.s.ver = exec[t].ver
    BY <1>2 DEF OwnCheck, Claim
  <2>2. exec[t].ver \in Nat
    BY WrittenNat
  <2> QED BY <1>2, <2>1, <2>2, RenewReadMoves
<1> QED BY <1>1, <1>2, ChecksMove

\* Nobody has written less after a step.
LEMMA WrittenGrows ==
  ASSUME TypeOK, TypeOK', CheckInv, [Next]_vars, NEW t \in Token
  PROVE  Written'[t] >= Written[t]
<1>n. Written[t] \in Nat /\ Written'[t] \in Nat /\ exec[t].ver \in Nat
  BY WrittenNat, WrittenNext
<1>1. CASE exec[t] = Unused
  BY <1>1, <1>n DEF Written, Unused
<1>2. CASE RenewRead(t)
  BY <1>2, <1>n, RenewReadMoves DEF Written
<1>3. CASE RenewReply(t)
  <2>1. exec'[t].ver = exec[t].ver + 1 /\ exec'[t].renewing = FALSE
        /\ exec[t].st # "unused" /\ exec'[t].st # "unused"
    BY <1>3, RenewReplyMoves
  <2> QED BY <1>n, <2>1 DEF Written
<1>4. CASE Renew(t)
  <2>1. exec[t] \in Claimed /\ exec'[t] = [exec[t] EXCEPT !.renewing = TRUE]
    BY <1>4, ClaimedExec DEF Renew, TypeOK
  <2>2. exec'[t].ver = exec[t].ver /\ exec'[t].st = exec[t].st /\ ~exec[t].renewing
    BY <1>4, <2>1 DEF Renew, Claimed
  <2> QED BY <1>n, <2>2 DEF Written
<1>5. CASE SameLease(t) /\ ~RenewRead(t)
  <2>1. CASE exec[t].st = "unused"
    BY <1>n, <2>1 DEF Written
  <2>2. CASE exec[t].st # "unused"
    <3>1. ASSUME NEW u \in Token, RenewRead(u),
                 RenewChecks' \subseteq RenewChecks \cup {OwnCheck("renew", u)}
          PROVE  Written'[t] >= Written[t]
      <4>1. u # t
        BY <1>5, <3>1
      <4>2. OwnCheck("renew", u).s.token = u /\ OwnCheck("renew", t).s.token = t
        BY DEF OwnCheck, Claim
      <4>3. exec'[t] = exec[t]
        BY <3>1, <4>1, RenewReadMoves
      <4> QED BY <3>1, <4>1, <4>2, <4>3, WrittenSame
    <3>2. CASE RenewChecks' \subseteq RenewChecks
      BY <1>5, <2>2, <3>2, WrittenStays DEF SameLease
    <3> QED BY <3>1, <3>2, ChecksMove
  <2> QED BY <2>1, <2>2
<1> QED BY <1>1, <1>2, <1>3, <1>4, <1>5, LeaseMoves

\* Every step preserves LeaseInv.
LEMMA NextLease == TypeOK /\ LeaseInv /\ CheckInv /\ [Next]_vars => LeaseInv'
<1> SUFFICES ASSUME TypeOK, LeaseInv, CheckInv, [Next]_vars PROVE LeaseInv'
  OBVIOUS
<1>t. TypeOK'
  BY NextTypeOK
<1>0. \A t \in Token : Written'[t] >= Written[t]
  BY <1>t, WrittenGrows
<1>1. ASSUME NEW t \in Token, WorkerStep(t)
      PROVE  LeaseInv'
  <2>1. CASE Renew(t)
    BY <1>0, <1>t, <2>1, RenewLease
  <2>3. CASE RenewWrite(t)
    BY <1>0, <1>t, <2>3, RenewWriteLease
  <2>2. CASE ~Renew(t) /\ ~RenewWrite(t)
    <3>2. stale' = stale
      BY <1>1, WorkerMoves
    <3>3. \A j \in Job : processing'[j] = processing[j] \/ processing'[j] = NoRec
      BY <1>1, <2>2 DEF WorkerStep, ClaimReply, RenewRead, RenewReply, HandlerEnds,
         ReleaseRead, Release, ReleaseFails, AfterSuccess, AfterFailureRetry, AfterFailureTerminal,
         redisVars, TypeOK
    <3> QED BY <1>0, <1>t, <3>2, <3>3, QuietLease
  <2> QED BY <2>1, <2>2, <2>3
<1>2. ASSUME NEW p \in Proc, ProcStep(p)
      PROVE  LeaseInv'
  <2>1. ASSUME NEW t \in Token, ClaimNext(p, t) \/ ClaimReplyLost(p, t)
        PROVE  LeaseInv'
    <3>1. /\ ClaimLua(p, t, "claimed") \/ ClaimLua(p, t, "dead")
          /\ stale' = stale
      BY <2>1 DEF ClaimNext, ClaimReplyLost
    <3> QED BY <1>0, <1>t, <3>1, ClaimLease DEF ExecState
  <2>2. CASE ReclaimScan(p)
    <3>1. exec' = exec /\ processing' = processing
      BY <2>2 DEF ReclaimScan, redisVars
    <3>2. \A q \in Proc : \A s \in stale'[q] :
            \/ s \in stale[q]
            \/ \E j \in Job : /\ processing[j] # NoRec /\ processing[j].expired
                              /\ s = StaleOf(j)
      BY <2>2 DEF ReclaimScan, TypeOK
    <3> QED BY <1>t, <1>0, <3>1, <3>2, QuietLease
  <2>3. CASE Crash(p)
    <3>2. processing' = processing /\ \A q \in Proc : \A s \in stale'[q] : s \in stale[q]
      BY <2>3 DEF Crash, redisVars, TypeOK
    <3> QED BY <1>0, <1>t, <3>2, QuietLease
  <2>4. ASSUME NEW s \in stale[p],
               ReclaimSkip(p, s) \/ ReclaimTake(p, s) \/ ReclaimReplyLost(p, s)
        PROVE  LeaseInv'
    <3>1. exec' = exec
      BY <2>4 DEF ReclaimSkip, ReclaimTake, ReclaimReplyLost
    <3>2. \A q \in Proc : \A r \in stale'[q] : r \in stale[q]
      <4>1. stale' = [stale EXCEPT ![p] = stale[p] \ {s}]
        BY <2>4 DEF ReclaimSkip, ReclaimTake, ReclaimReplyLost
      <4>2. DOMAIN stale = Proc
        BY DEF TypeOK
      <4> QED BY <4>1, <4>2
    <3>3. \A j \in Job : processing'[j] = processing[j] \/ processing'[j] = NoRec
      BY <2>4 DEF ReclaimSkip, ReclaimTake, ReclaimReplyLost, redisVars, TypeOK
    <3> QED BY <1>t, <1>0, <3>1, <3>2, <3>3, QuietLease
  <2>5. ASSUME NEW j \in Job, Enqueue(p, j) \/ EnqueueReplyLost(p, j)
        PROVE  exec' = exec /\ processing' = processing /\ stale' = stale
    BY <2>5 DEF Enqueue, EnqueueReplyLost
  <2>6. ASSUME NEW r \in timers[p],
               TimerFires(p, r) \/ \E applied \in BOOLEAN : TimerPushErrs(p, r, applied)
        PROVE  exec' = exec /\ processing' = processing /\ stale' = stale
    BY <2>6 DEF TimerFires, TimerPushErrs
  <2>7. CASE \/ DrainEnd(p) \/ ClaimConflict(p) \/ Close(p) \/ CloseEnd(p) \/ Restart(p)
             \/ \E s \in stale[p] : ReclaimRead(p, s)
    <3>1. exec' = exec /\ processing' = processing /\ stale' = stale
      BY <2>7 DEF DrainEnd, ClaimConflict, Close, CloseEnd, Restart, ReclaimRead, redisVars
    <3> QED BY <1>t, <1>0, <3>1, QuietLease
  <2>8. ASSUME exec' = exec, processing' = processing, stale' = stale
        PROVE  LeaseInv'
    BY <1>t, <1>0, <2>8, QuietLease
  <2> QED BY <1>2, <2>1, <2>2, <2>3, <2>4, <2>5, <2>6, <2>7, <2>8 DEF ProcStep
<1>3. ASSUME NEW j \in Job, Expire(j)
      PROVE  LeaseInv'
  <2>1. exec' = exec /\ stale' = stale
    BY <1>3 DEF Expire, procVars
  <2>2. \A i \in Job : \/ processing'[i] = processing[i]
                       \/ /\ processing[i] # NoRec
                          /\ processing'[i] = [processing[i] EXCEPT !.expired = TRUE]
    BY <1>3 DEF Expire, TypeOK
  <2> QED BY <1>t, <1>0, <2>1, <2>2, QuietLease
<1>4. ASSUME NEW j \in Job, WaitTimeout(j)
      PROVE  LeaseInv'
  <2>1. exec' = exec /\ stale' = stale /\ processing' = processing
    BY <1>4 DEF WaitTimeout, procVars, redisVars
  <2> QED BY <1>t, <1>0, <2>1, QuietLease
<1>5. CASE UNCHANGED vars
  BY <1>t, <1>0, <1>5, QuietLease DEF vars
<1> QED BY <1>1, <1>2, <1>3, <1>4, <1>5 DEF Next

\* Only its own worker's release removes an unexpired record, or the write of a
\* fallback whose read is out of date.
Fallback(j) == \E c \in checks \ checks' :
                  c.s.id = j /\ c.op \in {"release", "reclaim"} /\ Outdated(c)

LEMMA StepLive ==
  ASSUME TypeOK, LeaseInv, Next, NEW j \in Job,
         processing[j] # NoRec, ~processing[j].expired, processing'[j] = NoRec
  PROVE  \/ /\ exec[processing[j].token].st = "finished"
            /\ exec'[processing[j].token].st = "released"
         \/ Fallback(j)
<1>1. ASSUME NEW t \in Token, WorkerStep(t)
      PROVE  (processing[j].token = t /\ Release(t)) \/ Fallback(j)
  <2>1. CASE Release(t)
    <3> DEFINE c == OwnCheck("release", t)
    <3>1. /\ j = exec[t].id
          /\ c \in checks \/ SameRaw(exec[t].id, t, exec[t].ver)
      BY <2>1 DEF Release, TypeOK
    <3>2. c.s.id = exec[t].id /\ c.s.token = t /\ c.s.ver = exec[t].ver /\ c.op = "release"
      BY DEF OwnCheck, Claim
    <3>3. c \notin checks'
      BY <2>1 DEF Release
    <3> HIDE DEF c
    <3>4. SameRaw(exec[t].id, t, exec[t].ver) \/ Outdated(c)
      BY <3>2 DEF Outdated
    <3> QED BY <2>1, <3>1, <3>2, <3>3, <3>4 DEF SameRaw, Fallback
  <2>2. CASE Renew(t)
    <3>1. exec[t] \in Claimed
      BY <2>2, ClaimedExec DEF Renew
    <3>2. exec[t].id \in Job /\ exec[t].ver + 1 \in Nat
      BY <3>1 DEF Claimed
    <3>3. processing[exec[t].id] \in Record
      BY <2>2, <3>2, RecordParts DEF Renew, SameRaw
    <3> DEFINE n == exec[t].ver + 1
               r == [processing[exec[t].id] EXCEPT !.ver = n, !.expired = FALSE]
    <3>4. processing' = [processing EXCEPT ![exec[t].id] = r]
      BY <2>2, <3>2 DEF Renew, TypeOK
    <3>5. r \in Record
      <4>1. n \in Nat
        BY <3>2
      <4> HIDE DEF n
      <4> QED BY <3>3, <4>1 DEF Record
    <3> HIDE DEF n, r
    <3>6. processing'[j] # NoRec
      BY <3>2, <3>4, <3>5, JobQueueAssumption DEF TypeOK
    <3> QED BY <3>6
  <2>4. CASE RenewWrite(t)
    BY <2>4, RenewWriteRecord
  <2>3. CASE ~Release(t) /\ ~Renew(t) /\ ~RenewWrite(t)
    <3>1. processing' = processing
      BY <1>1, <2>3 DEF WorkerStep, ClaimReply, RenewRead, RenewReply, HandlerEnds,
         ReleaseRead, ReleaseFails, AfterSuccess, AfterFailureRetry, AfterFailureTerminal, redisVars
    <3> QED BY <3>1
  <2> QED BY <2>1, <2>2, <2>3, <2>4
<1>2. ASSUME NEW p \in Proc, ProcStep(p)
      PROVE  Fallback(j)
  <2>1. ASSUME NEW t \in Token, ClaimNext(p, t) \/ ClaimReplyLost(p, t)
        PROVE  FALSE
    <3>1. ClaimLua(p, t, "claimed") \/ ClaimLua(p, t, "dead")
      BY <2>1 DEF ClaimNext, ClaimReplyLost
    <3>2. \E i \in Job : /\ processing[i] = NoRec /\ processing'[i] # NoRec
                         /\ \A k \in Job \ {i} : processing'[k] = processing[k]
      BY <3>1, ClaimMoves DEF ExecState
    <3> QED BY <3>2
  <2>2. ASSUME NEW s \in stale[p], ReclaimTake(p, s) \/ ReclaimReplyLost(p, s)
        PROVE  Fallback(j)
    <3> DEFINE c == ReclaimCheck(p, s)
    <3>1. /\ c \in checks \/ SameRaw(s.id, s.token, s.ver)
          /\ processing' = [processing EXCEPT ![s.id] = NoRec]
          /\ c \notin checks'
      BY <2>2 DEF ReclaimTake, ReclaimReplyLost, MayTake
    <3>2. SameRaw(s.id, s.token, s.ver) => processing[s.id].expired
      BY DEF LeaseInv
    <3>3. j = s.id
      BY <3>1 DEF TypeOK
    <3>4. c.s = s /\ c.op = "reclaim"
      BY DEF ReclaimCheck
    <3> HIDE DEF c
    <3> QED BY <3>1, <3>2, <3>3, <3>4 DEF Fallback, Outdated
  <2>3. CASE \A s \in stale[p] : ~ReclaimTake(p, s) /\ ~ReclaimReplyLost(p, s)
    BY <1>2, <2>1, <2>3 DEF ProcStep, Enqueue, EnqueueReplyLost, DrainEnd, ClaimConflict,
       TimerFires, TimerPushErrs, ReclaimScan, ReclaimSkip, ReclaimRead, Close, CloseEnd,
       Crash, Restart, redisVars
  <2> QED BY <2>1, <2>2, <2>3
<1>3. ASSUME NEW i \in Job, Expire(i) \/ WaitTimeout(i)
      PROVE  FALSE
  <2>1. CASE WaitTimeout(i)
    BY <2>1 DEF WaitTimeout, redisVars
  <2>2. CASE Expire(i)
    <3>1. processing[i] \in Record
      BY <2>2, RecordParts DEF Expire
    <3> DEFINE r == [processing[i] EXCEPT !.expired = TRUE]
    <3>2. processing' = [processing EXCEPT ![i] = r]
      BY <2>2 DEF Expire, TypeOK
    <3>3. r \in Record
      BY <3>1 DEF Record
    <3> HIDE DEF r
    <3>4. processing'[j] # NoRec
      BY <3>2, <3>3, JobQueueAssumption DEF TypeOK
    <3> QED BY <3>4
  <2> QED BY <1>3, <2>1, <2>2
<1>4. ASSUME NEW t \in Token, processing[j].token = t, Release(t)
      PROVE  /\ exec[processing[j].token].st = "finished"
             /\ exec'[processing[j].token].st = "released"
  BY <1>4 DEF Release, TypeOK
<1> QED BY <1>1, <1>2, <1>3, <1>4 DEF Next

\* For every number of processes, tokens and renewals: a lease that has not
\* expired is ended by its own worker's release and by nothing else but a delete
\* without scripts whose read the lease is newer than.
THEOREM LeaseRespected == Spec => LiveLeaseIsRespected
<1>1. Init => LeaseInv /\ CheckInv
  BY JobQueueAssumption DEF Init, LeaseInv, CheckInv, RenewChecks
<1>2. TypeOK /\ LeaseInv /\ [Next]_vars =>
        [\A j \in Job :
          /\ processing[j] # NoRec /\ ~processing[j].expired
          /\ processing'[j] = NoRec
          => \/ /\ exec[processing[j].token].st = "finished"
                /\ exec'[processing[j].token].st = "released"
             \/ \E c \in checks \ checks' :
                   c.s.id = j /\ c.op \in {"release", "reclaim"} /\ Outdated(c)]_vars
  BY StepLive DEF Fallback
<1> QED BY <1>1, <1>2, NextCheck, NextLease, TypeCorrect, PTL DEF Spec, LiveLeaseIsRespected

-----------------------------------------------------------------------------
(* No handler path drops a job. *)

\* A job stays held when its list entries, timers, record and executions stay.
LEMMA QuietHeld ==
  ASSUME NEW j \in Job, Held(j),
         InPending(j) => InPending(j)',
         \A p \in Proc : \A r \in timers[p] : r.id = j => r \in timers'[p],
         processing[j] # NoRec => processing'[j] # NoRec,
         \A t \in Claims(j) : exec'[t] = exec[t]
  PROVE  Held(j)'
<1>1. InTimer(j) => InTimer(j)'
  BY DEF InTimer
<1>2. ASSUME NEW t \in Claims(j), Busy(t)
      PROVE  t \in Claims(j)' /\ Busy(t)'
  BY <1>2 DEF Claims, Busy
<1> QED BY <1>1, <1>2 DEF Held

\* Appending keeps every job in the list and adds the new one.
LEMMA AppendPending ==
  ASSUME TypeOK, NEW e, pending' = Append(pending, e), NEW j \in Job
  PROVE  (InPending(j) \/ e.id = j) => InPending(j)'
<1>1. /\ Len(pending') = Len(pending) + 1 /\ Len(pending) \in Nat
      /\ \A k \in 1..Len(pending) : pending'[k] = pending[k]
      /\ pending'[Len(pending) + 1] = e
  BY DEF TypeOK
<1> QED BY <1>1 DEF InPending

\* A worker's step drops no job.
LEMMA WorkerHeld ==
  ASSUME TypeOK, NEW t \in Token, WorkerStep(t), NEW j \in Job, Held(j)
  PROVE  Held(j)' \/ outcomes'[j] # {}
<1>1. /\ exec[t] \in Claimed /\ exec'[t].id = exec[t].id
      /\ \A u \in Token \ {t} : exec'[u] = exec[u]
      /\ \/ exec'[t].st \in {"running", "finished", "released"} /\ timers' = timers
         \/ outcomes'[exec[t].id] # {} /\ timers' = timers
         \/ /\ \A p \in Proc : timers[p] \subseteq timers'[p]
            /\ \E p \in Proc : \E r \in timers'[p] : r.id = exec[t].id
         \/ RenewWrite(t)
  BY WorkerMoves
<1>2. pending' = pending
  BY WorkerQuiet
<1>0. exec[t].id \in Job
  BY <1>1 DEF Claimed
<1>3. CASE j = exec[t].id
  <2>1. CASE exec'[t].st \in {"running", "finished", "released"}
    <3>1. t \in Claims(j)' /\ Busy(t)'
      BY <1>1, <1>3, <2>1 DEF Claims, Busy
    <3> QED BY <3>1 DEF Held
  <2>2. CASE outcomes'[exec[t].id] # {}
    BY <1>3, <2>2
  <2>3. CASE \E p \in Proc : \E r \in timers'[p] : r.id = exec[t].id
    <3>1. InTimer(j)'
      BY <1>3, <2>3 DEF InTimer
    <3> QED BY <3>1 DEF Held
  <2>4. CASE RenewWrite(t)
    <3>1. processing'[j] # NoRec
      BY <1>3, <2>4, RenewWriteRecord
    <3> QED BY <3>1 DEF Held
  <2> QED BY <1>1, <2>1, <2>2, <2>3, <2>4
<1>4. CASE j # exec[t].id
  <2>1. processing'[j] = processing[j]
    BY <1>1, <1>4 DEF WorkerStep, ClaimReply, Renew, RenewRead, RenewWrite, RenewReply,
       HandlerEnds, ReleaseRead, Release, ReleaseFails, AfterSuccess, AfterFailureRetry,
       AfterFailureTerminal, redisVars, TypeOK
  <2>2. \A u \in Claims(j) : exec'[u] = exec[u]
    BY <1>1, <1>4 DEF Claims
  <2>3. \A p \in Proc : \A r \in timers[p] : r \in timers'[p]
    BY <1>1 DEF RenewWrite
  <2>4. InPending(j) => InPending(j)'
    BY <1>2 DEF InPending
  <2> QED BY <2>1, <2>2, <2>3, <2>4, QuietHeld
<1> QED BY <1>3, <1>4

\* A claim moves a job from the list to a worker.
LEMMA ClaimHeld ==
  ASSUME TypeOK, NEW p \in Proc, NEW t \in Token, ClaimLua(p, t, "claimed"),
         timers' = timers, NEW j \in Job, Held(j)
  PROVE  Held(j)'
<1>1. PICK i \in Job :
            /\ Len(pending) \in Nat \ {0} /\ pending[1].id = i
            /\ Len(pending') = Len(pending) - 1
            /\ \A k \in 1..Len(pending') : pending'[k] = pending[k + 1]
            /\ exec[t] = Unused
            /\ exec'[t].st = "claimed" /\ exec'[t].id = i
            /\ \A u \in Token \ {t} : exec'[u] = exec[u]
            /\ processing'[i] # NoRec
            /\ \A k \in Job \ {i} : processing'[k] = processing[k]
  BY ClaimMoves DEF ExecState
<1>2. CASE j = i
  BY <1>1, <1>2 DEF Held
<1>3. CASE j # i
  <2>1. ASSUME InPending(j)
        PROVE  InPending(j)'
    <3>1. PICK k \in 1..Len(pending) : pending[k].id = j
      BY <2>1 DEF InPending
    <3>2. k # 1
      BY <1>1, <1>3, <3>1
    <3>3. k - 1 \in 1..Len(pending') /\ (k - 1) + 1 = k
      BY <1>1, <3>1, <3>2
    <3>4. pending'[k - 1] = pending[k]
      BY <1>1, <3>3
    <3> QED BY <3>1, <3>3, <3>4 DEF InPending
  <2>2. \A u \in Claims(j) : exec'[u] = exec[u]
    BY <1>1, JobQueueAssumption DEF Claims, Unused
  <2> QED BY <1>1, <1>3, <2>1, <2>2, QuietHeld
<1> QED BY <1>2, <1>3

\* Rotating the list keeps every job in it.
LEMMA RotatePending ==
  ASSUME TypeOK, NEW p \in Proc, ClaimConflict(p), NEW j \in Job, InPending(j)
  PROVE  InPending(j)'
<1>1. /\ Len(pending) \in Nat \ {0} /\ Len(pending') = Len(pending)
      /\ \A k \in 1..(Len(pending) - 1) : pending'[k] = pending[k + 1]
      /\ pending'[Len(pending)] = pending[1]
  BY DEF ClaimConflict, TypeOK
<1>2. PICK k \in 1..Len(pending) : pending[k].id = j
  BY DEF InPending
<1>3. CASE k = 1
  BY <1>1, <1>2, <1>3 DEF InPending
<1>4. CASE k # 1
  <2>1. k - 1 \in 1..(Len(pending) - 1) /\ k - 1 \in 1..Len(pending') /\ (k - 1) + 1 = k
    BY <1>1, <1>2, <1>4
  <2>2. pending'[k - 1] = pending[k]
    BY <1>1, <2>1
  <2> QED BY <1>2, <2>1, <2>2 DEF InPending
<1> QED BY <1>3, <1>4

\* A process's step drops no job, unless it crashes or loses a redis reply.
LEMMA ProcHeld ==
  ASSUME TypeOK, NEW p \in Proc, ProcStep(p), NEW j \in Job, Held(j),
         crashes' = crashes, faults' = faults
  PROVE  Held(j)' \/ outcomes'[j] # {}
<1>n. crashes + 1 # crashes /\ faults + 1 # faults
  BY DEF TypeOK
<1>0. ASSUME exec' = exec, processing' = processing, timers' = timers,
             InPending(j) => InPending(j)'
      PROVE  Held(j)'
  BY <1>0, QuietHeld
<1>1. ASSUME NEW i \in Job, Enqueue(p, i) \/ EnqueueReplyLost(p, i)
      PROVE  Held(j)'
  <2>1. /\ pending' = Append(pending, [id |-> i, attempts |-> 0])
        /\ exec' = exec /\ processing' = processing /\ timers' = timers
    BY <1>1 DEF Enqueue, EnqueueReplyLost
  <2> QED BY <1>0, <2>1, AppendPending
<1>2. CASE DrainEnd(p) \/ ReclaimScan(p) \/ Close(p) \/ CloseEnd(p) \/ Restart(p)
  <2>1. exec' = exec /\ processing' = processing /\ timers' = timers /\ pending' = pending
    BY <1>2 DEF DrainEnd, ReclaimScan, Close, CloseEnd, Restart, redisVars
  <2> QED BY <1>0, <2>1 DEF InPending
<1>3. CASE ClaimConflict(p)
  <2>1. exec' = exec /\ processing' = processing /\ timers' = timers
    BY <1>3 DEF ClaimConflict
  <2> QED BY <1>0, <1>3, <2>1, RotatePending
<1>4. ASSUME NEW t \in Token, ClaimNext(p, t) \/ ClaimReplyLost(p, t)
      PROVE  Held(j)'
  <2>1. ClaimLua(p, t, "claimed") /\ timers' = timers
    BY <1>4, <1>n DEF ClaimNext, ClaimReplyLost, Fault
  <2> QED BY <2>1, ClaimHeld
<1>5. ASSUME NEW r \in timers[p],
             TimerFires(p, r) \/ \E applied \in BOOLEAN : TimerPushErrs(p, r, applied)
      PROVE  Held(j)' \/ outcomes'[j] # {}
  <2>1. TimerFires(p, r)
    BY <1>5, <1>n DEF TimerPushErrs, Fault
  <2>2. /\ exec' = exec /\ processing' = processing
        /\ timers' = [timers EXCEPT ![p] = @ \ {r}]
    BY <2>1 DEF TimerFires
  <2>3. timers \in [Proc -> SUBSET Timer] /\ r.id \in Job
    BY DEF TypeOK, Timer
  <2>4. CASE r.id # j
    <3>1. \A q \in Proc : \A k \in timers[q] : k.id = j => k \in timers'[q]
      BY <2>2, <2>3, <2>4
    <3>2. InPending(j) => InPending(j)'
      BY <2>1, AppendPending DEF TimerFires, InPending
    <3> QED BY <2>2, <3>1, <3>2, QuietHeld
  <2>5. CASE r.id = j /\ closed[p]
    <3>1. Mark(j, {"failed"})
      BY <2>1, <2>5 DEF TimerFires
    <3> QED BY <3>1 DEF Mark, TypeOK
  <2>6. CASE r.id = j /\ ~closed[p]
    <3>1. pending' = Append(pending, [id |-> j, attempts |-> r.attempts])
      BY <2>1, <2>6 DEF TimerFires
    <3>2. InPending(j)'
      BY <3>1, AppendPending
    <3> QED BY <3>2 DEF Held
  <2> QED BY <2>4, <2>5, <2>6
<1>6. ASSUME NEW s \in stale[p],
             ReclaimSkip(p, s) \/ ReclaimTake(p, s) \/ ReclaimReplyLost(p, s)
      PROVE  Held(j)' \/ outcomes'[j] # {}
  <2>1. ReclaimSkip(p, s) \/ ReclaimTake(p, s)
    BY <1>6, <1>n DEF ReclaimReplyLost, Fault
  <2>2. CASE ReclaimSkip(p, s)
    <3>1. exec' = exec /\ processing' = processing /\ timers' = timers /\ pending' = pending
      BY <2>2 DEF ReclaimSkip, redisVars
    <3> QED BY <1>0, <3>1 DEF InPending
  <2>3. CASE ReclaimTake(p, s)
    <3>1. /\ exec' = exec /\ pending' = pending
          /\ processing' = [processing EXCEPT ![s.id] = NoRec]
          /\ \/ Mark(s.id, {"failed", "dead_letter"}) /\ timers' = timers
             \/ timers' = [timers EXCEPT ![p] = @ \cup {[id |-> s.id,
                     attempts |-> s.attempts + 1, token |-> s.token, src |-> "reclaim"]}]
      BY <2>3 DEF ReclaimTake
    <3>2. timers \in [Proc -> SUBSET Timer] /\ s.id \in Job
      BY DEF TypeOK, Stale
    <3>3. CASE s.id # j
      <4>1. \A q \in Proc : \A k \in timers[q] : k \in timers'[q]
        BY <3>1, <3>2
      <4>2. processing'[j] = processing[j]
        BY <3>1, <3>3 DEF TypeOK
      <4> QED BY <3>1, <4>1, <4>2, QuietHeld DEF InPending
    <3>4. CASE s.id = j /\ Mark(s.id, {"failed", "dead_letter"})
      BY <3>4 DEF Mark, TypeOK
    <3>5. ASSUME s.id = j, NEW r, r.id = j, timers' = [timers EXCEPT ![p] = @ \cup {r}]
          PROVE  Held(j)'
      <4>1. r \in timers'[p]
        BY <3>2, <3>5
      <4>2. InTimer(j)'
        BY <3>5, <4>1 DEF InTimer
      <4> QED BY <4>2 DEF Held
    <3> DEFINE r == [id |-> s.id, attempts |-> s.attempts + 1, token |-> s.token,
                     src |-> "reclaim"]
    <3>6. r.id = s.id
      OBVIOUS
    <3>7. \/ Mark(s.id, {"failed", "dead_letter"})
          \/ timers' = [timers EXCEPT ![p] = @ \cup {r}]
      BY <3>1
    <3> HIDE DEF r
    <3>8. CASE s.id = j /\ timers' = [timers EXCEPT ![p] = @ \cup {r}]
      BY <3>5, <3>6, <3>8
    <3> QED BY <3>3, <3>4, <3>7, <3>8
  <2> QED BY <2>1, <2>2, <2>3
<1>7. ~Crash(p) /\ \A s \in stale[p] : ~ReclaimRead(p, s)
  BY <1>n DEF Crash, ReclaimRead, Fault
<1> QED BY <1>1, <1>2, <1>3, <1>4, <1>5, <1>6, <1>7 DEF ProcStep

\* For every constant: in every step but a crash and a lost redis reply, a job
\* that is queued, leased, running or waiting for its backoff stays so or gets
\* a terminal state.
THEOREM NothingLost == Spec => NoSilentLoss
<1>1. ASSUME TypeOK, Next, NEW j \in Job, Held(j), outcomes[j] = {},
             crashes' = crashes, faults' = faults
      PROVE  Held(j)' \/ outcomes'[j] # {}
  <2>1. ASSUME NEW i \in Job, Expire(i)
        PROVE  Held(j)'
    <3>1. /\ exec' = exec /\ timers' = timers /\ pending' = pending
          /\ processing[i] # NoRec
          /\ processing' = [processing EXCEPT ![i].expired = TRUE]
      BY <2>1 DEF Expire, procVars
    <3> DEFINE r == [processing[i] EXCEPT !.expired = TRUE]
    <3>2. processing' = [processing EXCEPT ![i] = r]
      BY <1>1, <3>1 DEF TypeOK
    <3>3. r \in Record
      BY <1>1, <3>1, RecordParts DEF Record
    <3> HIDE DEF r
    <3>4. processing[j] # NoRec => processing'[j] # NoRec
      BY <1>1, <3>2, <3>3, JobQueueAssumption DEF TypeOK
    <3> QED BY <1>1, <3>1, <3>4, QuietHeld DEF InPending
  <2>2. ASSUME NEW i \in Job, WaitTimeout(i)
        PROVE  Held(j)'
    <3>1. exec' = exec /\ processing' = processing /\ timers' = timers /\ pending' = pending
      BY <2>2 DEF WaitTimeout, redisVars, procVars
    <3> QED BY <1>1, <3>1, QuietHeld DEF InPending
  <2> QED BY <1>1, <2>1, <2>2, WorkerHeld, ProcHeld DEF Next
<1>2. TypeOK /\ [Next]_vars =>
        [\A j \in Job :
          /\ Held(j) /\ outcomes[j] = {}
          /\ crashes' = crashes /\ faults' = faults
          => Held(j)' \/ outcomes[j]' # {}]_vars
  BY <1>1
<1> QED BY <1>2, TypeCorrect, PTL DEF Spec, NoSilentLoss

-----------------------------------------------------------------------------
(* A queue whose live workers keep their leases, and whose redis answers. *)

Steady == LeaseLoss = FALSE /\ MaxVer = 0 /\ MaxFaults = 0

\* The tries of the copies of a job in a list, and that there is at most one.
ListedTries(q, j) == {q[i].attempts : i \in {k \in 1..Len(q) : q[k].id = j}}
ListedOnce(q, j) == \A a, b \in 1..Len(q) : q[a].id = j /\ q[b].id = j => a = b

\* A claim holds its job while its worker is busy, and beyond its worker's death
\* as long as its record is in the hash.
HasRecord(t) == processing[exec[t].id] # NoRec /\ processing[exec[t].id].token = t
Active(t) == Busy(t) \/ (exec[t].st = "dead" /\ HasRecord(t))

InList(j) == ListedTries(pending, j) # {}
InClaim(j) == \E t \in Claims(j) : Active(t)

\* A record in the hash is its worker's, unchanged, as long as it is busy with the
\* job and after its death; only after its death does it run out and is scanned.
RecordInv ==
    /\ faults = 0 /\ checks = {}
    /\ \A t \in Token : exec[t].ver = 0 /\ exec[t].renewing = FALSE
    /\ \A j \in Job : processing[j] # NoRec =>
          /\ processing[j].token \in Claims(j) /\ processing[j].ver = 0
          /\ processing[j].attempts = exec[processing[j].token].attempts
          /\ exec[processing[j].token].st \in {"claimed", "running", "finished", "dead"}
          /\ processing[j].expired => exec[processing[j].token].st = "dead"
    /\ \A t \in Token : exec[t].st \in {"claimed", "running", "finished"} => HasRecord(t)
    /\ \A p \in Proc : \A s \in stale[p] :
          /\ exec[s.token].st = "dead" /\ exec[s.token].id = s.id
          /\ s.ver = 0 /\ s.attempts = exec[s.token].attempts

\* A copy that waits has been claimed once per attempt it counts.
Fits(j, a) == a < MaxAttempts /\ Cardinality(Claims(j)) <= a

\* A job is in one place at most, and in none before it is accepted and after
\* its end.
OnePlace(j) ==
    /\ ListedOnce(pending, j)
    /\ \A p, q \in Proc : \A r \in timers[p], s \in timers[q] : r.id = j /\ s.id = j => p = q /\ r = s
    /\ \A t, u \in Claims(j) : Active(t) /\ Active(u) => t = u
    /\ InList(j) => ~InTimer(j) /\ ~InClaim(j)
    /\ InTimer(j) => ~InClaim(j)
    /\ outcomes[j] # {} \/ owner[j] = NoProc => ~InList(j) /\ ~InTimer(j) /\ ~InClaim(j)

Counted(j) ==
    /\ IsFiniteSet(Claims(j)) /\ Cardinality(Claims(j)) <= MaxAttempts
    /\ \A a \in ListedTries(pending, j) : Fits(j, a)
    /\ \A p \in Proc : \A r \in timers[p] : r.id = j => Fits(j, r.attempts)
    /\ \A t \in Claims(j) : Active(t) =>
          exec[t].attempts < MaxAttempts /\ Cardinality(Claims(j)) <= exec[t].attempts + 1

Ended(j) ==
    /\ owner[j] = NoProc => outcomes[j] = {} /\ Claims(j) = {}
    /\ ~({"completed", "failed"} \subseteq outcomes[j])

JobInv == \A j \in Job : OnePlace(j) /\ Counted(j) /\ Ended(j)

\* What a process runs and has claimed.
Slots(p) == Running(p) \cup {t \in Token : exec[t].st = "claimed" /\ exec[t].proc = p}
SlotInv ==
    /\ \A p \in Proc : IsFiniteSet(Slots(p)) /\ Cardinality(Slots(p)) <= Concurrency
    /\ \A t \in Token : exec[t].st \in {"claimed", "running"} => exec[t].res # "nohandler"

SteadyInv == TypeOK /\ RecordInv /\ JobInv /\ SlotInv

\* Everything about one job.
JobFine(j) == OnePlace(j) /\ Counted(j) /\ Ended(j)

\* Neither a lost reply nor a renewal happens then, and no fallback.
LEMMA SteadySteps ==
  ASSUME Steady, TypeOK, RecordInv
  PROVE  /\ ~Fault
         /\ \A t \in Token : ~Renew(t) /\ ~RenewReply(t) /\ ~RenewRead(t) /\ ~RenewWrite(t)
                             /\ ~ReleaseRead(t)
         /\ \A p \in Proc : \A s \in stale[p] : ~ReclaimRead(p, s)
<1>1. ~Fault
  BY DEF Fault, Steady, RecordInv
<1>2. ASSUME NEW t \in Token PROVE ~Renew(t) /\ ~RenewReply(t)
  <2>1. exec[t].ver = 0 /\ exec[t].renewing = FALSE /\ MaxVer = 0
    BY DEF Steady, RecordInv
  <2>2. ~(0 < 0)
    OBVIOUS
  <2> QED BY <2>1, <2>2 DEF Renew, RenewReply
<1>3. \A t \in Token : ~RenewRead(t) /\ ~RenewWrite(t) /\ ~ReleaseRead(t)
  BY <1>1 DEF RenewRead, RenewWrite, ReleaseRead, RecordInv
<1>4. \A p \in Proc : \A s \in stale[p] : ~ReclaimRead(p, s)
  BY <1>1 DEF ReclaimRead
<1> QED BY <1>1, <1>2, <1>3, <1>4

\* A copy at the end of a list.
LEMMA TriesAppend ==
  ASSUME NEW q \in Seq(Entry), NEW e \in Entry, NEW j
  PROVE  /\ j # e.id => /\ ListedTries(Append(q, e), j) = ListedTries(q, j)
                        /\ ListedOnce(q, j) => ListedOnce(Append(q, e), j)
         /\ j = e.id /\ ListedTries(q, j) = {} =>
               ListedTries(Append(q, e), j) = {e.attempts} /\ ListedOnce(Append(q, e), j)
<1> DEFINE t == Append(q, e)
           n == Len(q)
<1>1. /\ Len(t) = n + 1 /\ n \in Nat
      /\ \A i \in 1..n : t[i] = q[i]
      /\ t[n + 1] = e
  BY AppendProperties
<1> HIDE DEF t, n
<1>2. \A i \in 1..(n + 1) : i \in 1..n \/ i = n + 1
  BY <1>1
<1>3. \A i \in 1..n : i \in 1..(n + 1) /\ i # n + 1
  BY <1>1
<1>4. n + 1 \in 1..(n + 1)
  BY <1>1
<1>5. ASSUME j # e.id
      PROVE  ListedTries(t, j) = ListedTries(q, j) /\ (ListedOnce(q, j) => ListedOnce(t, j))
  <2>1. \A i \in 1..Len(t) : t[i].id = j => i \in 1..n /\ q[i].id = j /\ t[i] = q[i]
    BY <1>1, <1>2, <1>5
  <2>2. \A i \in 1..n : q[i].id = j => i \in 1..Len(t) /\ t[i].id = j /\ t[i] = q[i]
    BY <1>1, <1>3
  <2> QED BY <2>1, <2>2 DEF ListedTries, ListedOnce, n
<1>6. ASSUME j = e.id, ListedTries(q, j) = {}
      PROVE  ListedTries(t, j) = {e.attempts} /\ ListedOnce(t, j)
  <2>1. \A i \in 1..n : q[i].id # j
    BY <1>6 DEF ListedTries, n
  <2>2. \A i \in 1..Len(t) : t[i].id = j <=> i = n + 1
    BY <1>1, <1>2, <1>6, <2>1
  <2>3. n + 1 \in 1..Len(t)
    BY <1>1, <1>4
  <2> QED BY <1>1, <2>2, <2>3 DEF ListedTries, ListedOnce
<1> QED BY <1>5, <1>6 DEF t

\* The list without its first copy.
LEMMA TriesTail ==
  ASSUME NEW q \in Seq(Entry), q # <<>>, NEW j
  PROVE  /\ Head(q) \in Entry /\ Tail(q) \in Seq(Entry)
         /\ j # Head(q).id => ListedTries(Tail(q), j) = ListedTries(q, j)
         /\ ListedOnce(q, j) => ListedOnce(Tail(q), j)
         /\ j = Head(q).id => Head(q).attempts \in ListedTries(q, j)
         /\ j = Head(q).id /\ ListedOnce(q, j) => ListedTries(Tail(q), j) = {}
<1> DEFINE t == Tail(q)
           n == Len(q)
           h == Head(q)
<1>1. /\ h \in Entry /\ t \in Seq(Entry) /\ Len(t) = n - 1 /\ n \in Nat /\ n > 0
      /\ h = q[1] /\ \A i \in 1..Len(t) : t[i] = q[i + 1]
  BY HeadTailProperties, EmptySeq
<1> HIDE DEF t, n, h
<1>2. \A i \in 1..Len(t) : i + 1 \in 1..n /\ i + 1 # 1
  BY <1>1
<1>3. \A i \in 1..n : i # 1 => i - 1 \in 1..Len(t) /\ (i - 1) + 1 = i
  BY <1>1
<1>4. 1 \in 1..n
  BY <1>1
<1>5. ASSUME j # h.id PROVE ListedTries(t, j) = ListedTries(q, j)
  <2>1. \A i \in 1..Len(t) : t[i].id = j => i + 1 \in 1..n /\ q[i + 1].id = j /\ t[i] = q[i + 1]
    BY <1>1, <1>2
  <2>2. \A i \in 1..n : q[i].id = j => i - 1 \in 1..Len(t) /\ t[i - 1].id = j /\ t[i - 1] = q[i]
    BY <1>1, <1>3, <1>5
  <2> QED BY <2>1, <2>2 DEF ListedTries, n
<1>6. ASSUME ListedOnce(q, j) PROVE ListedOnce(t, j)
  <2> SUFFICES ASSUME NEW a \in 1..Len(t), NEW b \in 1..Len(t), t[a].id = j, t[b].id = j PROVE a = b
    BY DEF ListedOnce
  <2>1. a + 1 \in 1..n /\ b + 1 \in 1..n /\ q[a + 1].id = j /\ q[b + 1].id = j
    BY <1>1, <1>2
  <2>2. a + 1 = b + 1
    BY <1>6, <2>1 DEF ListedOnce, n
  <2>3. a \in Nat /\ b \in Nat
    BY <1>1
  <2> QED BY <2>2, <2>3
<1>7. ASSUME j = h.id PROVE h.attempts \in ListedTries(q, j)
  BY <1>1, <1>4, <1>7 DEF ListedTries, n
<1>8. ASSUME j = h.id, ListedOnce(q, j) PROVE ListedTries(t, j) = {}
  <2>1. ASSUME NEW i \in 1..Len(t), t[i].id = j PROVE FALSE
    <3>1. i + 1 \in 1..n /\ 1 \in 1..n /\ q[i + 1].id = j /\ q[1].id = j /\ i + 1 # 1
      BY <1>1, <1>2, <1>4, <1>8, <2>1
    <3> QED BY <1>8, <3>1 DEF ListedOnce, n
  <2> QED BY <2>1 DEF ListedTries
<1> QED BY <1>1, <1>5, <1>6, <1>7, <1>8 DEF t, h

\* A job of which no copy is made, and nothing else is decided.
LEMMA JobStays ==
  ASSUME NEW j \in Job, JobFine(j),
         ListedOnce(pending', j), ListedTries(pending', j) \subseteq ListedTries(pending, j),
         \A p \in Proc : \A r \in timers'[p] : r.id = j => r \in timers[p],
         Claims(j)' = Claims(j),
         \A t \in Claims(j) : exec'[t].attempts = exec[t].attempts /\ (Active(t)' => Active(t)),
         outcomes'[j] = outcomes[j],
         owner'[j] = owner[j]
  PROVE  JobFine(j)'
<1>1. (InList(j)' => InList(j)) /\ (InTimer(j)' => InTimer(j)) /\ (InClaim(j)' => InClaim(j))
  BY DEF InList, InTimer, InClaim
<1>2. OnePlace(j)'
  <2>1. \A p, q \in Proc : \A r \in timers'[p], s \in timers'[q] : r.id = j /\ s.id = j => p = q /\ r = s
    BY DEF JobFine, OnePlace
  <2>2. \A t, u \in Claims(j)' : Active(t)' /\ Active(u)' => t = u
    BY DEF JobFine, OnePlace
  <2> QED BY <1>1, <2>1, <2>2 DEF JobFine, OnePlace
<1>3. Counted(j)'
  BY DEF JobFine, Counted, Fits
<1>4. Ended(j)'
  BY DEF JobFine, Ended
<1> QED BY <1>2, <1>3, <1>4 DEF JobFine

\* A job of which no copy is left.
LEMMA JobEnds ==
  ASSUME NEW j \in Job, JobFine(j),
         ListedTries(pending', j) = {}, ListedOnce(pending', j), ~InTimer(j)', ~InClaim(j)',
         Claims(j)' = Claims(j),
         owner'[j] # NoProc,
         ~({"completed", "failed"} \subseteq outcomes'[j])
  PROVE  JobFine(j)'
<1>1. OnePlace(j)'
  BY DEF JobFine, OnePlace, InList, InTimer, InClaim
<1>2. Counted(j)'
  BY DEF JobFine, Counted, Fits, InTimer, InClaim
<1>3. Ended(j)'
  BY DEF Ended
<1> QED BY <1>1, <1>2, <1>3 DEF JobFine

\* A job that comes to the list, and is nowhere else.
LEMMA JobListed ==
  ASSUME NEW j \in Job, NEW a, JobFine(j),
         ListedTries(pending', j) = {a}, ListedOnce(pending', j), ~InTimer(j)', ~InClaim(j)',
         Claims(j)' = Claims(j), Fits(j, a),
         outcomes'[j] = {}, owner'[j] # NoProc
  PROVE  JobFine(j)'
<1>1. OnePlace(j)'
  BY DEF JobFine, OnePlace, InList, InTimer, InClaim
<1>2. Counted(j)'
  BY DEF JobFine, Counted, Fits, InTimer, InClaim
<1>3. Ended(j)'
  BY DEF Ended
<1> QED BY <1>1, <1>2, <1>3 DEF JobFine

\* A job that comes to a timer, and is nowhere else.
LEMMA JobTimed ==
  ASSUME NEW j \in Job, NEW p \in Proc, NEW r \in timers'[p], r.id = j, JobFine(j),
         \A q \in Proc : \A s \in timers'[q] : s.id = j => q = p /\ s = r,
         ListedTries(pending', j) = {}, ListedOnce(pending', j), ~InClaim(j)',
         Claims(j)' = Claims(j), Fits(j, r.attempts),
         outcomes'[j] = {}, owner'[j] # NoProc
  PROVE  JobFine(j)'
<1>1. OnePlace(j)'
  BY DEF JobFine, OnePlace, InList, InTimer, InClaim
<1>2. Counted(j)'
  BY DEF JobFine, Counted, Fits, InClaim
<1>3. Ended(j)'
  BY DEF Ended
<1> QED BY <1>1, <1>2, <1>3 DEF JobFine

\* A job that is claimed from the list.
LEMMA JobClaimed ==
  ASSUME NEW j \in Job, NEW t, JobFine(j), t \notin Claims(j), exec'[t].attempts \in ListedTries(pending, j),
         exec'[t].attempts \in Nat,
         ListedTries(pending', j) = {}, ListedOnce(pending', j), ~InTimer(j)',
         Claims(j)' = Claims(j) \cup {t},
         \A u \in Claims(j) : ~Active(u)',
         outcomes'[j] = {}, owner'[j] # NoProc
  PROVE  JobFine(j)'
<1>1. OnePlace(j)'
  BY DEF JobFine, OnePlace, InList, InTimer, InClaim
<1>2. /\ IsFiniteSet(Claims(j)) /\ Cardinality(Claims(j)) <= exec'[t].attempts /\ exec'[t].attempts < MaxAttempts
      /\ Cardinality(Claims(j)) \in Nat
  BY FS_CardinalityType DEF JobFine, Counted, Fits
<1>3. IsFiniteSet(Claims(j)') /\ Cardinality(Claims(j)') = Cardinality(Claims(j)) + 1
  BY <1>2, FS_AddElement
<1>4. Cardinality(Claims(j)') <= exec'[t].attempts + 1 /\ Cardinality(Claims(j)') <= MaxAttempts
  BY <1>2, <1>3, JobQueueAssumption
<1>5. Counted(j)'
  BY <1>2, <1>3, <1>4 DEF Counted, InTimer
<1>6. Ended(j)'
  BY DEF Ended
<1> QED BY <1>1, <1>5, <1>6 DEF JobFine

\* What a worker's step does to its execution, and to the rest of the queue.
LEMMA SteadyWorker ==
  ASSUME Steady, TypeOK, RecordInv, NEW t \in Token, WorkerStep(t)
  PROVE  /\ exec[t] \in Claimed
         /\ \A u \in Token \ {t} : exec'[u] = exec[u]
         /\ exec'[t].id = exec[t].id /\ exec'[t].attempts = exec[t].attempts
         /\ exec'[t].proc = exec[t].proc
         /\ exec'[t].ver = exec[t].ver /\ exec'[t].renewing = exec[t].renewing
         /\ pending' = pending /\ stale' = stale /\ owner' = owner /\ faults' = faults
         /\ checks' = checks
         /\ \/ /\ exec[t].st = "claimed" /\ exec'[t].st = "running" /\ exec'[t].res = exec[t].res
               /\ processing' = processing /\ timers' = timers /\ outcomes' = outcomes
            \/ /\ exec[t].st = "claimed" /\ exec'[t].st = "finished" /\ exec'[t].res = "nohandler"
               /\ processing' = processing /\ timers' = timers /\ outcomes' = outcomes
            \/ /\ exec[t].st = "running" /\ exec'[t].st = "finished"
               /\ processing' = processing /\ timers' = timers /\ outcomes' = outcomes
            \/ /\ exec[t].st = "finished" /\ exec'[t].st = "released" /\ exec'[t].res = exec[t].res
               /\ processing' = [processing EXCEPT ![exec[t].id] = NoRec]
               /\ timers' = timers /\ outcomes' = outcomes
            \/ /\ exec[t].st = "released" /\ exec'[t].st = "done" /\ processing' = processing
               /\ AfterSuccess(t) \/ AfterFailureRetry(t) \/ AfterFailureTerminal(t)
<1>e. exec \in [Token -> Exec] /\ exec[t] \in Claimed
  BY WorkerClaimed DEF TypeOK
<1>f. /\ ~ReleaseFails(t) /\ ~Renew(t) /\ ~RenewReply(t)
      /\ ~RenewRead(t) /\ ~RenewWrite(t) /\ ~ReleaseRead(t)
  BY SteadySteps DEF ReleaseFails
<1>g. checks = {}
  BY DEF RecordInv
<1>h. checks' = checks
  BY <1>f, <1>g DEF WorkerStep, ClaimReply, HandlerEnds, Release, AfterSuccess,
     AfterFailureRetry, AfterFailureTerminal, procVars
<1>1. CASE ClaimReply(t)
  <2>1. exec' = [exec EXCEPT ![t] = exec'[t]]
    BY <1>1, <1>e DEF ClaimReply
  <2>2. /\ exec[t].st = "claimed"
        /\ \/ exec'[t] = [exec[t] EXCEPT !.st = "finished", !.res = "nohandler"]
           \/ exec'[t] = [exec[t] EXCEPT !.st = "running"]
    BY <1>1, <1>e DEF ClaimReply
  <2>3. /\ pending' = pending /\ stale' = stale /\ owner' = owner /\ faults' = faults
        /\ processing' = processing /\ timers' = timers /\ outcomes' = outcomes
    BY <1>1 DEF ClaimReply, redisVars
  <2>4. \A u \in Token \ {t} : exec'[u] = exec[u]
    BY <1>1, <1>e DEF ClaimReply
  <2>5. CASE exec'[t] = [exec[t] EXCEPT !.st = "finished", !.res = "nohandler"]
    BY <1>e, <2>2, <2>3, <2>4, <2>5, <1>h DEF Claimed
  <2>6. CASE exec'[t] = [exec[t] EXCEPT !.st = "running"]
    BY <1>e, <2>2, <2>3, <2>4, <2>6, <1>h DEF Claimed
  <2> QED BY <2>2, <2>5, <2>6
<1>2. ASSUME NEW r \in {"ok", "err", "terminal"}, HandlerEnds(t, r)
      PROVE  /\ \A u \in Token \ {t} : exec'[u] = exec[u]
             /\ exec'[t] = [exec[t] EXCEPT !.st = "finished", !.res = r]
             /\ exec[t].st = "running"
             /\ pending' = pending /\ stale' = stale /\ owner' = owner /\ faults' = faults
             /\ processing' = processing /\ timers' = timers /\ outcomes' = outcomes
  BY <1>2, <1>e DEF HandlerEnds, redisVars, procVars
<1>3. CASE \E r \in {"ok", "err", "terminal"} : HandlerEnds(t, r)
  <2>1. PICK r \in {"ok", "err", "terminal"} : HandlerEnds(t, r)
    BY <1>3
  <2> QED BY <1>e, <1>h, <1>2, <2>1 DEF Claimed
<1>4. CASE Release(t)
  <2>1. HasRecord(t) /\ exec[t].ver = 0 /\ exec[t].id \in Job
    BY <1>4, <1>e DEF Release, RecordInv, Claimed
  <2>2. SameRaw(exec[t].id, t, exec[t].ver)
    BY <2>1 DEF RecordInv, HasRecord, SameRaw
  <2>3. /\ \A u \in Token \ {t} : exec'[u] = exec[u]
        /\ exec'[t] = [exec[t] EXCEPT !.st = "released"] /\ exec[t].st = "finished"
        /\ pending' = pending /\ stale' = stale /\ owner' = owner /\ faults' = faults
        /\ processing' = [processing EXCEPT ![exec[t].id] = NoRec]
        /\ timers' = timers /\ outcomes' = outcomes
    BY <1>4, <1>e, <2>2 DEF Release
  <2> QED BY <1>e, <1>h, <2>3 DEF Claimed
<1>5. CASE AfterSuccess(t) \/ AfterFailureRetry(t) \/ AfterFailureTerminal(t)
  <2>1. /\ exec[t].st = "released" /\ exec' = [exec EXCEPT ![t].st = "done"]
        /\ pending' = pending /\ stale' = stale /\ owner' = owner /\ faults' = faults
        /\ processing' = processing
    BY <1>5 DEF AfterSuccess, AfterFailureRetry, AfterFailureTerminal, Done, redisVars
  <2>2. /\ \A u \in Token \ {t} : exec'[u] = exec[u]
        /\ exec'[t] = [exec[t] EXCEPT !.st = "done"]
    BY <1>e, <2>1
  <2> QED BY <1>5, <1>e, <1>h, <2>1, <2>2 DEF Claimed
<1> QED BY <1>f, <1>1, <1>3, <1>4, <1>5 DEF WorkerStep

\* No record and no scan of the hash names a token nobody has used.
LEMMA FreshToken ==
  ASSUME TypeOK, RecordInv, NEW t \in Token, exec[t].st \in {"unused", "released", "done"}
  PROVE  /\ \A j \in Job : processing[j] # NoRec => processing[j].token # t
         /\ \A p \in Proc : \A s \in stale[p] : s.token # t
  BY DEF RecordInv

\* A step that leaves the hash and the executions alone, and scans nothing.
LEMMA QuietRecord ==
  ASSUME RecordInv, processing' = processing, exec' = exec, faults' = faults,
         checks' \subseteq checks,
         \A p \in Proc : stale'[p] \subseteq stale[p]
  PROVE  RecordInv'
<1>1. \A j \in Job : Claims(j)' = Claims(j)
  BY DEF Claims
<1>2. \A t \in Token : HasRecord(t)' = HasRecord(t)
  BY DEF HasRecord
<1> QED BY <1>1, <1>2 DEF RecordInv

\* A worker's step keeps the hash and the executions in step.
LEMMA WorkerRecord ==
  ASSUME Steady, TypeOK, RecordInv, NEW t \in Token, WorkerStep(t)
  PROVE  RecordInv'
<1>1. /\ exec[t] \in Claimed
      /\ \A u \in Token \ {t} : exec'[u] = exec[u]
      /\ exec'[t].id = exec[t].id /\ exec'[t].attempts = exec[t].attempts
      /\ exec'[t].ver = exec[t].ver /\ exec'[t].renewing = exec[t].renewing
      /\ stale' = stale /\ faults' = faults /\ checks' = checks
      /\ \/ /\ exec[t].st \in {"claimed", "running"} /\ exec'[t].st \in {"running", "finished"}
            /\ processing' = processing
         \/ /\ exec[t].st = "finished" /\ exec'[t].st = "released"
            /\ processing' = [processing EXCEPT ![exec[t].id] = NoRec]
         \/ exec[t].st = "released" /\ exec'[t].st = "done" /\ processing' = processing
  BY SteadyWorker
<1>2. processing \in [Job -> Record \cup {NoRec}] /\ exec[t].id \in Job
  BY <1>1 DEF TypeOK, Claimed
<1>3. \A j \in Job : Claims(j)' = Claims(j)
  BY <1>1 DEF Claims
<1>4. \A j \in Job : processing'[j] # NoRec => processing'[j] = processing[j]
  BY <1>1, <1>2
<1>5. ASSUME NEW j \in Job, processing'[j] # NoRec, processing[j].token = t
      PROVE  exec'[t].st \in {"claimed", "running", "finished", "dead"} /\ exec[t].st # "dead"
  <2>1. t \in Claims(j) /\ processing[j] # NoRec
    BY <1>4, <1>5 DEF RecordInv
  <2>2. exec[t].id = j
    BY <2>1 DEF Claims
  <2>3. exec[t].st \in {"claimed", "running", "finished", "dead"}
    BY <1>5, <2>1 DEF RecordInv
  <2> QED BY <1>1, <1>2, <1>5, <2>2, <2>3
<1>6. ASSUME NEW j \in Job, processing'[j] # NoRec
      PROVE  /\ processing'[j].token \in Claims(j)' /\ processing'[j].ver = 0
             /\ processing'[j].attempts = exec'[processing'[j].token].attempts
             /\ exec'[processing'[j].token].st \in {"claimed", "running", "finished", "dead"}
             /\ processing'[j].expired => exec'[processing'[j].token].st = "dead"
  <2>1. processing'[j] = processing[j] /\ processing[j] # NoRec
    BY <1>4, <1>6
  <2>2. CASE processing[j].token = t
    BY <1>1, <1>3, <1>5, <1>6, <2>1, <2>2 DEF RecordInv
  <2>3. CASE processing[j].token # t
    BY <1>1, <1>3, <2>1, <2>3 DEF RecordInv, Claims
  <2> QED BY <2>2, <2>3
<1>7. ASSUME NEW u \in Token, exec'[u].st \in {"claimed", "running", "finished"}
      PROVE  HasRecord(u)'
  <2>1. exec[u].st \in {"claimed", "running", "finished"}
    BY <1>1, <1>7
  <2>2. HasRecord(u) /\ exec'[u].id = exec[u].id
    BY <1>1, <2>1 DEF RecordInv
  <2>3. exec[u].id \in Job
    BY <2>1 DEF TypeOK, Exec, Unused, Claimed
  <2>4. processing'[exec[u].id] = processing[exec[u].id]
    BY <1>1, <1>2, <1>7, <2>2, <2>3 DEF RecordInv, HasRecord
  <2> QED BY <2>2, <2>4 DEF HasRecord
<1>8. ASSUME NEW p \in Proc, NEW s \in stale'[p]
      PROVE  /\ exec'[s.token].st = "dead" /\ exec'[s.token].id = s.id
             /\ s.ver = 0 /\ s.attempts = exec'[s.token].attempts
  <2>1. s \in stale[p] /\ s.token \in Token
    BY <1>1 DEF TypeOK, Stale
  <2>2. exec[s.token].st = "dead"
    BY <2>1 DEF RecordInv
  <2> QED BY <1>1, <2>1, <2>2 DEF RecordInv
<1>9. \A u \in Token : exec'[u].ver = 0 /\ exec'[u].renewing = FALSE
  BY <1>1 DEF RecordInv
<1> QED BY <1>1, <1>6, <1>7, <1>8, <1>9 DEF RecordInv

\* The claim script, seen from the list, the hash and the executions.
LEMMA ClaimView ==
  ASSUME TypeOK, NEW p \in Proc, NEW t \in Token, ClaimNext(p, t)
  PROVE  /\ pending # <<>> /\ pending' = Tail(pending) /\ Head(pending) \in Entry
         /\ exec[t] = Unused /\ exec[t].id \notin Job
         /\ processing[Head(pending).id] = NoRec
         /\ exec'[t].st = "claimed" /\ exec'[t].res = "none" /\ exec'[t].proc = p
         /\ exec'[t].id = Head(pending).id /\ exec'[t].attempts = Head(pending).attempts
         /\ exec'[t].ver = 0 /\ exec'[t].renewing = FALSE
         /\ \A u \in Token \ {t} : exec'[u] = exec[u]
         /\ processing'[Head(pending).id].token = t /\ processing'[Head(pending).id].ver = 0
         /\ processing'[Head(pending).id].attempts = Head(pending).attempts
         /\ ~processing'[Head(pending).id].expired
         /\ processing'[Head(pending).id] # NoRec
         /\ \A j \in Job : j # Head(pending).id => processing'[j] = processing[j]
         /\ timers' = timers /\ stale' = stale /\ owner' = owner /\ outcomes' = outcomes
         /\ faults' = faults
<1>1. pending \in Seq(Entry) /\ pending # <<>> /\ ClaimLua(p, t, "claimed")
  BY DEF TypeOK, ClaimNext, ClaimLua
<1>2. Head(pending) \in Entry
  BY <1>1, HeadTailProperties
<1>3. Head(pending).id \in Job /\ Head(pending).attempts \in Nat
  BY <1>2 DEF Entry
<1>4. exec[t] = Unused /\ exec[t].id \notin Job
  BY <1>1, JobQueueAssumption DEF ClaimLua, Unused
<1>5. exec \in [Token -> Exec] /\ processing \in [Job -> Record \cup {NoRec}]
  BY DEF TypeOK
<1>6. [token |-> t, ver |-> 0, attempts |-> Head(pending).attempts, expired |-> FALSE] # NoRec
  <2>1. [token |-> t, ver |-> 0, attempts |-> Head(pending).attempts, expired |-> FALSE] \in Record
    BY <1>3 DEF Record
  <2> QED BY <2>1, JobQueueAssumption
<1>7. /\ exec'[t] = [st |-> "claimed", res |-> "none", proc |-> p, id |-> Head(pending).id,
                     attempts |-> Head(pending).attempts, ver |-> 0, renewing |-> FALSE]
      /\ \A u \in Token \ {t} : exec'[u] = exec[u]
  BY <1>1, <1>5 DEF ClaimLua
<1>8. /\ processing'[Head(pending).id] = [token |-> t, ver |-> 0,
                                          attempts |-> Head(pending).attempts, expired |-> FALSE]
      /\ \A j \in Job : j # Head(pending).id => processing'[j] = processing[j]
  BY <1>1, <1>3, <1>5 DEF ClaimLua
<1> QED BY <1>1, <1>2, <1>4, <1>6, <1>7, <1>8 DEF ClaimNext, ClaimLua

\* A claim keeps the hash and the executions in step.
LEMMA ClaimRecord ==
  ASSUME TypeOK, RecordInv, NEW p \in Proc, NEW t \in Token, ClaimNext(p, t)
  PROVE  RecordInv'
<1> DEFINE h == Head(pending).id
<1>1. /\ h \in Job /\ exec[t] = Unused /\ exec[t].id \notin Job /\ exec[t].st = "unused"
      /\ processing[h] = NoRec /\ exec'[t].st = "claimed" /\ exec'[t].id = h
      /\ exec'[t].ver = 0 /\ exec'[t].renewing = FALSE
      /\ \A u \in Token \ {t} : exec'[u] = exec[u]
      /\ processing'[h] # NoRec /\ processing'[h].token = t /\ processing'[h].ver = 0
      /\ processing'[h].attempts = exec'[t].attempts /\ ~processing'[h].expired
      /\ \A j \in Job : j # h => processing'[j] = processing[j]
      /\ stale' = stale /\ faults' = faults /\ checks' = checks
  <2>1. h \in Job
    BY ClaimView DEF Entry
  <2>2. exec[t] = Unused /\ exec[t].st = "unused"
    <3>1. exec[t] = Unused
      BY ClaimView
    <3> QED BY <3>1 DEF Unused
  <2>3. /\ exec[t].id \notin Job /\ processing[h] = NoRec
        /\ exec'[t].st = "claimed" /\ exec'[t].id = h
        /\ exec'[t].ver = 0 /\ exec'[t].renewing = FALSE
        /\ \A u \in Token \ {t} : exec'[u] = exec[u]
        /\ stale' = stale /\ faults' = faults
    BY ClaimView
  <2>4. /\ processing'[h] # NoRec /\ processing'[h].token = t /\ processing'[h].ver = 0
        /\ processing'[h].attempts = exec'[t].attempts /\ ~processing'[h].expired
    BY ClaimView
  <2>5. \A j \in Job : j # h => processing'[j] = processing[j]
    BY ClaimView
  <2>6. checks' = checks
    BY DEF ClaimNext
  <2> QED BY <2>1, <2>2, <2>3, <2>4, <2>5, <2>6
<1> HIDE DEF h
<1>2. ASSUME NEW j \in Job, processing'[j] # NoRec
      PROVE  /\ processing'[j].token \in Claims(j)' /\ processing'[j].ver = 0
             /\ processing'[j].attempts = exec'[processing'[j].token].attempts
             /\ exec'[processing'[j].token].st \in {"claimed", "running", "finished", "dead"}
             /\ processing'[j].expired => exec'[processing'[j].token].st = "dead"
  <2>1. CASE j = h
    BY <1>1, <2>1 DEF Claims
  <2>2. CASE j # h
    <3>1. processing[j] # NoRec /\ processing'[j] = processing[j]
      BY <1>1, <1>2, <2>2
    <3>2. processing[j].token # t /\ processing[j].token \in Claims(j)
      BY <1>1, <3>1, FreshToken DEF RecordInv
    <3>3. processing[j].token \in Claims(j)'
      BY <1>1, <3>2 DEF Claims
    <3> QED BY <1>1, <3>1, <3>2, <3>3 DEF RecordInv, Claims
  <2> QED BY <2>1, <2>2
<1>3. ASSUME NEW u \in Token, exec'[u].st \in {"claimed", "running", "finished"}
      PROVE  HasRecord(u)'
  <2>1. CASE u = t
    BY <1>1, <2>1 DEF HasRecord
  <2>2. CASE u # t
    <3>1. exec'[u] = exec[u] /\ HasRecord(u)
      BY <1>1, <1>3, <2>2 DEF RecordInv
    <3>2. exec[u].id # h /\ exec[u].id \in Job
      BY <1>1, <1>3, <3>1 DEF HasRecord, TypeOK, Exec, Unused, Claimed
    <3> QED BY <1>1, <3>1, <3>2 DEF HasRecord
  <2> QED BY <2>1, <2>2
<1>4. ASSUME NEW q \in Proc, NEW s \in stale'[q]
      PROVE  /\ exec'[s.token].st = "dead" /\ exec'[s.token].id = s.id
             /\ s.ver = 0 /\ s.attempts = exec'[s.token].attempts
  <2>1. s \in stale[q] /\ s.token \in Token /\ s.token # t
    BY <1>1, FreshToken DEF TypeOK, Stale
  <2> QED BY <1>1, <2>1 DEF RecordInv
<1>5. \A u \in Token : exec'[u].ver = 0 /\ exec'[u].renewing = FALSE
  BY <1>1 DEF RecordInv
<1> QED BY <1>1, <1>2, <1>3, <1>4, <1>5 DEF RecordInv

\* A scan finds records of dead workers only.
LEMMA ScanRecord ==
  ASSUME TypeOK, RecordInv, NEW p \in Proc, ReclaimScan(p)
  PROVE  RecordInv'
<1>1. processing' = processing /\ exec' = exec /\ faults' = faults /\ checks' = checks
  BY DEF ReclaimScan, redisVars
<1>2. ASSUME NEW q \in Proc, NEW s \in stale'[q]
      PROVE  /\ exec[s.token].st = "dead" /\ exec[s.token].id = s.id
             /\ s.ver = 0 /\ s.attempts = exec[s.token].attempts
  <2>1. \/ s \in stale[q]
        \/ \E j \in Job : processing[j] # NoRec /\ processing[j].expired /\ s = StaleOf(j)
    BY <1>2 DEF ReclaimScan, TypeOK
  <2>2. ASSUME NEW j \in Job, processing[j] # NoRec, processing[j].expired, s = StaleOf(j)
        PROVE  /\ exec[s.token].st = "dead" /\ exec[s.token].id = s.id
               /\ s.ver = 0 /\ s.attempts = exec[s.token].attempts
    <3>1. s.token = processing[j].token /\ s.id = j /\ s.ver = processing[j].ver
          /\ s.attempts = processing[j].attempts
      BY <2>2 DEF StaleOf
    <3> QED BY <2>2, <3>1 DEF RecordInv, Claims
  <2>3. CASE s \in stale[q]
    BY <2>3 DEF RecordInv
  <2> QED BY <2>1, <2>2, <2>3
<1>3. \A j \in Job : Claims(j)' = Claims(j)
  BY <1>1 DEF Claims
<1>4. \A u \in Token : HasRecord(u)' = HasRecord(u)
  BY <1>1 DEF HasRecord
<1> QED BY <1>1, <1>2, <1>3, <1>4 DEF RecordInv

\* A reclaimed record was a dead worker's, and the record scanned is its.
LEMMA TakeView ==
  ASSUME TypeOK, RecordInv, NEW p \in Proc, NEW s \in stale[p], ReclaimTake(p, s)
  PROVE  /\ s.id \in Job /\ s.token \in Token /\ s.attempts \in Nat
         /\ processing[s.id] # NoRec /\ processing[s.id].token = s.token
         /\ exec[s.token].st = "dead" /\ exec[s.token].id = s.id /\ s.attempts = exec[s.token].attempts
         /\ exec' = exec /\ pending' = pending /\ owner' = owner /\ faults' = faults
         /\ processing' = [processing EXCEPT ![s.id] = NoRec]
         /\ checks' \subseteq checks
         /\ \A q \in Proc : stale'[q] \subseteq stale[q]
<1>1. s \in Stale
  BY DEF TypeOK
<1>2. \A q \in Proc : stale'[q] \subseteq stale[q]
  BY DEF ReclaimTake, TypeOK
<1>3. SameRaw(s.id, s.token, s.ver)
  BY DEF ReclaimTake, MayTake, RecordInv
<1> QED BY <1>1, <1>2, <1>3 DEF Stale, ReclaimTake, SameRaw, RecordInv

\* A reclaim removes the record of a worker that is dead.
LEMMA TakeRecord ==
  ASSUME TypeOK, RecordInv, NEW p \in Proc, NEW s \in stale[p], ReclaimTake(p, s)
  PROVE  RecordInv'
<1>1. /\ s.id \in Job /\ processing[s.id] # NoRec /\ processing[s.id].token = s.token
      /\ exec[s.token].st = "dead" /\ exec' = exec /\ faults' = faults
      /\ checks' \subseteq checks
      /\ processing' = [processing EXCEPT ![s.id] = NoRec]
      /\ \A q \in Proc : stale'[q] \subseteq stale[q]
  BY TakeView
<1>2. \A j \in Job : processing'[j] # NoRec => processing'[j] = processing[j]
  BY <1>1 DEF TypeOK
<1>3. \A j \in Job : Claims(j)' = Claims(j)
  BY <1>1 DEF Claims
<1>4. ASSUME NEW u \in Token, exec[u].st \in {"claimed", "running", "finished"}
      PROVE  HasRecord(u)'
  <2>1. HasRecord(u) /\ exec[u].id \in Job
    BY <1>4 DEF RecordInv, TypeOK, Exec, Unused, Claimed
  <2>2. exec[u].id # s.id
    BY <1>1, <1>4, <2>1 DEF HasRecord
  <2> QED BY <1>1, <2>1, <2>2 DEF HasRecord, TypeOK
<1> QED BY <1>1, <1>2, <1>3, <1>4 DEF RecordInv

\* What a crash does to the executions of its process.
LEMMA CrashView ==
  ASSUME TypeOK, NEW p \in Proc, Crash(p), NEW u \in Token
  PROVE  /\ exec'[u].id = exec[u].id /\ exec'[u].attempts = exec[u].attempts
         /\ exec'[u].ver = exec[u].ver /\ exec'[u].renewing = exec[u].renewing
         /\ exec'[u].proc = exec[u].proc /\ exec'[u].res = exec[u].res
         /\ \/ exec'[u] = exec[u]
            \/ exec'[u].st = "dead" /\ Busy(u) /\ exec[u].proc = p
<1>1. CASE exec[u].st \in {"claimed", "running", "finished", "released"} /\ exec[u].proc = p
  <2>1. exec[u] \in Claimed /\ exec'[u] = [exec[u] EXCEPT !.st = "dead"]
    BY <1>1, ClaimedExec DEF Crash
  <2> QED BY <1>1, <2>1 DEF Claimed, Busy
<1>2. CASE ~(exec[u].st \in {"claimed", "running", "finished", "released"} /\ exec[u].proc = p)
  BY <1>2 DEF Crash
<1> QED BY <1>1, <1>2

\* A crash leaves the hash alone.
LEMMA CrashRecord ==
  ASSUME TypeOK, RecordInv, NEW p \in Proc, Crash(p)
  PROVE  RecordInv'
<1>1. processing' = processing /\ faults' = faults /\ checks' \subseteq checks
  BY DEF Crash, redisVars
<1>2. \A q \in Proc : stale'[q] \subseteq stale[q]
  BY DEF Crash, TypeOK
<1>3. /\ \A j \in Job : Claims(j)' = Claims(j)
      /\ \A u \in Token : HasRecord(u)' = HasRecord(u)
  BY <1>1, CrashView DEF Claims, HasRecord
<1>4. \A u \in Token : /\ exec'[u].st = exec[u].st \/ exec'[u].st = "dead"
                       /\ exec[u].st = "dead" => exec'[u].st = "dead"
  BY CrashView
<1>5. ASSUME NEW j \in Job, processing[j] # NoRec
      PROVE  /\ processing[j].token \in Claims(j)' /\ processing[j].ver = 0
             /\ processing[j].attempts = exec'[processing[j].token].attempts
             /\ exec'[processing[j].token].st \in {"claimed", "running", "finished", "dead"}
             /\ processing[j].expired => exec'[processing[j].token].st = "dead"
  <2>1. processing[j].token \in Token
    BY <1>5 DEF RecordInv, Claims
  <2> QED BY <1>3, <1>4, <1>5, <2>1, CrashView DEF RecordInv
<1>6. ASSUME NEW u \in Token, exec'[u].st \in {"claimed", "running", "finished"}
      PROVE  HasRecord(u)'
  BY <1>3, <1>4, <1>6 DEF RecordInv
<1>7. ASSUME NEW q \in Proc, NEW s \in stale'[q]
      PROVE  /\ exec'[s.token].st = "dead" /\ exec'[s.token].id = s.id
             /\ s.ver = 0 /\ s.attempts = exec'[s.token].attempts
  <2>1. s \in stale[q] /\ s.token \in Token
    BY <1>2 DEF TypeOK, Stale
  <2> QED BY <1>4, <2>1, CrashView DEF RecordInv
<1>8. \A u \in Token : exec'[u].ver = 0 /\ exec'[u].renewing = FALSE
  BY CrashView DEF RecordInv
<1> QED BY <1>1, <1>5, <1>6, <1>7, <1>8 DEF RecordInv

\* Only the record of a dead worker runs out.
LEMMA ExpireRecord ==
  ASSUME Steady, TypeOK, RecordInv, NEW i \in Job, Expire(i)
  PROVE  RecordInv'
<1>1. /\ processing[i] # NoRec /\ exec' = exec /\ faults' = faults /\ stale' = stale /\ checks' = checks
      /\ exec[processing[i].token].st \in {"done", "dead"}
      /\ processing' = [processing EXCEPT ![i].expired = TRUE]
  BY DEF Expire, Steady, procVars
<1>2. exec[processing[i].token].st = "dead"
  BY <1>1 DEF RecordInv
<1>3. processing[i] \in Record /\ processing \in [Job -> Record \cup {NoRec}]
  BY <1>1 DEF TypeOK
<1>4. /\ processing'[i] # NoRec /\ processing'[i].token = processing[i].token
      /\ processing'[i].ver = processing[i].ver /\ processing'[i].attempts = processing[i].attempts
  <2>1. processing'[i] = [processing[i] EXCEPT !.expired = TRUE]
    BY <1>1, <1>3
  <2>2. processing'[i] \in Record
    BY <1>3, <2>1 DEF Record
  <2> QED BY <1>3, <2>1, <2>2, JobQueueAssumption DEF Record
<1>5. \A j \in Job : j # i => processing'[j] = processing[j]
  BY <1>1, <1>3
<1>6. \A j \in Job : Claims(j)' = Claims(j)
  BY <1>1 DEF Claims
<1>7. ASSUME NEW u \in Token, HasRecord(u), exec[u].id \in Job PROVE HasRecord(u)'
  BY <1>1, <1>4, <1>5, <1>7 DEF HasRecord
<1>8. ASSUME NEW j \in Job, processing'[j] # NoRec
      PROVE  /\ processing'[j].token \in Claims(j)' /\ processing'[j].ver = 0
             /\ processing'[j].attempts = exec'[processing'[j].token].attempts
             /\ exec'[processing'[j].token].st \in {"claimed", "running", "finished", "dead"}
             /\ processing'[j].expired => exec'[processing'[j].token].st = "dead"
  BY <1>1, <1>2, <1>4, <1>5, <1>6, <1>8 DEF RecordInv
<1>9. ASSUME NEW u \in Token, exec'[u].st \in {"claimed", "running", "finished"}
      PROVE  HasRecord(u)'
  <2>1. HasRecord(u) /\ exec[u].id \in Job
    BY <1>1, <1>9 DEF RecordInv, TypeOK, Exec, Unused, Claimed
  <2> QED BY <1>7, <2>1
<1> QED BY <1>1, <1>8, <1>9 DEF RecordInv

\* Every step keeps the hash and the executions in step.
LEMMA NextRecord == Steady /\ TypeOK /\ RecordInv /\ [Next]_vars => RecordInv'
<1> SUFFICES ASSUME Steady, TypeOK, RecordInv, [Next]_vars PROVE RecordInv'
  OBVIOUS
<1>1. ASSUME NEW t \in Token, WorkerStep(t) PROVE RecordInv'
  BY <1>1, WorkerRecord
<1>2. ASSUME NEW p \in Proc, ProcStep(p) PROVE RecordInv'
  <2>1. ASSUME NEW j \in Job, Enqueue(p, j) PROVE RecordInv'
    BY <2>1, QuietRecord DEF Enqueue
  <2>2. CASE DrainEnd(p) \/ ClaimConflict(p) \/ Close(p) \/ CloseEnd(p) \/ Restart(p)
    BY <2>2, QuietRecord DEF DrainEnd, ClaimConflict, Close, CloseEnd, Restart, redisVars
  <2>3. ASSUME NEW t \in Token, ClaimNext(p, t) PROVE RecordInv'
    BY <2>3, ClaimRecord
  <2>4. ASSUME NEW r \in timers[p], TimerFires(p, r) PROVE RecordInv'
    BY <2>4, QuietRecord DEF TimerFires
  <2>5. CASE ReclaimScan(p)
    BY <2>5, ScanRecord
  <2>6. ASSUME NEW s \in stale[p], ReclaimSkip(p, s) PROVE RecordInv'
    <3>1. checks' \subseteq checks /\ \A q \in Proc : stale'[q] \subseteq stale[q]
      BY <2>6 DEF ReclaimSkip, TypeOK
    <3> QED BY <2>6, <3>1, QuietRecord DEF ReclaimSkip, redisVars
  <2>7. ASSUME NEW s \in stale[p], ReclaimTake(p, s) PROVE RecordInv'
    BY <2>7, TakeRecord
  <2>8. CASE Crash(p)
    BY <2>8, CrashRecord
  <2>9. ~Fault /\ \A s \in stale[p] : ~ReclaimRead(p, s)
    BY SteadySteps
  <2> QED BY <1>2, <2>1, <2>2, <2>3, <2>4, <2>5, <2>6, <2>7, <2>8, <2>9
          DEF ProcStep, EnqueueReplyLost, ClaimReplyLost, TimerPushErrs, ReclaimReplyLost
<1>3. ASSUME NEW j \in Job, Expire(j) PROVE RecordInv'
  BY <1>3, ExpireRecord
<1>4. ASSUME NEW j \in Job, WaitTimeout(j) PROVE RecordInv'
  BY <1>4, QuietRecord DEF WaitTimeout, redisVars, procVars
<1>5. CASE UNCHANGED vars
  BY <1>5, QuietRecord DEF vars
<1> QED BY <1>1, <1>2, <1>3, <1>4, <1>5 DEF Next

\* A process whose slots only empty.
LEMMA SlotsShrink ==
  ASSUME SlotInv, NEW p \in Proc, Slots(p)' \subseteq Slots(p)
  PROVE  IsFiniteSet(Slots(p)') /\ Cardinality(Slots(p)') <= Concurrency
<1>1. IsFiniteSet(Slots(p)) /\ Cardinality(Slots(p)) <= Concurrency
  BY DEF SlotInv
<1>2. IsFiniteSet(Slots(p)') /\ Cardinality(Slots(p)') <= Cardinality(Slots(p))
  BY <1>1, FS_Subset
<1>3. Cardinality(Slots(p)) \in Nat /\ Cardinality(Slots(p)') \in Nat /\ Concurrency \in Nat
  BY <1>1, <1>2, FS_CardinalityType, JobQueueAssumption
<1> QED BY <1>1, <1>2, <1>3

\* What an execution takes of a process's slots.
LEMMA SlotsView ==
  ASSUME NEW p, NEW t \in Token
  PROVE  t \in Slots(p) <=> /\ exec[t].proc = p
                            /\ \/ exec[t].st = "claimed"
                               \/ /\ exec[t].st \in {"running", "finished", "released"}
                                  /\ exec[t].res # "nohandler"
  BY DEF Slots, Running

\* The running counter never passes the limit, a claim in flight included.
LEMMA NextSlots == Steady /\ TypeOK /\ RecordInv /\ SlotInv /\ [Next]_vars => SlotInv'
<1> SUFFICES ASSUME Steady, TypeOK, RecordInv, SlotInv, [Next]_vars PROVE SlotInv'
  OBVIOUS
<1>v. \A p \in Proc : \A t \in Token :
         t \in Slots(p)' <=> /\ exec'[t].proc = p
                             /\ \/ exec'[t].st = "claimed"
                                \/ /\ exec'[t].st \in {"running", "finished", "released"}
                                   /\ exec'[t].res # "nohandler"
  BY DEF Slots, Running
<1>s. \A p \in Proc : Slots(p) \subseteq Token /\ Slots(p)' \subseteq Token
  BY DEF Slots, Running
<1>1. ASSUME exec' = exec PROVE SlotInv'
  <2>1. \A p \in Proc : Slots(p)' = Slots(p)
    BY <1>1 DEF Slots, Running
  <2>2. \A p \in Proc : IsFiniteSet(Slots(p)') /\ Cardinality(Slots(p)') <= Concurrency
    BY <2>1 DEF SlotInv
  <2> QED BY <1>1, <2>2 DEF SlotInv
<1>2. ASSUME NEW t \in Token, WorkerStep(t) PROVE SlotInv'
  <2>1. /\ \A u \in Token \ {t} : exec'[u] = exec[u]
        /\ exec'[t].proc = exec[t].proc
        /\ \/ exec[t].st = "claimed" /\ exec'[t].st = "running" /\ exec'[t].res = exec[t].res
           \/ exec[t].st = "claimed" /\ exec'[t].st = "finished" /\ exec'[t].res = "nohandler"
           \/ exec[t].st = "running" /\ exec'[t].st = "finished"
           \/ exec[t].st = "finished" /\ exec'[t].st = "released" /\ exec'[t].res = exec[t].res
           \/ exec[t].st = "released" /\ exec'[t].st = "done"
    BY <1>2, SteadyWorker
  <2>2. \A u \in Token : exec[u].st \in {"claimed", "running"} => exec[u].res # "nohandler"
    BY DEF SlotInv
  <2>3. \A p \in Proc : Slots(p)' \subseteq Slots(p)
    <3> SUFFICES ASSUME NEW p \in Proc, NEW u \in Token, u \in Slots(p)' PROVE u \in Slots(p)
      BY <1>s
    <3>1. CASE u = t
      BY <1>v, <2>1, <2>2, <3>1, SlotsView
    <3>2. CASE u # t
      BY <1>v, <2>1, <3>2, SlotsView
    <3> QED BY <3>1, <3>2
  <2>4. \A u \in Token : exec'[u].st \in {"claimed", "running"} => exec'[u].res # "nohandler"
    BY <2>1, <2>2
  <2> QED BY <2>3, <2>4, SlotsShrink DEF SlotInv
<1>3. ASSUME NEW p \in Proc, NEW t \in Token, ClaimNext(p, t) PROVE SlotInv'
  <2>1. /\ exec[t] = Unused /\ exec'[t].st = "claimed" /\ exec'[t].res = "none" /\ exec'[t].proc = p
        /\ \A u \in Token \ {t} : exec'[u] = exec[u]
    BY <1>3, ClaimView
  <2>2. \A u \in Token : exec'[u].st \in {"claimed", "running"} => exec'[u].res # "nohandler"
    BY <2>1 DEF SlotInv
  <2>3. ASSUME NEW q \in Proc
        PROVE  IsFiniteSet(Slots(q)') /\ Cardinality(Slots(q)') <= Concurrency
    <3>1. CASE q # p
      <4>1. Slots(q)' \subseteq Slots(q)
        <5> SUFFICES ASSUME NEW u \in Token, u \in Slots(q)' PROVE u \in Slots(q)
          BY <1>s
        <5>1. u # t
          BY <1>v, <2>1, <3>1
        <5> QED BY <1>v, <2>1, <5>1, SlotsView
      <4> QED BY <4>1, SlotsShrink
    <3>2. CASE q = p
      <4>1. ~LoopBusy(p) /\ Cardinality(Running(p)) < Concurrency
        BY <1>3 DEF ClaimNext, LoopReady
      <4>2. Slots(p) = Running(p)
        BY <4>1 DEF LoopBusy, Slots
      <4>3. Slots(p)' = Slots(p) \cup {t}
        <5>1. \A u \in Token \ {t} : u \in Slots(p)' <=> u \in Slots(p)
          BY <1>v, <2>1, SlotsView
        <5>2. t \in Slots(p)'
          BY <1>v, <2>1
        <5> QED BY <1>s, <5>1, <5>2
      <4>4. IsFiniteSet(Slots(p)) /\ t \notin Slots(p)
        BY <2>1, SlotsView DEF SlotInv, Unused
      <4>5. IsFiniteSet(Slots(p)') /\ Cardinality(Slots(p)') = Cardinality(Slots(p)) + 1
        BY <4>3, <4>4, FS_AddElement
      <4>6. Cardinality(Slots(p)) \in Nat /\ Cardinality(Slots(p)) < Concurrency
        BY <4>1, <4>2, <4>4, FS_CardinalityType
      <4> QED BY <3>2, <4>5, <4>6, JobQueueAssumption
    <3> QED BY <3>1, <3>2
  <2> QED BY <2>2, <2>3 DEF SlotInv
<1>4. ASSUME NEW p \in Proc, Crash(p) PROVE SlotInv'
  <2>1. \A u \in Token : exec'[u] = exec[u] \/ exec'[u].st = "dead"
    BY <1>4, CrashView
  <2>2. \A q \in Proc : Slots(q)' \subseteq Slots(q)
    BY <1>v, <1>s, <2>1, SlotsView
  <2>3. \A u \in Token : exec'[u].st \in {"claimed", "running"} => exec'[u].res # "nohandler"
    BY <2>1 DEF SlotInv
  <2> QED BY <2>2, <2>3, SlotsShrink DEF SlotInv
<1>5. ASSUME NEW p \in Proc, ProcStep(p) PROVE SlotInv'
  <2>1. ~Fault
    BY SteadySteps
  <2>2. \/ exec' = exec \/ \E t \in Token : ClaimNext(p, t)
        \/ Crash(p)
    BY <1>5, <2>1 DEF ProcStep, Enqueue, EnqueueReplyLost, DrainEnd, ClaimConflict, ClaimReplyLost,
       TimerFires, TimerPushErrs, ReclaimScan, ReclaimSkip, ReclaimRead, ReclaimTake, ReclaimReplyLost,
       Close, CloseEnd, Restart, redisVars
  <2> QED BY <1>1, <1>3, <1>4, <2>2
<1>6. ASSUME NEW j \in Job, Expire(j) \/ WaitTimeout(j) PROVE SlotInv'
  BY <1>1, <1>6 DEF Expire, WaitTimeout
<1>7. CASE UNCHANGED vars
  BY <1>1, <1>7 DEF vars
<1> QED BY <1>2, <1>5, <1>6, <1>7 DEF Next

\* Everything about every job.
LEMMA EveryJob == JobInv <=> \A j \in Job : JobFine(j)
  BY DEF JobInv, JobFine

\* A job claimed by a worker that is not done with it is nowhere else.
LEMMA ClaimOnly ==
  ASSUME NEW j \in Job, JobFine(j), NEW t \in Claims(j), Active(t)
  PROVE  /\ ListedTries(pending, j) = {} /\ ListedOnce(pending, j) /\ ~InTimer(j)
         /\ \A u \in Claims(j) : Active(u) => u = t
         /\ outcomes[j] = {} /\ owner[j] # NoProc
         /\ exec[t].attempts < MaxAttempts /\ Cardinality(Claims(j)) <= exec[t].attempts + 1
<1>1. InClaim(j)
  BY DEF InClaim
<1> QED BY <1>1 DEF JobFine, OnePlace, Counted, InList

\* A step that makes no copy of any job, and decides nothing.
LEMMA QuietJobs ==
  ASSUME JobInv, pending' = pending, outcomes' = outcomes, owner' = owner,
         \A p \in Proc : timers'[p] \subseteq timers[p],
         \A t \in Token : exec'[t].id = exec[t].id /\ exec'[t].attempts = exec[t].attempts,
         \A t \in Token : Active(t)' => Active(t)
  PROVE  JobInv'
<1>1. ASSUME NEW j \in Job PROVE JobFine(j)'
  <2>1. JobFine(j)
    BY EveryJob
  <2>2. Claims(j)' = Claims(j)
    BY DEF Claims
  <2>3. \A t \in Claims(j) : exec'[t].attempts = exec[t].attempts /\ (Active(t)' => Active(t))
    BY DEF Claims
  <2>4. ListedOnce(pending', j) /\ ListedTries(pending', j) \subseteq ListedTries(pending, j)
    BY <2>1 DEF JobFine, OnePlace
  <2>5. \A p \in Proc : \A r \in timers'[p] : r.id = j => r \in timers[p]
    OBVIOUS
  <2> QED BY <2>1, <2>2, <2>3, <2>4, <2>5, JobStays
<1>2. \A j \in Job : JobFine(j)'
  BY <1>1
<1> QED BY <1>2 DEF JobInv, JobFine

\* An accepted job was nowhere before.
LEMMA EnqueueJobs ==
  ASSUME TypeOK, JobInv, NEW p \in Proc, NEW i \in Job, Enqueue(p, i)
  PROVE  JobInv'
<1> DEFINE e == [id |-> i, attempts |-> 0]
<1>1. /\ owner[i] = NoProc /\ pending' = Append(pending, e) /\ pending \in Seq(Entry) /\ e \in Entry
      /\ exec' = exec /\ processing' = processing /\ timers' = timers /\ outcomes' = outcomes
      /\ owner' = [owner EXCEPT ![i] = p] /\ owner \in [Job -> Proc \cup {NoProc}]
  BY DEF Enqueue, Accepts, TypeOK, Entry
<1>2. /\ owner'[i] # NoProc
      /\ \A j \in Job : j # i => owner'[j] = owner[j]
  BY <1>1, JobQueueAssumption
<1>3. e.id = i /\ e.attempts = 0
  OBVIOUS
<1> HIDE DEF e
<1>4. \A j \in Job : Claims(j)' = Claims(j)
  BY <1>1 DEF Claims
<1>5. \A t \in Token : Active(t)' = Active(t)
  BY <1>1 DEF Active, Busy, HasRecord
<1>6. ASSUME NEW j \in Job PROVE JobFine(j)'
  <2>1. JobFine(j)
    BY EveryJob
  <2>2. CASE j # i
    <3>1. ListedTries(pending', j) = ListedTries(pending, j) /\ ListedOnce(pending', j)
      BY <1>1, <1>3, <2>1, <2>2, TriesAppend DEF JobFine, OnePlace
    <3>2. \A t \in Claims(j) : exec'[t].attempts = exec[t].attempts /\ (Active(t)' => Active(t))
      BY <1>1, <1>5 DEF Claims
    <3>3. \A q \in Proc : \A r \in timers'[q] : r.id = j => r \in timers[q]
      BY <1>1
    <3> QED BY <1>1, <1>2, <1>4, <2>1, <2>2, <3>1, <3>2, <3>3, JobStays
  <2>3. CASE j = i
    <3>1. ~InList(i) /\ ~InTimer(i) /\ ~InClaim(i) /\ outcomes[i] = {} /\ Claims(i) = {}
      BY <1>1, <2>1, <2>3 DEF JobFine, OnePlace, Ended
    <3>2. ListedTries(pending, i) = {}
      BY <3>1 DEF InList
    <3>3. ListedTries(pending', i) = {0} /\ ListedOnce(pending', i)
      BY <1>1, <1>3, <3>2, TriesAppend
    <3>4. Fits(i, 0)
      BY <3>1, FS_EmptySet, JobQueueAssumption DEF Fits
    <3>5. ~InTimer(i)' /\ ~InClaim(i)'
      BY <1>1, <1>4, <3>1 DEF InTimer, InClaim
    <3> QED BY <1>1, <1>2, <1>4, <2>1, <2>3, <3>1, <3>3, <3>4, <3>5, JobListed
  <2> QED BY <2>2, <2>3
<1> QED BY <1>6 DEF JobInv, JobFine

\* A copy that waited in a timer goes to the list, or is failed.
LEMMA FireJobs ==
  ASSUME TypeOK, JobInv, NEW p \in Proc, NEW r \in timers[p], TimerFires(p, r)
  PROVE  JobInv'
<1> DEFINE i == r.id
           e == [id |-> r.id, attempts |-> r.attempts]
<1>1. /\ i \in Job /\ e \in Entry /\ e.id = i /\ e.attempts = r.attempts /\ pending \in Seq(Entry)
      /\ timers \in [Proc -> SUBSET Timer] /\ timers' = [timers EXCEPT ![p] = @ \ {r}]
      /\ exec' = exec /\ processing' = processing /\ owner' = owner
      /\ \/ pending' = pending /\ outcomes' = [outcomes EXCEPT ![i] = @ \cup {"failed"}]
         \/ pending' = Append(pending, e) /\ outcomes' = outcomes
  BY DEF TypeOK, Timer, Entry, TimerFires, Mark
<1> HIDE DEF e
<1>2. \A j \in Job : Claims(j)' = Claims(j)
  BY <1>1 DEF Claims
<1>3. \A t \in Token : Active(t)' = Active(t)
  BY <1>1 DEF Active, Busy, HasRecord
<1>4. JobFine(i)
  BY <1>1, EveryJob
<1>5. InTimer(i)
  BY DEF InTimer
<1>6. /\ ListedTries(pending, i) = {} /\ ListedOnce(pending, i) /\ ~InClaim(i)
      /\ outcomes[i] = {} /\ owner[i] # NoProc /\ Fits(i, r.attempts)
  BY <1>4, <1>5 DEF JobFine, OnePlace, Counted, InList
<1>7. /\ \A q \in Proc : timers'[q] \subseteq timers[q]
      /\ r \notin timers'[p]
  BY <1>1
<1>8. ~InTimer(i)' /\ ~InClaim(i)'
  <2>1. ASSUME NEW q \in Proc, NEW s \in timers'[q], s.id = i PROVE FALSE
    <3>1. s \in timers[q]
      BY <1>7
    <3>2. q = p /\ s = r
      BY <1>4, <2>1, <3>1 DEF JobFine, OnePlace
    <3> QED BY <1>7, <3>2
  <2>2. ~InTimer(i)'
    BY <2>1 DEF InTimer
  <2>3. ~InClaim(i)'
    BY <1>1, <1>2, <1>3, <1>6 DEF InClaim, Claims
  <2> QED BY <2>2, <2>3
<1>9. ASSUME NEW j \in Job PROVE JobFine(j)'
  <2>1. JobFine(j)
    BY EveryJob
  <2>2. CASE j # i
    <3>1. ListedTries(pending', j) = ListedTries(pending, j) /\ ListedOnce(pending', j)
      <4>1. ListedOnce(pending, j)
        BY <2>1 DEF JobFine, OnePlace
      <4>2. CASE pending' = pending
        BY <4>1, <4>2
      <4>3. CASE pending' = Append(pending, e)
        BY <1>1, <2>2, <4>1, <4>3, TriesAppend
      <4> QED BY <1>1, <4>2, <4>3
    <3>2. \A t \in Claims(j) : exec'[t].attempts = exec[t].attempts /\ (Active(t)' => Active(t))
      BY <1>1, <1>3 DEF Claims
    <3>3. \A q \in Proc : \A s \in timers'[q] : s.id = j => s \in timers[q]
      BY <1>7
    <3>4. outcomes'[j] = outcomes[j]
      BY <1>1, <2>2 DEF TypeOK
    <3> QED BY <1>1, <1>2, <2>1, <3>1, <3>2, <3>3, <3>4, JobStays
  <2>3. CASE j = i /\ pending' = pending /\ outcomes' = [outcomes EXCEPT ![i] = @ \cup {"failed"}]
    <3>1. outcomes'[i] = {"failed"}
      BY <1>1, <1>6, <2>3 DEF TypeOK
    <3>2. ListedTries(pending', i) = {} /\ ListedOnce(pending', i)
      BY <1>6, <2>3
    <3>3. owner'[i] # NoProc /\ ~({"completed", "failed"} \subseteq outcomes'[i])
      BY <1>1, <1>6, <3>1
    <3> QED BY <1>1, <1>2, <1>4, <1>8, <2>3, <3>2, <3>3, JobEnds
  <2>4. CASE j = i /\ pending' = Append(pending, e) /\ outcomes' = outcomes
    <3>1. ListedTries(pending', i) = {r.attempts} /\ ListedOnce(pending', i)
      BY <1>1, <1>6, <2>4, TriesAppend
    <3>2. outcomes'[i] = {} /\ owner'[i] # NoProc
      BY <1>1, <1>6, <2>4
    <3> QED BY <1>1, <1>2, <1>4, <1>6, <1>8, <2>4, <3>1, <3>2, JobListed
  <2> QED BY <1>1, <2>2, <2>3, <2>4
<1> QED BY <1>9 DEF JobInv, JobFine

\* A copy that cannot be claimed goes to the end of the list.
LEMMA ConflictJobs ==
  ASSUME TypeOK, JobInv, NEW p \in Proc, ClaimConflict(p)
  PROVE  JobInv'
<1>1. /\ pending \in Seq(Entry) /\ pending # <<>> /\ pending' = Append(Tail(pending), Head(pending))
      /\ exec' = exec /\ processing' = processing /\ timers' = timers
      /\ outcomes' = outcomes /\ owner' = owner
  BY DEF TypeOK, ClaimConflict
<1>2. Head(pending) \in Entry /\ Tail(pending) \in Seq(Entry)
  BY <1>1, TriesTail
<1>3. ASSUME NEW j \in Job PROVE JobFine(j)'
  <2>1. JobFine(j) /\ ListedOnce(pending, j)
    BY EveryJob DEF JobFine, OnePlace
  <2>2. ListedOnce(pending', j) /\ ListedTries(pending', j) \subseteq ListedTries(pending, j)
    <3>1. CASE j # Head(pending).id
      <4>1. ListedTries(Tail(pending), j) = ListedTries(pending, j) /\ ListedOnce(Tail(pending), j)
        BY <1>1, <2>1, <3>1, TriesTail
      <4> QED BY <1>1, <1>2, <3>1, <4>1, TriesAppend
    <3>2. CASE j = Head(pending).id
      <4>1. /\ Head(pending).attempts \in ListedTries(pending, j)
            /\ ListedTries(Tail(pending), j) = {}
        BY <1>1, <2>1, <3>2, TriesTail
      <4>2. ListedTries(pending', j) = {Head(pending).attempts} /\ ListedOnce(pending', j)
        BY <1>1, <1>2, <3>2, <4>1, TriesAppend
      <4> QED BY <4>1, <4>2
    <3> QED BY <3>1, <3>2
  <2>3. Claims(j)' = Claims(j)
    BY <1>1 DEF Claims
  <2>4. \A t \in Claims(j) : exec'[t].attempts = exec[t].attempts /\ (Active(t)' => Active(t))
    BY <1>1 DEF Active, Busy, HasRecord
  <2>5. \A q \in Proc : \A s \in timers'[q] : s.id = j => s \in timers[q]
    BY <1>1
  <2> QED BY <1>1, <2>1, <2>2, <2>3, <2>4, <2>5, JobStays
<1> QED BY <1>3 DEF JobInv, JobFine

\* The first copy of the list goes to a worker.
LEMMA ClaimJobs ==
  ASSUME TypeOK, RecordInv, JobInv, NEW p \in Proc, NEW t \in Token, ClaimNext(p, t)
  PROVE  JobInv'
<1>0. PICK h \in Entry, i \in Job : h = Head(pending) /\ i = h.id
  BY ClaimView DEF Entry
<1>1. /\ pending # <<>> /\ pending' = Tail(pending) /\ h \in Entry /\ i \in Job
      /\ pending \in Seq(Entry) /\ h.attempts \in Nat
  BY <1>0, ClaimView DEF Entry, TypeOK
<1>2. /\ exec[t].id \notin Job /\ exec'[t].id = i /\ exec'[t].attempts = h.attempts
      /\ \A u \in Token \ {t} : exec'[u] = exec[u]
  <2>1. /\ exec[t].id \notin Job /\ \A u \in Token \ {t} : exec'[u] = exec[u]
        /\ exec'[t].id = Head(pending).id /\ exec'[t].attempts = Head(pending).attempts
    BY ClaimView
  <2> QED BY <1>0, <2>1
<1>3. /\ processing[i] = NoRec /\ processing'[i].token = t
      /\ \A j \in Job : j # i => processing'[j] = processing[j]
  BY <1>0, ClaimView
<1>4. timers' = timers /\ owner' = owner /\ outcomes' = outcomes
  BY ClaimView
<1>5. \A j \in Job : t \notin Claims(j)
  BY <1>2 DEF Claims
<1>6. ASSUME NEW u \in Token, u # t, exec[u].id \in Job, Active(u)' PROVE Active(u)
  <2>1. exec'[u] = exec[u]
    BY <1>2, <1>6
  <2>2. CASE Busy(u)'
    BY <2>1, <2>2 DEF Active, Busy
  <2>3. CASE exec'[u].st = "dead" /\ HasRecord(u)'
    <3>1. exec[u].id # i
      BY <1>3, <1>6, <2>1, <2>3 DEF HasRecord
    <3>2. HasRecord(u)
      BY <1>3, <1>6, <2>1, <2>3, <3>1 DEF HasRecord
    <3> QED BY <2>1, <2>3, <3>2 DEF Active
  <2> QED BY <1>6, <2>2, <2>3 DEF Active
<1>7. ASSUME NEW j \in Job PROVE JobFine(j)'
  <2>1. JobFine(j) /\ ListedOnce(pending, j)
    BY EveryJob DEF JobFine, OnePlace
  <2>2. CASE j # i
    <3>1. ListedTries(pending', j) = ListedTries(pending, j) /\ ListedOnce(pending', j)
      BY <1>1, <2>1, <2>2, <1>0, TriesTail
    <3>2. Claims(j)' = Claims(j)
      BY <1>2, <2>2 DEF Claims
    <3>3. \A u \in Claims(j) : exec'[u].attempts = exec[u].attempts /\ (Active(u)' => Active(u))
      <4>1. \A u \in Claims(j) : u \in Token /\ u # t /\ exec[u].id \in Job
        BY <1>5 DEF Claims
      <4> QED BY <1>2, <1>6, <4>1
    <3>4. \A q \in Proc : \A s \in timers'[q] : s.id = j => s \in timers[q]
      BY <1>4
    <3> QED BY <1>4, <2>1, <3>1, <3>2, <3>3, <3>4, JobStays
  <2>3. CASE j = i
    <3>1. /\ h.attempts \in ListedTries(pending, i)
          /\ ListedTries(pending', i) = {} /\ ListedOnce(pending', i)
      BY <1>1, <2>1, <2>3, <1>0, TriesTail
    <3>2. ~InTimer(i) /\ ~InClaim(i) /\ outcomes[i] = {} /\ owner[i] # NoProc
      <4>1. InList(i)
        BY <3>1 DEF InList
      <4> QED BY <2>1, <2>3, <4>1 DEF JobFine, OnePlace
    <3>3. Claims(i)' = Claims(i) \cup {t}
      BY <1>2 DEF Claims
    <3>4. \A u \in Claims(i) : ~Active(u)'
      <4>1. \A u \in Claims(i) : u \in Token /\ u # t /\ exec[u].id \in Job
        BY <1>1, <1>5 DEF Claims
      <4> QED BY <1>6, <3>2, <4>1 DEF InClaim
    <3>5. ~InTimer(i)'
      BY <1>4, <3>2 DEF InTimer
    <3>6. /\ t \notin Claims(i) /\ exec'[t].attempts \in ListedTries(pending, i)
          /\ exec'[t].attempts \in Nat
      BY <1>1, <1>2, <1>5, <3>1
    <3>7. outcomes'[i] = {} /\ owner'[i] # NoProc
      BY <1>4, <3>2
    <3>8. JobFine(i) /\ i \in Job
      BY <2>1, <2>3
    <3> QED BY <2>3, <3>1, <3>3, <3>4, <3>5, <3>6, <3>7, <3>8, JobClaimed
  <2> QED BY <2>2, <2>3
<1> QED BY <1>7 DEF JobInv, JobFine

\* A worker, or the reclaim of a dead one, gives its job up: the job ends, or a
\* timer takes a copy that counts one attempt more.
LEMMA GiveUpJobs ==
  ASSUME TypeOK, JobInv, NEW t \in Token, NEW i \in Job, t \in Claims(i), Active(t), ~Active(t)',
         NEW p \in Proc, pending' = pending, owner' = owner,
         \A u \in Token : exec'[u].id = exec[u].id /\ exec'[u].attempts = exec[u].attempts,
         \A u \in Token : Active(u)' => Active(u),
         \/ /\ timers' = timers
            /\ \E m : outcomes' = [outcomes EXCEPT ![i] = @ \cup m] /\ ~({"completed", "failed"} \subseteq m)
         \/ /\ outcomes' = outcomes
            /\ \E r : /\ timers' = [timers EXCEPT ![p] = @ \cup {r}]
                      /\ r.id = i /\ r.attempts = exec[t].attempts + 1 /\ r.attempts < MaxAttempts
  PROVE  JobInv'
<1>1. JobFine(i)
  BY EveryJob
<1>2. /\ ListedTries(pending, i) = {} /\ ListedOnce(pending, i) /\ ~InTimer(i)
      /\ \A u \in Claims(i) : Active(u) => u = t
      /\ outcomes[i] = {} /\ owner[i] # NoProc
      /\ exec[t].attempts < MaxAttempts /\ Cardinality(Claims(i)) <= exec[t].attempts + 1
  BY <1>1, ClaimOnly
<1>3. \A j \in Job : Claims(j)' = Claims(j)
  BY DEF Claims
<1>4. ~InClaim(i)'
  <2>1. ASSUME NEW u \in Claims(i), Active(u)' PROVE FALSE
    <3>1. u \in Token
      BY DEF Claims
    <3>2. u = t
      BY <1>2, <2>1, <3>1
    <3> QED BY <2>1, <3>2
  <2> QED BY <1>3, <2>1 DEF InClaim
<1>5. ASSUME NEW j \in Job, j # i, outcomes'[j] = outcomes[j],
             \A q \in Proc : \A s \in timers'[q] : s.id = j => s \in timers[q]
      PROVE  JobFine(j)'
  <2>1. JobFine(j)
    BY EveryJob
  <2>2. ListedOnce(pending', j) /\ ListedTries(pending', j) \subseteq ListedTries(pending, j)
    BY <2>1 DEF JobFine, OnePlace
  <2>3. \A u \in Claims(j) : exec'[u].attempts = exec[u].attempts /\ (Active(u)' => Active(u))
    BY DEF Claims
  <2> QED BY <1>3, <1>5, <2>1, <2>2, <2>3, JobStays
<1>6. ASSUME NEW m, timers' = timers, outcomes' = [outcomes EXCEPT ![i] = @ \cup m],
             ~({"completed", "failed"} \subseteq m)
      PROVE  \A j \in Job : JobFine(j)'
  <2>1. outcomes'[i] = m /\ \A j \in Job : j # i => outcomes'[j] = outcomes[j]
    BY <1>2, <1>6 DEF TypeOK
  <2>2. ~InTimer(i)'
    BY <1>2, <1>6 DEF InTimer
  <2>3. ListedTries(pending', i) = {} /\ ListedOnce(pending', i) /\ owner'[i] # NoProc
    BY <1>2
  <2>4. ~({"completed", "failed"} \subseteq outcomes'[i])
    BY <1>6, <2>1
  <2>5. JobFine(i)'
    BY <1>1, <1>3, <1>4, <2>2, <2>3, <2>4, JobEnds
  <2> QED BY <1>5, <1>6, <2>1, <2>5
<1>7. ASSUME NEW r, outcomes' = outcomes, timers' = [timers EXCEPT ![p] = @ \cup {r}],
             r.id = i, r.attempts = exec[t].attempts + 1, r.attempts < MaxAttempts
      PROVE  \A j \in Job : JobFine(j)'
  <2>1. /\ r \in timers'[p]
        /\ \A q \in Proc : \A s \in timers'[q] : s \in timers[q] \/ (q = p /\ s = r)
    BY <1>7 DEF TypeOK
  <2>2. \A q \in Proc : \A s \in timers'[q] : s.id = i => q = p /\ s = r
    BY <1>2, <2>1 DEF InTimer
  <2>3. Fits(i, r.attempts)
    BY <1>2, <1>7 DEF Fits
  <2>4. /\ ListedTries(pending', i) = {} /\ ListedOnce(pending', i)
        /\ outcomes'[i] = {} /\ owner'[i] # NoProc
    BY <1>2, <1>7
  <2>5. JobFine(i)'
    BY <1>1, <1>3, <1>4, <1>7, <2>1, <2>2, <2>3, <2>4, JobTimed
  <2>6. ASSUME NEW j \in Job, j # i PROVE JobFine(j)'
    <3>1. \A q \in Proc : \A s \in timers'[q] : s.id = j => s \in timers[q]
      BY <1>7, <2>1, <2>6
    <3> QED BY <1>5, <1>7, <2>6, <3>1
  <2> QED BY <2>5, <2>6
<1>8. \A j \in Job : JobFine(j)'
  BY <1>6, <1>7
<1> QED BY <1>8 DEF JobInv, JobFine

\* A claim that a step does not make is not made active by a hash that only loses records.
LEMMA ActiveStays ==
  ASSUME NEW t \in Token, exec'[t].id = exec[t].id, exec'[t].st = exec[t].st,
         processing'[exec[t].id] # NoRec =>
             processing[exec[t].id] # NoRec /\ processing'[exec[t].id].token = processing[exec[t].id].token,
         Active(t)'
  PROVE  Active(t)
<1>1. CASE Busy(t)'
  BY <1>1 DEF Active, Busy
<1>2. CASE exec'[t].st = "dead" /\ HasRecord(t)'
  BY <1>2 DEF Active, HasRecord
<1> QED BY <1>1, <1>2 DEF Active

\* An execution that has or gets a claim has a job.
LEMMA ActiveClaimed ==
  ASSUME TypeOK, NEW t \in Token, Active(t) \/ (exec'[t] = exec[t] /\ Active(t)')
  PROVE  exec[t].id \in Job
<1>1. exec[t].st # "unused"
  BY DEF Active, Busy
<1> QED BY <1>1, ClaimedExec DEF Claimed

\* A worker's step makes no copy of another job.
LEMMA WorkerJobs ==
  ASSUME Steady, TypeOK, RecordInv, JobInv, NEW t \in Token, WorkerStep(t)
  PROVE  JobInv'
<1>1. /\ exec[t] \in Claimed
      /\ \A u \in Token \ {t} : exec'[u] = exec[u]
      /\ exec'[t].id = exec[t].id /\ exec'[t].attempts = exec[t].attempts
      /\ pending' = pending /\ owner' = owner
      /\ \/ /\ exec[t].st \in {"claimed", "running", "finished"}
            /\ exec'[t].st \in {"running", "finished", "released"}
            /\ timers' = timers /\ outcomes' = outcomes
            /\ processing' = processing \/ processing' = [processing EXCEPT ![exec[t].id] = NoRec]
         \/ /\ exec[t].st = "released" /\ exec'[t].st = "done" /\ processing' = processing
            /\ AfterSuccess(t) \/ AfterFailureRetry(t) \/ AfterFailureTerminal(t)
  BY SteadyWorker
<1>2. exec[t].id \in Job /\ exec[t].proc \in Proc /\ exec[t].attempts \in Nat
  BY <1>1 DEF Claimed
<1>3. Active(t)
  BY <1>1 DEF Active, Busy
<1>4. \A j \in Job : processing'[j] # NoRec => processing'[j] = processing[j]
  BY <1>1, <1>2 DEF TypeOK
<1>5. \A u \in Token : Active(u)' => Active(u)
  <2> SUFFICES ASSUME NEW u \in Token, Active(u)' PROVE Active(u)
    OBVIOUS
  <2>1. CASE u = t
    BY <1>3, <2>1
  <2>2. CASE u # t
    <3>1. exec'[u] = exec[u]
      BY <1>1, <2>2
    <3>2. exec[u].id \in Job
      BY <3>1, ActiveClaimed
    <3> QED BY <1>4, <3>1, <3>2, ActiveStays
  <2> QED BY <2>1, <2>2
<1>6. \A u \in Token : exec'[u].id = exec[u].id /\ exec'[u].attempts = exec[u].attempts
  BY <1>1
<1>7. CASE timers' = timers /\ outcomes' = outcomes
  BY <1>1, <1>5, <1>6, <1>7, QuietJobs
<1>8. CASE exec'[t].st = "done" /\ (AfterSuccess(t) \/ AfterFailureRetry(t) \/ AfterFailureTerminal(t))
  <2>1. t \in Claims(exec[t].id)
    BY DEF Claims
  <2>2. ~Active(t)'
    BY <1>8 DEF Active, Busy
  <2>3. \/ /\ timers' = timers
           /\ \E m : /\ outcomes' = [outcomes EXCEPT ![exec[t].id] = @ \cup m]
                     /\ ~({"completed", "failed"} \subseteq m)
        \/ /\ outcomes' = outcomes
           /\ \E r : /\ timers' = [timers EXCEPT ![exec[t].proc] = @ \cup {r}]
                     /\ r.id = exec[t].id /\ r.attempts = exec[t].attempts + 1
                     /\ r.attempts < MaxAttempts
    <3>1. CASE AfterSuccess(t)
      <4>1. ~({"completed", "failed"} \subseteq {"completed"})
        OBVIOUS
      <4> QED BY <3>1, <4>1 DEF AfterSuccess, Mark
    <3>2. CASE AfterFailureTerminal(t)
      <4> DEFINE d == IF exec[t].res = "err" /\ exec[t].id \in Retryable /\ exec[t].attempts + 1 >= MaxAttempts
                      THEN {"dead_letter"} ELSE {}
      <4>1. ~({"completed", "failed"} \subseteq ({"failed"} \cup d))
        OBVIOUS
      <4>2. timers' = timers /\ outcomes' = [outcomes EXCEPT ![exec[t].id] = @ \cup ({"failed"} \cup d)]
        BY <3>2 DEF AfterFailureTerminal, Mark
      <4> QED BY <4>1, <4>2
    <3>3. CASE AfterFailureRetry(t)
      <4> DEFINE r == [id |-> exec[t].id, attempts |-> exec[t].attempts + 1, token |-> t, src |-> "failure"]
      <4>1. outcomes' = outcomes /\ timers' = [timers EXCEPT ![exec[t].proc] = @ \cup {r}]
        BY <3>3 DEF AfterFailureRetry
      <4>2. exec[t].attempts + 1 < MaxAttempts
        BY <3>3 DEF AfterFailureRetry, MayRetry
      <4>3. r.id = exec[t].id /\ r.attempts = exec[t].attempts + 1
        OBVIOUS
      <4> QED BY <4>1, <4>2, <4>3
    <3> QED BY <1>8, <3>1, <3>2, <3>3
  <2> QED BY <1>1, <1>2, <1>3, <1>5, <1>6, <2>1, <2>2, <2>3, GiveUpJobs
<1> QED BY <1>1, <1>7, <1>8

\* A reclaim gives up the job of a dead worker.
LEMMA TakeJobs ==
  ASSUME TypeOK, RecordInv, JobInv, NEW p \in Proc, NEW s \in stale[p], ReclaimTake(p, s)
  PROVE  JobInv'
<1>1. /\ s.id \in Job /\ s.token \in Token
      /\ processing[s.id] # NoRec /\ processing[s.id].token = s.token
      /\ exec[s.token].st = "dead" /\ exec[s.token].id = s.id /\ s.attempts = exec[s.token].attempts
      /\ exec' = exec /\ pending' = pending /\ owner' = owner
      /\ processing' = [processing EXCEPT ![s.id] = NoRec]
  BY TakeView
<1>2. s.token \in Claims(s.id) /\ Active(s.token)
  BY <1>1 DEF Claims, Active, HasRecord
<1>3. processing'[s.id] = NoRec /\ \A j \in Job : processing'[j] # NoRec => processing'[j] = processing[j]
  BY <1>1 DEF TypeOK
<1>4. ~Active(s.token)'
  BY <1>1, <1>3 DEF Active, Busy, HasRecord
<1>5. \A u \in Token : Active(u)' => Active(u)
  <2> SUFFICES ASSUME NEW u \in Token, Active(u)' PROVE Active(u)
    OBVIOUS
  <2>1. exec[u].id \in Job
    BY <1>1, ActiveClaimed
  <2> QED BY <1>1, <1>3, <2>1, ActiveStays
<1>6. \/ /\ timers' = timers
         /\ \E m : outcomes' = [outcomes EXCEPT ![s.id] = @ \cup m] /\ ~({"completed", "failed"} \subseteq m)
      \/ /\ outcomes' = outcomes
         /\ \E r : /\ timers' = [timers EXCEPT ![p] = @ \cup {r}]
                   /\ r.id = s.id /\ r.attempts = exec[s.token].attempts + 1 /\ r.attempts < MaxAttempts
  <2>1. CASE MayRetry(p, s.id, s.attempts + 1)
    <3> DEFINE r == [id |-> s.id, attempts |-> s.attempts + 1, token |-> s.token, src |-> "reclaim"]
    <3>1. outcomes' = outcomes /\ timers' = [timers EXCEPT ![p] = @ \cup {r}]
      BY <2>1 DEF ReclaimTake
    <3>2. r.id = s.id /\ r.attempts = exec[s.token].attempts + 1 /\ r.attempts < MaxAttempts
      BY <1>1, <2>1 DEF MayRetry
    <3> QED BY <3>1, <3>2
  <2>2. CASE ~MayRetry(p, s.id, s.attempts + 1)
    <3>1. timers' = timers /\ outcomes' = [outcomes EXCEPT ![s.id] = @ \cup {"failed", "dead_letter"}]
      BY <2>2 DEF ReclaimTake, Mark
    <3>2. ~({"completed", "failed"} \subseteq {"failed", "dead_letter"})
      OBVIOUS
    <3> QED BY <3>1, <3>2
  <2> QED BY <2>1, <2>2
<1>7. \A u \in Token : exec'[u].id = exec[u].id /\ exec'[u].attempts = exec[u].attempts
  BY <1>1
<1> QED BY <1>1, <1>2, <1>4, <1>5, <1>6, <1>7, GiveUpJobs

\* A crash keeps the claims whose records are in the hash, and no others.
LEMMA CrashJobs ==
  ASSUME TypeOK, JobInv, NEW p \in Proc, Crash(p)
  PROVE  JobInv'
<1>1. pending' = pending /\ processing' = processing /\ owner' = owner /\ outcomes' = outcomes
  BY DEF Crash, redisVars
<1>2. \A q \in Proc : timers'[q] \subseteq timers[q]
  BY DEF Crash, TypeOK
<1>3. \A u \in Token : exec'[u].id = exec[u].id /\ exec'[u].attempts = exec[u].attempts
  BY CrashView
<1>4. ASSUME NEW u \in Token, Active(u)' PROVE Active(u)
  <2>1. CASE exec'[u] = exec[u]
    BY <1>1, <1>4, <2>1, ActiveStays
  <2>2. CASE Busy(u)
    BY <2>2 DEF Active
  <2> QED BY <2>1, <2>2, CrashView
<1> QED BY <1>1, <1>2, <1>3, <1>4, QuietJobs

\* Every step keeps each job in one place.
LEMMA NextJobs == Steady /\ TypeOK /\ RecordInv /\ JobInv /\ [Next]_vars => JobInv'
<1> SUFFICES ASSUME Steady, TypeOK, RecordInv, JobInv, [Next]_vars PROVE JobInv'
  OBVIOUS
<1>0. ASSUME pending' = pending, processing' = processing, exec' = exec, timers' = timers,
             outcomes' = outcomes, owner' = owner
      PROVE  JobInv'
  <2>1. \A t \in Token : Active(t)' => Active(t)
    BY <1>0 DEF Active, Busy, HasRecord
  <2> QED BY <1>0, <2>1, QuietJobs
<1>1. ASSUME NEW t \in Token, WorkerStep(t) PROVE JobInv'
  BY <1>1, WorkerJobs
<1>2. ASSUME NEW p \in Proc, ProcStep(p) PROVE JobInv'
  <2>1. ASSUME NEW j \in Job, Enqueue(p, j) PROVE JobInv'
    BY <2>1, EnqueueJobs
  <2>2. CASE DrainEnd(p) \/ ReclaimScan(p) \/ Close(p) \/ CloseEnd(p) \/ Restart(p)
    BY <1>0, <2>2 DEF DrainEnd, ReclaimScan, Close, CloseEnd, Restart, redisVars
  <2>3. CASE ClaimConflict(p)
    BY <2>3, ConflictJobs
  <2>4. ASSUME NEW t \in Token, ClaimNext(p, t) PROVE JobInv'
    BY <2>4, ClaimJobs
  <2>5. ASSUME NEW r \in timers[p], TimerFires(p, r) PROVE JobInv'
    BY <2>5, FireJobs
  <2>6. ASSUME NEW s \in stale[p], ReclaimSkip(p, s) PROVE JobInv'
    BY <1>0, <2>6 DEF ReclaimSkip, redisVars
  <2>7. ASSUME NEW s \in stale[p], ReclaimTake(p, s) PROVE JobInv'
    BY <2>7, TakeJobs
  <2>8. CASE Crash(p)
    BY <2>8, CrashJobs
  <2>9. ~Fault /\ \A s \in stale[p] : ~ReclaimRead(p, s)
    BY SteadySteps
  <2> QED BY <1>2, <2>1, <2>2, <2>3, <2>4, <2>5, <2>6, <2>7, <2>8, <2>9
          DEF ProcStep, EnqueueReplyLost, ClaimReplyLost, TimerPushErrs, ReclaimReplyLost
<1>3. ASSUME NEW i \in Job, Expire(i) PROVE JobInv'
  <2>1. /\ pending' = pending /\ exec' = exec /\ timers' = timers
        /\ outcomes' = outcomes /\ owner' = owner /\ processing[i] # NoRec
        /\ processing' = [processing EXCEPT ![i].expired = TRUE]
    BY <1>3 DEF Expire, procVars
  <2>2. \A j \in Job : processing'[j] # NoRec =>
           processing[j] # NoRec /\ processing'[j].token = processing[j].token
    <3>1. processing[i] \in Record /\ processing \in [Job -> Record \cup {NoRec}]
      BY <2>1 DEF TypeOK
    <3>2. processing'[i].token = processing[i].token
      BY <2>1, <3>1 DEF Record
    <3>3. \A j \in Job : j # i => processing'[j] = processing[j]
      BY <2>1, <3>1
    <3> QED BY <2>1, <3>2, <3>3
  <2>3. ASSUME NEW t \in Token, Active(t)' PROVE Active(t)
    <3>1. exec[t].id \in Job
      BY <2>1, <2>3, ActiveClaimed
    <3> QED BY <2>1, <2>2, <2>3, <3>1, ActiveStays
  <2> QED BY <2>1, <2>3, QuietJobs
<1>4. ASSUME NEW j \in Job, WaitTimeout(j) PROVE JobInv'
  BY <1>0, <1>4 DEF WaitTimeout, redisVars, procVars
<1>5. CASE UNCHANGED vars
  BY <1>0, <1>5 DEF vars
<1> QED BY <1>1, <1>2, <1>3, <1>4, <1>5 DEF Next

\* At first there is no job, no claim and no record.
LEMMA InitSteady == Init => RecordInv /\ JobInv /\ SlotInv
<1> SUFFICES ASSUME Init PROVE RecordInv /\ JobInv /\ SlotInv
  OBVIOUS
<1>1. \A t \in Token : exec[t] = Unused
  BY DEF Init
<1>2. \A t \in Token : /\ exec[t].st = "unused" /\ exec[t].ver = 0 /\ exec[t].renewing = FALSE
                       /\ exec[t].id = NoJob
  BY <1>1 DEF Unused
<1>3. RecordInv
  BY <1>2 DEF Init, RecordInv
<1>4. \A j \in Job : Claims(j) = {}
  BY <1>2, JobQueueAssumption DEF Claims
<1>5. pending = <<>> /\ Len(pending) = 0
  BY DEF Init
<1>6. \A j \in Job : ListedTries(pending, j) = {} /\ ListedOnce(pending, j)
  BY <1>5 DEF ListedTries, ListedOnce
<1>7. ASSUME NEW j \in Job PROVE OnePlace(j) /\ Counted(j) /\ Ended(j)
  <2>1. \A p \in Proc : timers[p] = {}
    BY DEF Init
  <2>2. outcomes[j] = {}
    BY DEF Init
  <2>3. IsFiniteSet(Claims(j)) /\ Cardinality(Claims(j)) <= MaxAttempts
    BY <1>4, FS_EmptySet, JobQueueAssumption
  <2>4. OnePlace(j)
    BY <1>4, <1>6, <2>1 DEF OnePlace, InList, InTimer, InClaim
  <2>5. Counted(j)
    BY <1>4, <1>6, <2>1, <2>3 DEF Counted
  <2>6. Ended(j)
    BY <1>4, <2>2 DEF Ended
  <2> QED BY <2>4, <2>5, <2>6
<1>8. \A p \in Proc : Slots(p) = {}
  BY <1>2 DEF Slots, Running
<1>9. SlotInv
  BY <1>2, <1>8, FS_EmptySet, JobQueueAssumption DEF SlotInv
<1> QED BY <1>3, <1>7, <1>9 DEF JobInv

\* A set with one element at most counts no more than one.
LEMMA AtMostOne ==
  ASSUME NEW S, \A a, b \in S : a = b
  PROVE  Cardinality(S) \in {0, 1} /\ (S = {} => Cardinality(S) = 0)
<1>1. CASE S = {}
  BY <1>1, FS_EmptySet
<1>2. CASE S # {}
  <2>1. PICK a : a \in S
    BY <1>2
  <2>2. S = {a}
    BY <2>1
  <2>3. Cardinality(S) = 1
    BY <2>2, FS_Singleton
  <2> QED BY <1>2, <2>3
<1> QED BY <1>1, <1>2

\* A job that is in one place at most has one copy at most.
LEMMA OneCopied ==
  ASSUME TypeOK, NEW j \in Job, JobFine(j)
  PROVE  Copies(j) <= 1
<1> DEFINE L == {i \in 1..Len(pending) : pending[i].id = j}
           T == {pr \in Proc \X UNION {timers[p] : p \in Proc} :
                      pr[2] \in timers[pr[1]] /\ pr[2].id = j}
           C == {t \in Claims(j) :
                  \/ exec[t].st \in {"claimed", "running", "finished"}
                  \/ exec[t].st = "released" /\ exec[t].res = "err"
                  \/ exec[t].st = "dead" /\ processing[j] # NoRec /\ processing[j].token = t}
<1>1. Copies(j) = Cardinality(L) + Cardinality(T) + Cardinality(C)
  BY DEF Copies
<1>2. \A a, b \in L : a = b
  BY DEF JobFine, OnePlace, ListedOnce
<1>3. \A a, b \in T : a = b
  <2> SUFFICES ASSUME NEW a \in T, NEW b \in T PROVE a = b
    OBVIOUS
  <2>1. /\ a = <<a[1], a[2]>> /\ a[1] \in Proc /\ a[2] \in timers[a[1]] /\ a[2].id = j
        /\ b = <<b[1], b[2]>> /\ b[1] \in Proc /\ b[2] \in timers[b[1]] /\ b[2].id = j
    OBVIOUS
  <2>2. a[1] = b[1] /\ a[2] = b[2]
    BY <2>1 DEF JobFine, OnePlace
  <2> QED BY <2>1, <2>2
<1>4. \A a \in C : a \in Claims(j) /\ Active(a)
  BY DEF Active, Busy, HasRecord, Claims
<1>5. \A a, b \in C : a = b
  BY <1>4 DEF JobFine, OnePlace
<1>6. L # {} => InList(j)
  BY DEF InList, ListedTries
<1>7. T # {} => InTimer(j)
  BY DEF InTimer
<1>8. C # {} => InClaim(j)
  BY <1>4 DEF InClaim
<1> HIDE DEF L, T, C
<1>9. /\ Cardinality(L) \in {0, 1} /\ (L = {} => Cardinality(L) = 0)
      /\ Cardinality(T) \in {0, 1} /\ (T = {} => Cardinality(T) = 0)
      /\ Cardinality(C) \in {0, 1} /\ (C = {} => Cardinality(C) = 0)
  BY <1>2, <1>3, <1>5, AtMostOne
<1>10. /\ L # {} => T = {} /\ C = {}
       /\ T # {} => C = {}
  BY <1>6, <1>7, <1>8 DEF JobFine, OnePlace
<1> QED BY <1>1, <1>9, <1>10

\* The invariant contains what the queue keeps.
LEMMA SteadyStable ==
  ASSUME TypeOK, JobInv, SlotInv
  PROVE  StableQueue
<1>1. OneCopy
  BY EveryJob, OneCopied DEF OneCopy
<1>2. EndsOneWay
  BY DEF JobInv, Ended, EndsOneWay
<1>3. ClaimsWithinMaxAttempts
  BY DEF JobInv, Counted, ClaimsWithinMaxAttempts
<1>4. ConcurrencyRespected
  BY DEF SlotInv, Slots, ConcurrencyRespected
<1> QED BY <1>1, <1>2, <1>3, <1>4 DEF StableQueue

\* While leases of live workers hold and redis answers (queue.js, _renew within
\* the lease), every job is in one place at most through any crashes, shutdowns
\* and retries, ends in one way, is claimed at most MaxAttempts times, and no
\* process runs more jobs than its concurrency.
THEOREM StableAlways ==
  ASSUME LeaseLoss = FALSE, MaxVer = 0, MaxFaults = 0
  PROVE  Spec => []StableQueue
<1>1. Steady
  BY DEF Steady
<1>2. Init => SteadyInv
  BY InitTypeOK, InitSteady DEF SteadyInv
<1>3. SteadyInv /\ [Next]_vars => SteadyInv'
  BY <1>1, NextTypeOK, NextRecord, NextJobs, NextSlots DEF SteadyInv
<1>4. SteadyInv => StableQueue
  BY SteadyStable DEF SteadyInv
<1> QED BY <1>2, <1>3, <1>4, PTL DEF Spec

=============================================================================
