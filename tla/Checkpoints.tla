----------------------------- MODULE Checkpoints ----------------------------
(***************************************************************************)
(* The checkpoints of one run and its recovery from them                   *)
(* (backend/src/checkpoint/checkpoint-manager.js, core/recovery-service.js *)
(* and execution/recovery.js), driven by the places of the orchestrator    *)
(* that take a checkpoint, change the context a checkpoint was taken of or *)
(* mark the last tool's effect.                                            *)
(*                                                                         *)
(* A snapshot holds the live arrays of the run's context, not copies, and  *)
(* its hash is taken once: what the run adds to its context afterwards     *)
(* changes the snapshot under its hash.  A restored run works on copies,   *)
(* so the checkpoints taken before a restore are no longer shared with it. *)
(***************************************************************************)
EXTENDS Naturals, Sequences, SequencesExt, FiniteSetsExt

CONSTANTS
    KMax,       \* maxCheckpoints
    KSteps,     \* maxSteps
    KMaxTries   \* bound: retries and continuations

ASSUME KAssumption == KMax \in Nat \ {0} /\ KSteps \in Nat /\ KMaxTries \in Nat

VARIABLES
    kList,      \* the checkpoints kept, oldest first
    kRun,       \* the run: its status and where its loop is
    kEffect,    \* ctrl.lastToolEffect
    kTries,     \* retries and continuations so far
    kResumed    \* history: the resumption just made and what was known of it

checkpointVars == <<kList, kRun, kEffect, kTries, kResumed>>

Effect == [state: {"not_started", "in_flight", "completed", "failed", "unknown"},
           destructive: BOOLEAN, idempotent: BOOLEAN, retryable: BOOLEAN, proved: BOOLEAN]
NoEffect == [state |-> "not_started", destructive |-> FALSE, idempotent |-> TRUE,
             retryable |-> TRUE, proved |-> FALSE]

NotResumed == [from |-> "none", progress |-> 0, steps |-> 0, full |-> FALSE, effect |-> NoEffect]

\* status: running, failed or ended; at: the await the loop is in, "idle" when no
\* loop runs; n: the loop's step number; live: execution.currentStep; model: one
\* is selected; steps (history): the steps completed and not undone by a restore.
CheckpointsInit ==
    /\ kList = <<>>
    /\ kRun = [status |-> "running", at |-> "setup", n |-> 0, live |-> 0, model |-> FALSE, steps |-> 0]
    /\ kEffect = NoEffect
    /\ kTries = 0
    /\ kResumed = NotResumed

(**************************** CheckpointManager ****************************)

\* A new checkpoint: its hash fits, and it shares the arrays of the live context.
ExecutionCheckpoint(type, step, done, progress) ==
    [type |-> type, step |-> step, completed |-> done, progress |-> progress,
     sealed |-> TRUE, shares |-> TRUE, fresh |-> TRUE]

\* createCheckpoint: the oldest one leaves when there are too many, completed or not.
CreateCheckpoint(l, cp) == LET m == Append(l, cp) IN IF Len(m) > KMax THEN Tail(m) ELSE m

\* The key of a checkpoint is its type, step and millisecond: one of the same
\* type and step as the last may be taken for its duplicate and is then not kept.
MayBeDuplicate(l, cp) == l # <<>> /\ Last(l).type = cp.type /\ Last(l).step = cp.step

\* The mutant returns the oldest completed one.
BugLastCompleted(l) == l[Min({i \in DOMAIN l : l[i].completed})]
\* getLastCompletedCheckpoint, when there is one.
LastCompleted(l) == l[Max({i \in DOMAIN l : l[i].completed})]

\* validateCheckpoint of the newest completed checkpoint: its age is looked at
\* before its hash.
ValidateCheckpoint(l) ==
    IF \A i \in DOMAIN l : ~l[i].completed THEN "missing"
    ELSE IF ~LastCompleted(l).fresh THEN "stale"
    ELSE IF ~LastCompleted(l).sealed THEN "corrupt"
    ELSE "ok"

\* addContext and compressContext: the arrays change under the snapshots that
\* share them.
Touch(l) == [i \in DOMAIN l |-> [l[i] EXCEPT !.sealed = @ /\ ~l[i].shares]]

(******************************** recovery *********************************)

DecideRecovery(e) ==
    CASE e.proved -> "skip_completed"
      [] ~e.proved /\ e.state \in {"not_started", "completed"} -> "resume"
      [] ~e.proved /\ e.state = "failed" -> IF e.retryable THEN "retry_step" ELSE "ask_user"
      [] ~e.proved /\ e.state \in {"in_flight", "unknown"} ->
            IF e.destructive \/ ~e.idempotent THEN "mark_unknown" ELSE "retry_step"

\* Without a checkpoint a run in which no tool was called starts again; with a
\* stale one the user is asked, and a corrupt one cannot be recovered from.
PlanRecovery(v, e) ==
    CASE v = "missing" /\ e.state = "not_started" -> "retry_step"
      [] v = "missing" /\ e.state # "not_started" -> DecideRecovery(e)
      [] v = "stale" -> "ask_user"
      [] v = "corrupt" -> "unrecoverable"
      [] v = "ok" -> DecideRecovery(e)

\* The step after which the loop continues.
Cursor(v) ==
    CASE v = "ok" -> LastCompleted(kList).step
      [] v # "ok" /\ kEffect.state = "not_started" -> 0
      [] v # "ok" /\ kEffect.state # "not_started" -> kRun.live

\* recoverFromCheckpoint: the run goes on with copies of the snapshot's arrays.
Unshared(l) == [i \in DOMAIN l |-> [l[i] EXCEPT !.shares = FALSE]]

\* applySnapshotToRuntime, and the cursor put over it.
RestoreRun(cp) == [kRun EXCEPT !.live = cp.step, !.steps = cp.progress]

(********************************* the loop ********************************)

IsRunning == kRun.status = "running"

\* _buildContext adds the user's message to the context and takes a checkpoint of
\* it; _selectModel takes another one, or finds no model.
Setup(found) ==
    /\ IsRunning /\ kRun.at = "setup"
    /\ LET built == CreateCheckpoint(Touch(kList), ExecutionCheckpoint("context_update", kRun.live, FALSE, kRun.steps))
       IN IF found
          THEN /\ kList' = CreateCheckpoint(built, ExecutionCheckpoint("model_execution", kRun.live, FALSE, kRun.steps))
               /\ kRun' = [kRun EXCEPT !.at = "loop", !.model = TRUE]
          ELSE /\ kList' = built
               /\ kRun' = [kRun EXCEPT !.at = "idle", !.status = "failed"]
    /\ kResumed' = NotResumed
    /\ UNCHANGED <<kEffect, kTries>>

StepStarts ==
    /\ IsRunning /\ kRun.at = "loop" /\ kRun.n < KSteps
    /\ kRun' = [kRun EXCEPT !.n = @ + 1, !.live = @ + 1, !.at = "first"]
    /\ kResumed' = NotResumed
    /\ UNCHANGED <<kList, kEffect, kTries>>

\* The step limit completes a run that has answered and fails another one.
StepLimit ==
    /\ IsRunning /\ kRun.at = "loop" /\ kRun.n >= KSteps
    /\ kRun' = [kRun EXCEPT !.at = "idle", !.status = IF kRun.steps > 0 THEN "ended" ELSE "failed"]
    /\ kResumed' = NotResumed
    /\ UNCHANGED <<kList, kEffect, kTries>>

\* A prompt that does not fit, and the triggers after a step, compress the context.
CompressContext ==
    /\ IsRunning /\ kRun.at \in {"loop", "first", "again"} /\ kRun.n > 0
    /\ kList' = Touch(kList)
    /\ UNCHANGED <<kRun, kEffect, kTries, kResumed>>

\* The model asks for a tool; classifySideEffect calls it destructive, or safe to
\* repeat, by its risk, or neither.
MarkToolInFlight(d, i) ==
    /\ d => ~i
    /\ IsRunning /\ kRun.at \in {"first", "again"}
    /\ kEffect' = [NoEffect EXCEPT !.state = "in_flight", !.destructive = d, !.idempotent = i]
    /\ kRun' = [kRun EXCEPT !.at = "tool"]
    /\ UNCHANGED <<kList, kTries, kResumed>>

\* _markToolSettled, and the result becomes part of the context; a tool that
\* answers after the deadline ends the loop.
MarkToolSettled(ok, retryable, stored) ==
    /\ kRun.at = "tool"
    /\ (ok => retryable) /\ (stored => ok)
    /\ kEffect' = [kEffect EXCEPT !.state = IF ok THEN "completed" ELSE "failed",
                                  !.retryable = retryable, !.proved = stored]
    /\ kList' = Touch(kList)
    /\ kRun' = [kRun EXCEPT !.at = IF IsRunning THEN "again" ELSE "idle"]
    /\ UNCHANGED <<kTries, kResumed>>

\* The executor throws, or the answer is lost: the effect stays in flight, and the
\* idempotency store may hold the proof that it completed.
ToolThrows(stored) ==
    /\ kRun.at = "tool"
    /\ kEffect' = [kEffect EXCEPT !.proved = stored]
    /\ kRun' = [kRun EXCEPT !.at = "idle", !.status = "failed"]
    /\ UNCHANGED <<kList, kTries, kResumed>>

\* The first call of a step that fails goes to another model, and a checkpoint is
\* taken of the switch, or is repeated: as the next step.
Failover(switched, kept) ==
    /\ IsRunning /\ kRun.at = "first"
    /\ LET cp == ExecutionCheckpoint("model_switch", kRun.live, FALSE, kRun.steps)
       IN /\ ~kept => ~switched \/ MayBeDuplicate(kList, cp)
          /\ kList' = IF switched /\ kept THEN CreateCheckpoint(kList, cp) ELSE kList
    /\ kRun' = [kRun EXCEPT !.at = "loop"]
    /\ UNCHANGED <<kEffect, kTries, kResumed>>

\* A model call that fails for good; after the deadline it is aborted.
ModelFails ==
    /\ kRun.at \in {"first", "again"}
    /\ kRun' = [kRun EXCEPT !.at = "idle", !.status = "failed"]
    /\ UNCHANGED <<kList, kEffect, kTries, kResumed>>

\* The end of a step: captureCheckpoint, before the run is completed or goes on.
StepCompletes(last) ==
    /\ IsRunning /\ kRun.at \in {"first", "again"}
    /\ kList' = CreateCheckpoint(kList, ExecutionCheckpoint("step_complete", kRun.n, TRUE, kRun.steps + 1))
    /\ kRun' = [kRun EXCEPT !.steps = @ + 1, !.at = IF last THEN "idle" ELSE "loop",
                            !.status = IF last THEN "ended" ELSE "running"]
    /\ UNCHANGED <<kEffect, kTries, kResumed>>

\* The deadline fails the run under its loop, which notices when it is next answered.
Deadline ==
    /\ IsRunning /\ kRun.at \in {"first", "again", "tool"}
    /\ kRun' = [kRun EXCEPT !.status = "failed"]
    /\ UNCHANGED <<kList, kEffect, kTries, kResumed>>

(************************* retries and continuations ***********************)

\* startRun of a continuation sets the run up again and numbers its steps from 1.
StartNextEpisode ==
    /\ ~IsRunning /\ kRun.at = "idle" /\ kTries < KMaxTries
    /\ kRun' = [kRun EXCEPT !.status = "running", !.at = "setup", !.n = 0]
    /\ kTries' = kTries + 1
    /\ UNCHANGED <<kList, kEffect, kResumed>>

\* retryRun and recover; a plan to block it leaves the run failed.
RetryRun ==
    /\ kRun.status = "failed" /\ kRun.at = "idle" /\ kTries < KMaxTries
    /\ kTries' = kTries + 1
    /\ LET v == ValidateCheckpoint(kList)
           plan == PlanRecovery(v, kEffect)
           cp == LastCompleted(kList)
           restored == v = "ok"
       IN IF plan \in {"ask_user", "mark_unknown", "unrecoverable"}
          THEN UNCHANGED <<kList, kRun, kEffect, kResumed>>
          ELSE /\ kRun' = [(IF restored THEN RestoreRun(cp) ELSE kRun) EXCEPT
                             !.status = "running",
                             !.at = IF kRun.model THEN "loop" ELSE "setup",
                             !.n = IF kRun.model THEN Cursor(v) ELSE 0]
               /\ kList' = IF restored THEN Unshared(kList) ELSE kList
               /\ kEffect' = [kEffect EXCEPT !.state = IF @ = "in_flight" THEN "unknown" ELSE @]
               /\ kResumed' = [from |-> IF restored THEN "checkpoint" ELSE "live",
                               progress |-> IF restored THEN cp.progress ELSE 0,
                               steps |-> kRun.steps, full |-> Len(kList) = KMax, effect |-> kEffect]

\* A week passes: checkpoints are too old to resume from, and the idempotency
\* store has forgotten its records.
WeekPasses ==
    /\ ~IsRunning /\ kRun.at = "idle"
    /\ \E i \in DOMAIN kList : kList[i].fresh
    /\ kList' = [i \in DOMAIN kList |-> [kList[i] EXCEPT !.fresh = FALSE]]
    /\ kEffect' = [kEffect EXCEPT !.proved = FALSE]
    /\ UNCHANGED <<kRun, kTries, kResumed>>

\* clearRun, when the run leaves the memory of the process.
ClearRun ==
    /\ ~IsRunning /\ kRun.at = "idle" /\ kRun.status # "gone"
    /\ kList' = <<>> /\ kEffect' = NoEffect /\ kTries' = KMaxTries
    /\ kRun' = [kRun EXCEPT !.status = "gone"]
    /\ UNCHANGED kResumed

CheckpointsNext ==
    \/ \E b \in BOOLEAN : Setup(b) \/ ToolThrows(b) \/ StepCompletes(b)
    \/ \E b, c \in BOOLEAN : MarkToolInFlight(b, c) \/ Failover(b, c)
    \/ \E b, c, d \in BOOLEAN : MarkToolSettled(b, c, d)
    \/ StepStarts \/ StepLimit \/ CompressContext \/ ModelFails \/ Deadline
    \/ StartNextEpisode \/ RetryRun \/ WeekPasses \/ ClearRun

(******************************** properties *******************************)

\* What retryRun promises ("Real recovery"): a run restored from a checkpoint goes
\* on after the last step it completed, so that no completed step is undone and
\* none is repeated; a run is only resumed without one when it completed no step
\* or other checkpoints pushed the completed ones out; and it is never resumed
\* over a tool that may or may not have taken effect, unless that tool can be
\* repeated or its record proves that it completed.
RecoverySound ==
    /\ kResumed.from = "checkpoint" => kResumed.progress = kResumed.steps
    /\ kResumed.from = "live" => kResumed.steps = 0 \/ kResumed.full
    /\ kResumed.effect.state \in {"in_flight", "unknown"} =>
          kResumed.effect.proved \/ (kResumed.effect.idempotent /\ ~kResumed.effect.destructive)
=============================================================================
