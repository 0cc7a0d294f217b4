---------------------------- MODULE RunLifecycle ----------------------------
(***************************************************************************)
(* The life of one run in the orchestrator (backend/src/core/              *)
(* orchestrator.js, state-machine.js) together with the operations of the  *)
(* execution controller that reopen and pause it (backend/src/execution/   *)
(* controller.js, PauseController in plans-episodes.js).                   *)
(*                                                                         *)
(* A node process runs one continuation at a time, and continuations that  *)
(* wait for no I/O run before any timer or request.  The steps of the      *)
(* model are therefore the stretches of code between two waits for I/O: a  *)
(* provider reply, a backoff, a pause hold, a tool result, a persisted     *)
(* checkpoint.  Context building, model selection, failover, recovery      *)
(* planning and optimisation wait for nothing and belong to the step that  *)
(* reaches them.                                                           *)
(*                                                                         *)
(* Each start, retry or continuation of the run launches an execution (a   *)
(* call of _executeRun); the executions share the control record, and a    *)
(* late reply resumes the execution that asked for it, whatever happened   *)
(* to the run meanwhile.                                                   *)
(***************************************************************************)
EXTENDS Naturals, Sequences, FiniteSets

CONSTANTS
    MaxExec,        \* bound: executions of the run
    MaxSteps,       \* runConfig.maxSteps
    MaxRounds,      \* tool rounds in a step (4 in the code)
    MaxBatch,       \* tool calls in a round (3 in the code)
    MaxToolCalls,   \* runConfig.maxToolCalls
    MaxRetries,     \* runConfig.maxRetries: backoffs on the same model
    Budget,         \* budget.maximumCost, in units of one reply or tool call
    MaxCancels,     \* bound: cancel requests under way
    MayFail,        \* may providers, routing and context fail
    Requests        \* the API requests clients make

ASSUME RunLifecycleAssumption ==
    /\ MaxExec \in Nat \ {0} /\ MaxSteps \in Nat /\ MaxRounds \in Nat
    /\ MaxBatch \in Nat \ {0} /\ MaxToolCalls \in Nat /\ MaxRetries \in Nat
    /\ Budget \in Nat /\ MaxCancels \in Nat /\ MayFail \in BOOLEAN
    /\ Requests \subseteq {"cancel", "retry", "continue", "pause"}

Exec == 1..MaxExec
EndsBound == 2      \* bound: terminal events counted of repeated refusals

VARIABLES
    run,        \* runtimeState and control record of the run
    loop,       \* per execution: where it waits
    cancels     \* cancelRun calls in their 25 ms wait

vars == <<run, loop, cancels>>

Status == {"created", "planning", "context_build", "model_select", "executing",
           "waiting_for_tool", "observing", "reoptimizing", "retrying",
           "paused", "pausing", "resuming", "completed", "failed", "cancelled"}
Terminal == {"completed", "failed", "cancelled"}

STATE_TRANSITIONS ==
    [created          |-> {"planning", "cancelled"},
     planning         |-> {"context_build", "failed", "cancelled"},
     context_build    |-> {"model_select", "failed", "cancelled"},
     model_select     |-> {"executing", "failed", "cancelled"},
     executing        |-> {"waiting_for_tool", "observing", "reoptimizing",
                           "completed", "failed", "cancelled", "paused", "pausing"},
     waiting_for_tool |-> {"executing", "retrying", "failed", "cancelled", "pausing"},
     observing        |-> {"executing", "reoptimizing", "completed", "failed",
                           "cancelled", "pausing"},
     reoptimizing     |-> {"executing", "model_select", "context_build", "failed",
                           "cancelled"},
     retrying         |-> {"executing", "planning", "failed", "cancelled"},
     paused           |-> {"executing", "resuming", "cancelled"},
     pausing          |-> {"paused", "cancelled"},
     resuming         |-> {"executing", "cancelled"},
     completed        |-> {"retrying"},
     failed           |-> {"retrying", "cancelled"},
     cancelled        |-> {}]

\* lastToolEffect; safe: a retry is harmless (idempotent, or failed retryably).
Effect == [state: {"not_started", "in_flight", "completed", "failed", "unknown"},
           safe: BOOLEAN]
\* The newest completed checkpoint (step 0: none): the step, the spend, the
\* tool-call counter and the flag it will restore.
Checkpoint == [step: Nat, spend: Nat, tools: Nat, assisted: BOOLEAN]

RunState ==
    [place: {"active", "terminal"},   \* activeRuns or terminalRuns
     status: Status,                  \* runtimeState.status
     machine: Status,                 \* ctrl.machine
     abort: BOOLEAN, running: BOOLEAN, deadline: BOOLEAN,
     pause: {"RUNNING", "PAUSING", "PAUSED", "RESUMING"},
     model: BOOLEAN,                  \* a model has been selected
     answer: BOOLEAN,                 \* an assistant message exists
     assisted: BOOLEAN,               \* heuristicToolUsed
     retries: 0..MaxRetries, tools: Nat, spend: Nat,
     cur: Nat,                        \* execution.currentStep
     effect: Effect, ckpt: Checkpoint,
     ends: Nat]                       \* terminal events since it was (re)opened

LoopState == [pc: {"unused", "model", "backoff", "hold", "tool", "persist", "done"},
              mode: {"first", "cont", "assist"},
              step: Nat, rounds: 0..MaxRounds, left: 0..MaxBatch, resumed: BOOLEAN]

Idle == [pc |-> "unused", mode |-> "first", step |-> 0, rounds |-> 0, left |-> 0,
         resumed |-> FALSE]

-----------------------------------------------------------------------------
(* transition(): a path of status changes is legal or throws at its start.  *)

\* Seeded fault: a state change that skips the transition table.
BugAnyPath(m, path) == TRUE

Legal(m, path) ==
    \A i \in 1..Len(path) :
        LET from == IF i = 1 THEN m ELSE path[i - 1]
        IN  path[i] = from \/ path[i] \in STATE_TRANSITIONS[from]

Goto(s, st) == [s EXCEPT !.machine = st, !.status = st]

\* transition() inside try/catch: an illegal change is skipped.
TryGoto(s, st) == IF Legal(s.machine, <<st>>) THEN Goto(s, st) ELSE s

\* toObserving: WAITING_FOR_TOOL has no edge to OBSERVING.
ToObserving(s) == IF s.machine = "waiting_for_tool" THEN <<"executing", "observing">>
                  ELSE <<"observing">>

-----------------------------------------------------------------------------
(* Completion, failure, cancellation. *)

Ended(s) == s.status \in Terminal \/ s.place # "active"

\* Terminal state, terminal event, _retireRun.
EndAs(s, st) ==
    [s EXCEPT !.machine = st, !.status = st, !.ends = s.ends + 1,
              !.place = "terminal", !.running = FALSE, !.deadline = FALSE]

cancelledRun(s) == IF Ended(s) THEN s ELSE EndAs(s, "cancelled")

\* Seeded fault: a failure is reported without looking at the present status.
BugFailAgain(s) == IF s.abort THEN EndAs(s, "cancelled") ELSE EndAs(s, "failed")

\* Seeded fault: a timed-out run whose loop still waits fails, and is retryable.
BugFailWins(s) == IF Ended(s) THEN s ELSE EndAs(s, "failed")

\* Cancellation wins over failure; an illegal edge to FAILED is forced.
failRun(s) == IF Ended(s) THEN s
               ELSE IF s.abort THEN cancelledRun(s) ELSE EndAs(s, "failed")

\* An execution ends: the finally of startRun / _retryRunInner.
Finish(s, l) == [s |-> [s EXCEPT !.running = FALSE, !.deadline = FALSE],
                 l |-> [l EXCEPT !.pc = "done"]]

Throw(s, l) == Finish(failRun(s), l)

CompletionPath(s) ==
    IF s.status \in {"observing", "waiting_for_tool"} THEN <<"executing", "completed">>
    ELSE <<"completed">>

\* _completeRun, then the execution ends.
completeRun(s, l) ==
    IF Ended(s) THEN Finish(s, l)
    ELSE IF Legal(s.machine, CompletionPath(s)) THEN Finish(EndAs(s, "completed"), l)
    ELSE Throw(s, l)

-----------------------------------------------------------------------------
(* The agent loop.  Each operator returns the set of [s, l] the code can    *)
(* reach from run state s and execution state l without waiting.            *)

Exceeded(s) == s.spend >= Budget

\* _executeStep returned false: the optimisation triggers may still throw.
StopStep(s, l) == {Finish(s, l)} \cup (IF MayFail THEN {Throw(s, l)} ELSE {})

\* _callModel up to the provider request: abort check, budget guard (a cheaper
\* model gets a chance), then wait for the reply.
CallModel(s, l, mode) ==
    IF s.abort THEN IF mode = "first" THEN StopStep(s, l) ELSE {Throw(s, l)}
    ELSE {[s |-> s, l |-> [l EXCEPT !.pc = "model", !.mode = mode]]}
         \cup (IF Exceeded(s) THEN {Throw(s, l)} ELSE {})

\* The top of the while loop of _executeRun, and what follows the loop.
LoopTop(s, l) ==
    IF s.abort THEN {Finish(cancelledRun(s), l)}
    ELSE IF s.status \in Terminal THEN {Finish(s, l)}
    ELSE IF l.step < MaxSteps
    THEN (IF Exceeded(s) THEN {Throw(s, l)} ELSE {})
         \cup CallModel([s EXCEPT !.cur = @ + 1],
                        [l EXCEPT !.step = @ + 1, !.rounds = 0], "first")
    ELSE {IF s.answer THEN completeRun(s, l) ELSE Throw(s, l)}

\* A step returned true; _checkOptimizationTriggers may throw.
NextStep(s, l) == LoopTop(s, l) \cup (IF MayFail THEN {Throw(s, l)} ELSE {})

\* _executeRun on a run with nothing preserved: PLANNING, budget check,
\* CONTEXT_BUILD, MODEL_SELECT, EXECUTING, loop.
Setup(s, l) ==
    LET planned == Goto(s, "planning") IN
    IF ~Legal(s.machine, <<"planning">>) THEN {Throw(s, l)}
    ELSE IF Exceeded(s) THEN {Throw(planned, l)}
    ELSE LoopTop([Goto(planned, "executing") EXCEPT !.model = TRUE], l)
         \cup (IF MayFail THEN {Throw(planned, l)} ELSE {})

\* One tool call: count it, mark it in flight, then the gated execute settles
\* a requested pause and holds while the run is paused.
Dispatch(s, l) ==
    {LET marked == [s EXCEPT !.tools = @ + 1,
                             !.effect = [state |-> "in_flight", safe |-> safe]]
         held == IF s.pause \in {"PAUSING", "PAUSED"}
                 THEN [(IF s.place = "active" THEN TryGoto(marked, "paused") ELSE marked)
                           EXCEPT !.pause = "PAUSED"]
                 ELSE marked
     IN  [s |-> held,
          l |-> [l EXCEPT !.pc = IF held.pause = "PAUSED" THEN "hold" ELSE "tool"]]
        : safe \in BOOLEAN}

\* WAITING_FOR_TOOL and the first call of a round of n.
ToolRound(s, l, n, mode) ==
    IF Legal(s.machine, <<"waiting_for_tool">>)
    THEN Dispatch(Goto(s, "waiting_for_tool"), [l EXCEPT !.left = n, !.mode = mode])
    ELSE {Throw(s, l)}

\* The end of a step: OBSERVING, assistant message, checkpoint, persistHook.
StepDone(s, l, n) ==
    IF Legal(s.machine, ToObserving(s))
    THEN {[s |-> [Goto(s, "observing") EXCEPT !.answer = TRUE, !.ckpt =
                   [step |-> l.step, spend |-> s.spend, tools |-> s.tools,
                    assisted |-> s.assisted]],
           l |-> [l EXCEPT !.pc = "persist", !.left = n]]}
    ELSE {Throw(s, l)}

\* A model reply with n tool calls.  The reply that follows a heuristic tool
\* call goes straight to the end of the step.
Reply(s, l, n) ==
    IF l.mode # "assist" /\ n > 0 /\ l.rounds < MaxRounds
    THEN IF s.abort THEN StopStep(s, l)
         ELSE IF s.tools >= MaxToolCalls THEN {Throw(s, l)}
         ELSE ToolRound(s, [l EXCEPT !.rounds = @ + 1], n, "cont")
    ELSE IF l.mode # "assist" /\ s.abort THEN StopStep(s, l)
    ELSE StepDone(s, l, n)
         \cup (IF l.mode # "assist" /\ n = 0 /\ ~s.assisted /\ l.step <= 2
               THEN ToolRound([s EXCEPT !.assisted = TRUE], l, 1, "assist") ELSE {})

\* Seeded fault: the number of backoffs is not compared with maxRetries.
BugEndlessBackoff(s, l) ==
    IF l.mode # "first" THEN {Throw(s, l)}
    ELSE IF s.abort THEN StopStep(s, l)
    ELSE {Throw(s, l), [s |-> [s EXCEPT !.retries = @ + 1], l |-> [l EXCEPT !.pc = "backoff"]]}

\* A provider error: outside the first call of a step it fails the run; else
\* fail over to another model, back off and retry, or fail.
ReplyError(s, l) ==
    IF l.mode # "first" THEN {Throw(s, l)}
    ELSE IF s.abort THEN StopStep(s, l)
    ELSE {Throw(s, l)} \cup NextStep(s, l)
         \cup (IF s.retries < MaxRetries
               THEN {[s |-> [s EXCEPT !.retries = @ + 1], l |-> [l EXCEPT !.pc = "backoff"]]}
               ELSE {})

\* A tool result: the marker is settled, the round goes on with the next call
\* (no abort check in between) or with the model.
Result(s, l, ok, safe) ==
    LET settled == [s EXCEPT !.effect = [state |-> IF ok THEN "completed" ELSE "failed",
                                         safe |-> safe],
                             !.spend = IF ok THEN @ + 1 ELSE @]
    IN  IF l.left > 1 THEN Dispatch(settled, [l EXCEPT !.left = @ - 1])
        ELSE IF Legal(settled.machine, ToObserving(settled))
        THEN CallModel(Goto(settled, "executing"), [l EXCEPT !.left = 0], l.mode)
        ELSE {Throw(settled, l)}

\* The checkpoint is persisted: complete the run or go on.
Persisted(s, l, done) ==
    IF done THEN {completeRun(s, l)}
    ELSE IF Legal(s.machine, <<"executing">>) THEN NextStep(Goto(s, "executing"), l)
    ELSE {Throw(s, l)}

-----------------------------------------------------------------------------
(* createRun has registered the run. *)
Init ==
    /\ run = [place |-> "active", status |-> "created", machine |-> "created",
              abort |-> FALSE, running |-> FALSE, deadline |-> FALSE,
              pause |-> "RUNNING", model |-> FALSE, answer |-> FALSE,
              assisted |-> FALSE, retries |-> 0, tools |-> 0, spend |-> 0,
              cur |-> 0,
              effect |-> [state |-> "not_started", safe |-> TRUE],
              ckpt |-> [step |-> 0, spend |-> 0, tools |-> 0, assisted |-> FALSE],
              ends |-> 0]
    /\ loop = [e \in Exec |-> Idle]
    /\ cancels = 0

\* Execution e moves to one of the outcomes.
Become(e, outcomes) ==
    /\ \E o \in outcomes : /\ run' = o.s
                           /\ loop' = [loop EXCEPT ![e] = o.l]
    /\ UNCHANGED cancels

At(e, pc) == loop[e].pc = pc

\* What e waits for has settled, and it goes on before any request is read: an
\* abort rejects the provider request and a tool's handler, and the server's
\* persistHook returns at once.  A patch is verified after its handler, which no
\* abort cuts off; the heuristic tool calls are no patches.
Due(e) == \/ At(e, "persist")
          \/ run.abort /\ At(e, "model")
          \/ run.abort /\ At(e, "tool") /\ loop[e].mode = "assist"

\* The next unused execution, for a request that starts one.
Fresh(e) ==
    /\ loop[e].pc = "unused" /\ \A d \in Exec : d < e => loop[d].pc # "unused"
    /\ \A d \in Exec : ~Due(d)

\* The reply, with n tool calls; a cached one costs nothing.
ModelReturns(e, n, cost) ==
    /\ At(e, "model") /\ ~run.abort
    /\ Become(e, Reply([run EXCEPT !.spend = @ + cost], loop[e], n))

\* The provider fails, or the request is aborted.
ModelFails(e) ==
    At(e, "model") /\ (MayFail \/ run.abort) /\ Become(e, ReplyError(run, loop[e]))

BackoffEnds(e) ==
    At(e, "backoff") /\ Become(e, IF run.abort THEN StopStep(run, loop[e])
                                  ELSE NextStep(run, loop[e]))

\* Resumed, aborted, or the 15 minute cap on a hold is over.
HoldEnds(e) ==
    At(e, "hold") /\ Become(e, {[s |-> run, l |-> [loop[e] EXCEPT !.pc = "tool"]]})

\* The result of the handler, and of the verification that follows a patch.
ToolReturns(e, ok, safe) ==
    At(e, "tool") /\ Become(e, Result(run, loop[e], ok, safe))

PersistReturns(e, done) ==
    /\ At(e, "persist") /\ (done => loop[e].left = 0)
    /\ Become(e, Persisted(run, loop[e], done))

-----------------------------------------------------------------------------
(* Requests and timers. *)

\* startRun after its guards, on run state s.
Launch(s, e) ==
    Become(e, Setup([s EXCEPT !.running = TRUE, !.abort = FALSE, !.deadline = TRUE,
                              !.retries = IF s.machine = "created" THEN 0 ELSE @], Idle))

MayStart(s) == s.place = "active" /\ s.status \notin Terminal /\ ~s.running

StartRun(e) == Fresh(e) /\ MayStart(run) /\ Launch(run, e)

\* controller.continueRun: a retired run comes back, whatever its status, as a
\* new episode of the same run.
Reopened(s) ==
    LET back == IF s.place = "terminal"
                THEN [s EXCEPT !.place = "active", !.abort = FALSE, !.running = FALSE] ELSE s
    IN  IF back.status \in Terminal
        THEN [Goto(back, "retrying") EXCEPT !.ends = 0] ELSE back

ContinueRun(e) ==
    /\ "continue" \in Requests /\ Fresh(e)
    /\ ~run.running /\ Launch(Reopened(run), e)

\* cancelRun: flag the loop, abort its requests, disarm the deadline, wait.
CancelBegin ==
    /\ "cancel" \in Requests /\ cancels < MaxCancels
    /\ run.place = "active" /\ run.status \notin Terminal
    /\ run' = [run EXCEPT !.abort = TRUE, !.deadline = FALSE]
    /\ cancels' = cancels + 1
    /\ UNCHANGED loop

\* Seeded fault: the cancel request leaves the rest to the loop.
BugCancelNotForced ==
    /\ cancels > 0
    /\ run' = run
    /\ cancels' = cancels - 1
    /\ UNCHANGED loop

\* After 25 ms: force the terminal state if nothing else has ended the run.
CancelEnd ==
    /\ cancels > 0
    /\ run' = [cancelledRun(run) EXCEPT !.running = FALSE]
    /\ cancels' = cancels - 1
    /\ UNCHANGED loop

\* The deadline timer sets abort before it calls _failRun.
DeadlineFires ==
    /\ run.deadline
    /\ run' = failRun([run EXCEPT !.abort = TRUE, !.deadline = FALSE])
    /\ UNCHANGED <<loop, cancels>>

-----------------------------------------------------------------------------
(* retryRun: resurrect a failed run, plan its recovery, resume or refuse.   *)

RetryAllowed == "retry" \in Requests /\ run.status = "failed" /\ ~run.running

Back == [run EXCEPT !.place = "active"]

\* planRecovery / decideRecovery refuse: the last side effect is unsettled or
\* failed for good.
Blocked == run.effect.state \in {"in_flight", "unknown", "failed"} /\ ~run.effect.safe

\* The plan is ask_user, mark_unknown or unrecoverable (or the checkpoint is
\* stale or corrupt): the run stays FAILED, where the resurrection put it.
RetryBlocked ==
    /\ RetryAllowed /\ ~Exceeded(run) /\ (Blocked \/ run.ckpt.step > 0)
    /\ run' = Back
    /\ UNCHANGED <<loop, cancels>>

\* A live run that is out of budget: refused with one more run.failed event.
RetryRefused ==
    /\ RetryAllowed /\ Exceeded(run) /\ run.place = "active" /\ run.ends < EndsBound
    /\ run' = [run EXCEPT !.ends = @ + 1]
    /\ UNCHANGED <<loop, cancels>>

\* recoverFromCheckpoint: snapshot and control record replace live values.
Restored(s) ==
    IF s.ckpt.step = 0 THEN s
    ELSE [s EXCEPT !.spend = s.ckpt.spend, !.tools = s.ckpt.tools,
                   !.assisted = s.ckpt.assisted, !.cur = s.ckpt.step]

\* Seeded fault: the resumed loop starts at the checkpointed step.
BugRepeatStep(s) == IF s.ckpt.step > 0 THEN s.ckpt.step - 1 ELSE 0

\* The recovery cursor: the checkpoint's step, 0 when nothing was started, or
\* the live step counter when there is no checkpoint.
Cursor(s) == IF s.ckpt.step > 0 THEN s.ckpt.step
             ELSE IF s.effect.state = "not_started" THEN 0 ELSE s.cur

RetryRun(e) ==
    LET s == Restored(Back)
        r == [Goto(s, "retrying") EXCEPT
                 !.abort = FALSE, !.retries = 0, !.running = TRUE, !.deadline = TRUE,
                 !.ends = 0,
                 !.effect = IF s.effect.state = "in_flight"
                            THEN [s.effect EXCEPT !.state = "unknown"] ELSE @]
    IN  /\ RetryAllowed /\ ~Exceeded(run) /\ ~Blocked /\ Fresh(e)
        /\ Become(e, IF ~s.model THEN Setup(r, Idle)
                     ELSE LoopTop(Goto(r, "executing"),
                                  [Idle EXCEPT !.step = Cursor(s), !.resumed = TRUE]))

-----------------------------------------------------------------------------
(* Cooperative pause. *)

PauseRun ==
    /\ "pause" \in Requests /\ run.pause \in {"RUNNING", "PAUSING"}
    /\ run' = [(IF run.place = "active" THEN TryGoto(run, "pausing") ELSE run)
                  EXCEPT !.pause = "PAUSING"]
    /\ UNCHANGED <<loop, cancels>>

\* Of a live run the status follows, PAUSING or PAUSED to EXECUTING; for a run
\* that is not live the pause state stays RESUMING.
ResumeRun ==
    /\ "pause" \in Requests /\ run.pause # "RUNNING"
    /\ run' = IF run.place # "active" THEN [run EXCEPT !.pause = "RESUMING"]
              ELSE [(IF run.machine \in {"paused", "pausing"} THEN Goto(run, "executing")
                     ELSE run) EXCEPT !.pause = "RUNNING"]
    /\ UNCHANGED <<loop, cancels>>

-----------------------------------------------------------------------------
LoopStep(e) ==
    \/ \E n \in 0..MaxBatch, cost \in 0..1 : ModelReturns(e, n, cost)
    \/ ModelFails(e) \/ BackoffEnds(e) \/ HoldEnds(e)
    \/ \E ok, safe \in BOOLEAN : (ok => safe) /\ ToolReturns(e, ok, safe)
    \/ \E done \in BOOLEAN : PersistReturns(e, done)

Next ==
    \/ \E e \in Exec : LoopStep(e) \/ StartRun(e) \/ ContinueRun(e) \/ RetryRun(e)
    \/ CancelBegin \/ CancelEnd \/ DeadlineFires
    \/ RetryBlocked \/ RetryRefused \/ PauseRun \/ ResumeRun

Spec == Init /\ [][Next]_vars

\* Providers and tools answer or time out, timers fire, promises run.
Fairness == WF_vars(CancelEnd) /\ \A e \in Exec : WF_vars(LoopStep(e))
FairSpec == Spec /\ Fairness
-----------------------------------------------------------------------------
(* Properties. *)

TypeOK ==
    /\ run \in RunState
    /\ loop \in [Exec -> LoopState]
    /\ cancels \in 0..MaxCancels

Live(e) == loop[e].pc \notin {"unused", "done"}

\* A run is driven by one execution at a time ("exactly one worker runs a run
\* at a time", server.js), although cancellation, timeout and failure clear
\* the running flag while an execution may still wait for a reply.
OneLoop == \A d, e \in Exec : Live(d) /\ Live(e) => d = e

\* The busy guard of startRun, continueRun and retryRun can be relied on: a
\* live execution of a run that has not ended keeps the running flag.
BusyFlagHolds ==
    (\E e \in Exec : Live(e)) /\ ~Ended(run) => run.running

\* "Guards on every loop iteration: cancellation, deadline" (orchestrator.js
\* header): an execution goes on under an armed deadline or a set abort flag;
\* no finally of an earlier execution disarms the timer of a later one.
DeadlineGuards ==
    (\E e \in Exec : Live(e)) /\ ~Ended(run) => run.deadline \/ run.abort

\* "multiple terminal transitions collapse to the first" (_completeRun): loop,
\* deadline, cancel request and refused retry together emit one terminal event
\* each time the run is opened.
OneTerminalEvent == run.ends <= 1

\* A late reply, timer or cancel never changes the status of a run that has
\* ended; only a new execution (retry, continuation) does.
TerminalIsFinal ==
    [][run.status \in Terminal =>
          \/ run'.status = run.status
          \/ \E e \in Exec : Fresh(e) /\ loop'[e].pc # "unused"]_vars

\* A retry resumes after the last completed checkpoint: no execution runs a
\* step whose results are already checkpointed.
NoRepeatedStep ==
    \A e \in Exec : Live(e) /\ loop[e].pc # "persist" => loop[e].step > run.ckpt.step

\* Every execution that is started ends with the run in a terminal state:
\* cancellation, deadline, pause holds, backoffs and failovers included.
EventuallyTerminal == run.running ~> run.status \in Terminal

\* A run that executes is guarded: its busy flag is up, its deadline armed, and no
\* step whose checkpoint was completed is executed again after a retry.
ExecutionGuarded == BusyFlagHolds /\ DeadlineGuards /\ NoRepeatedStep
=============================================================================
