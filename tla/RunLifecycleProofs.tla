------------------------- MODULE RunLifecycleProofs -------------------------
(* Proofs about RunLifecycle for every bound, batch size, budget and number  *)
(* of executions.                                                            *)
EXTENDS RunLifecycle, TLAPS

-----------------------------------------------------------------------------
(* Vocabulary of the proofs. *)

\* What the code between two waits returns.
Outcomes == [s: RunState, l: LoopState]

\* A run that has not ended, before any terminal event of its present opening.
Opened(s) == s.place = "active" /\ s.status \notin Terminal /\ s.ends = 0

\* A run that has just ended and was retired.
Closed(s) == /\ s.place = "terminal" /\ s.status \in Terminal
             /\ s.machine = s.status /\ s.ends = 1

\* A run that was cancelled or timed out while an execution still waits.
Dead(s) == /\ s.place = "terminal" /\ s.status = "cancelled"
           /\ s.machine = "cancelled" /\ s.ends <= 1

\* From a run that is open and busy, an execution leaves it open (and busy
\* while it waits) or closes it and is done; a dead run stays as it is.
Good(s, o) ==
  /\ o \in Outcomes /\ o.l.pc # "unused"
  /\ Opened(s) /\ s.running =>
        \/ Opened(o.s) /\ (o.l.pc = "done" \/ o.s.running)
        \/ Closed(o.s) /\ o.l.pc = "done"
  /\ Dead(s) => Dead(o.s)

\* A change of the run that keeps an open run open and a dead run dead.
Similar(s, r) ==
  /\ r \in RunState
  /\ Opened(s) /\ s.running => Opened(r) /\ r.running
  /\ Dead(s) => Dead(r)

-----------------------------------------------------------------------------
(* The operators of the agent loop. *)

\* Outcomes of a similar run are outcomes of the run.
LEMMA GoodTrans ==
  ASSUME NEW s \in RunState, NEW r, Similar(s, r), NEW o, Good(r, o)
  PROVE  Good(s, o)
  BY DEF Good, Similar

\* Ending a run retires it and counts one terminal event (_retireRun).
LEMMA EndAsOK ==
  ASSUME NEW s \in RunState, NEW st \in Terminal
  PROVE  /\ EndAs(s, st) \in RunState
         /\ EndAs(s, st).place = "terminal" /\ EndAs(s, st).status = st
         /\ EndAs(s, st).machine = st /\ EndAs(s, st).ends = s.ends + 1
<1>1. st \in Status /\ s.ends \in Nat
  BY DEF RunState, Terminal, Status
<1>2. ASSUME NEW n \in Nat
      PROVE  [s EXCEPT !.machine = st, !.status = st, !.ends = n, !.place = "terminal",
                       !.running = FALSE, !.deadline = FALSE] \in RunState
  BY <1>1 DEF RunState
<1>3. s.ends + 1 \in Nat
  BY <1>1
<1>4. EndAs(s, st) \in RunState
  BY <1>2, <1>3 DEF EndAs
<1>5. /\ EndAs(s, st).place = "terminal" /\ EndAs(s, st).status = st
      /\ EndAs(s, st).machine = st /\ EndAs(s, st).ends = s.ends + 1
  BY DEF EndAs, RunState
<1> QED BY <1>4, <1>5

\* _failRun closes an open run and leaves an ended one alone.
LEMMA FailOK ==
  ASSUME NEW s \in RunState
  PROVE  /\ failRun(s) \in RunState /\ cancelledRun(s) \in RunState
         /\ Opened(s) => Closed(failRun(s)) /\ Closed(cancelledRun(s))
         /\ Dead(s) => failRun(s) = s /\ cancelledRun(s) = s
<1>1. "failed" \in Terminal /\ "cancelled" \in Terminal
  BY DEF Terminal
<1>2. CASE Ended(s)
  BY <1>1, <1>2 DEF Ended, failRun, cancelledRun, Opened, Dead
<1>3. CASE ~Ended(s)
  BY <1>1, <1>3, EndAsOK DEF Ended, failRun, cancelledRun, Opened, Dead, Closed
<1> QED BY <1>2, <1>3

\* The finally of an execution clears the busy flag and the deadline only.
LEMMA FinishOK ==
  ASSUME NEW s \in RunState, NEW l \in LoopState
  PROVE  /\ Finish(s, l) \in Outcomes /\ Finish(s, l).l.pc = "done"
         /\ Finish(s, l).s.place = s.place /\ Finish(s, l).s.status = s.status
         /\ Finish(s, l).s.machine = s.machine /\ Finish(s, l).s.ends = s.ends
<1>1. [s EXCEPT !.running = FALSE, !.deadline = FALSE] \in RunState
  BY DEF RunState
<1>2. [l EXCEPT !.pc = "done"] \in LoopState
  BY DEF LoopState
<1>3. Finish(s, l) \in Outcomes
  BY <1>1, <1>2 DEF Finish, Outcomes
<1>4. Finish(s, l).l.pc = "done"
  BY DEF Finish, LoopState
<1>5. /\ Finish(s, l).s.place = s.place /\ Finish(s, l).s.status = s.status
      /\ Finish(s, l).s.machine = s.machine /\ Finish(s, l).s.ends = s.ends
  BY DEF Finish, RunState
<1> QED BY <1>3, <1>4, <1>5

\* The ways an execution ends.
LEMMA EndsGood ==
  ASSUME NEW s \in RunState, NEW l \in LoopState
  PROVE  /\ Good(s, Finish(s, l)) /\ Good(s, Throw(s, l))
         /\ Good(s, Finish(cancelledRun(s), l))
         /\ Good(s, completeRun(s, l))
<1>1. Good(s, Finish(s, l))
  BY FinishOK DEF Good, Opened, Dead
<1>2. Good(s, Throw(s, l))
  BY FailOK, FinishOK DEF Good, Opened, Dead, Closed, Throw
<1>3. Good(s, Finish(cancelledRun(s), l))
  BY FailOK, FinishOK DEF Good, Opened, Dead, Closed
<1>4. Good(s, completeRun(s, l))
  <2>1. CASE Ended(s)
    BY <2>1, <1>1 DEF completeRun
  <2>2. CASE ~Ended(s) /\ Legal(s.machine, CompletionPath(s))
    <3>1. "completed" \in Terminal
      BY DEF Terminal
    <3>2. EndAs(s, "completed") \in RunState /\ completeRun(s, l) = Finish(EndAs(s, "completed"), l)
      BY <2>2, <3>1, EndAsOK DEF completeRun
    <3> QED BY <2>2, <3>1, <3>2, EndAsOK, FinishOK
            DEF Good, Opened, Dead, Closed, Ended
  <2>3. CASE ~Ended(s) /\ ~Legal(s.machine, CompletionPath(s))
    BY <2>3, <1>2 DEF completeRun
  <2> QED BY <2>1, <2>2, <2>3
<1> QED BY <1>1, <1>2, <1>3, <1>4

\* An execution that goes on to wait leaves the run as it is.
LEMMA WaitGood ==
  ASSUME NEW s \in RunState, NEW l \in LoopState, l.pc \notin {"unused", "done"}
  PROVE  Good(s, [s |-> s, l |-> l])
  BY DEF Good, Outcomes, Opened, Dead

\* A legal change to a state that is not terminal keeps an open run open.
LEMMA GotoSimilar ==
  ASSUME NEW s \in RunState, NEW st \in Status \ Terminal, ~Dead(s)
  PROVE  Similar(s, Goto(s, st))
<1>1. Goto(s, st) \in RunState
  BY DEF Goto, RunState
<1>2. /\ Goto(s, st).place = s.place /\ Goto(s, st).status = st
      /\ Goto(s, st).ends = s.ends /\ Goto(s, st).running = s.running
  BY DEF Goto, RunState
<1> QED BY <1>1, <1>2 DEF Similar, Opened

\* CANCELLED has no successor: nothing moves a dead run.
LEMMA DeadIsStuck ==
  ASSUME NEW s \in RunState, Dead(s)
  PROVE  /\ ~Legal(s.machine, <<"executing">>) /\ ~Legal(s.machine, <<"waiting_for_tool">>)
         /\ ~Legal(s.machine, ToObserving(s)) /\ ~Legal(s.machine, <<"planning">>)
  BY DEF Dead, Legal, ToObserving, STATE_TRANSITIONS

\* A step that returned false.
LEMMA StopStepGood ==
  ASSUME NEW s \in RunState, NEW l \in LoopState
  PROVE  \A o \in StopStep(s, l) : Good(s, o)
  BY EndsGood DEF StopStep

\* Calling the model.
LEMMA CallModelGood ==
  ASSUME NEW s \in RunState, NEW l \in LoopState, NEW mode \in {"first", "cont", "assist"}
  PROVE  \A o \in CallModel(s, l, mode) : Good(s, o)
<1>1. [l EXCEPT !.pc = "model", !.mode = mode] \in LoopState
  BY DEF LoopState
<1>2. [l EXCEPT !.pc = "model", !.mode = mode].pc = "model"
  BY DEF LoopState
<1>3. Good(s, [s |-> s, l |-> [l EXCEPT !.pc = "model", !.mode = mode]])
  BY <1>1, <1>2, WaitGood
<1> QED BY <1>3, EndsGood, StopStepGood DEF CallModel

\* The top of the loop, or what follows the loop.
LEMMA LoopTopGood ==
  ASSUME NEW s \in RunState, NEW l \in LoopState
  PROVE  \A o \in LoopTop(s, l) : Good(s, o)
<1> DEFINE r == [s EXCEPT !.cur = s.cur + 1]
           k == [l EXCEPT !.step = l.step + 1, !.rounds = 0]
<1>1. s.cur \in Nat /\ l.step \in Nat /\ 0 \in 0..MaxRounds
  BY RunLifecycleAssumption DEF RunState, LoopState
<1>2. r \in RunState
  BY <1>1 DEF RunState
<1>3. k \in LoopState
  <2>1. ASSUME NEW n \in Nat PROVE [l EXCEPT !.step = n, !.rounds = 0] \in LoopState
    BY <1>1 DEF LoopState
  <2>2. l.step + 1 \in Nat
    BY <1>1
  <2> QED BY <2>1, <2>2
<1>4. Similar(s, r)
  BY <1>2 DEF Similar, Opened, Dead, RunState
<1>5. \A o \in CallModel(r, k, "first") : Good(s, o)
  BY <1>2, <1>3, <1>4, CallModelGood, GoodTrans
<1> QED BY <1>5, EndsGood DEF LoopTop

\* A step that returned true.
LEMMA NextStepGood ==
  ASSUME NEW s \in RunState, NEW l \in LoopState
  PROVE  \A o \in NextStep(s, l) : Good(s, o)
  BY LoopTopGood, EndsGood DEF NextStep

\* _executeRun of a run that is not dead.
LEMMA SetupGood ==
  ASSUME NEW s \in RunState, NEW l \in LoopState, ~Dead(s)
  PROVE  \A o \in Setup(s, l) : Good(s, o)
<1> DEFINE planned == Goto(s, "planning")
           ready == [Goto(planned, "executing") EXCEPT !.model = TRUE]
<1>1. /\ "planning" \in Status \ Terminal /\ "executing" \in Status \ Terminal
  BY DEF Status, Terminal
<1>2. ~Dead(s)
  OBVIOUS
<1>3. Similar(s, planned) /\ planned \in RunState /\ ~Dead(planned)
  <2>1. Similar(s, planned)
    BY <1>1, <1>2, GotoSimilar
  <2>2. planned.status = "planning"
    BY DEF Goto, RunState
  <2> QED BY <2>1, <2>2 DEF Similar, Dead
<1>4. Similar(planned, Goto(planned, "executing"))
  BY <1>1, <1>3, GotoSimilar
<1>5. Goto(planned, "executing") \in RunState
  BY <1>4 DEF Similar
<1>6. ready \in RunState
  BY <1>5 DEF RunState
<1>7. /\ ready.place = s.place /\ ready.status = "executing"
      /\ ready.ends = s.ends /\ ready.running = s.running
  BY DEF Goto, RunState
<1>8. Similar(s, ready)
  BY <1>1, <1>2, <1>6, <1>7 DEF Similar, Opened
<1>9. \A o \in LoopTop(ready, l) : Good(s, o)
  BY <1>6, <1>8, LoopTopGood, GoodTrans
<1>10. Good(s, Throw(planned, l))
  BY <1>3, EndsGood, GoodTrans
<1> QED BY <1>9, <1>10, EndsGood DEF Setup

\* Dispatching a tool call, with the pause hold of the gated executor.
LEMMA DispatchGood ==
  ASSUME NEW s \in RunState, NEW l \in LoopState
  PROVE  \A o \in Dispatch(s, l) : Good(s, o)
<1> DEFINE marked(safe) == [s EXCEPT !.tools = s.tools + 1,
                                     !.effect = [state |-> "in_flight", safe |-> safe]]
           held(safe) == IF s.pause \in {"PAUSING", "PAUSED"}
                         THEN [(IF s.place = "active" THEN TryGoto(marked(safe), "paused")
                                ELSE marked(safe)) EXCEPT !.pause = "PAUSED"]
                         ELSE marked(safe)
           wait(safe) == [l EXCEPT !.pc = IF held(safe).pause = "PAUSED" THEN "hold" ELSE "tool"]
<1>1. SUFFICES ASSUME NEW safe \in BOOLEAN
               PROVE  Good(s, [s |-> held(safe), l |-> wait(safe)])
  BY DEF Dispatch
<1>2. marked(safe) \in RunState
  <2>1. s.tools + 1 \in Nat
    BY DEF RunState
  <2>2. [state |-> "in_flight", safe |-> safe] \in Effect
    BY DEF Effect
  <2>3. ASSUME NEW n \in Nat, NEW f \in Effect
        PROVE  [s EXCEPT !.tools = n, !.effect = f] \in RunState
    BY DEF RunState
  <2> QED BY <2>1, <2>2, <2>3
<1>3. Similar(s, marked(safe)) /\ marked(safe).place = s.place
  BY <1>2 DEF Similar, Opened, Dead, RunState
<1>4. /\ TryGoto(marked(safe), "paused") \in RunState
      /\ s.place = "active" => Similar(s, TryGoto(marked(safe), "paused"))
  <2>1. "paused" \in Status \ Terminal
    BY DEF Status, Terminal
  <2>2. Goto(marked(safe), "paused") \in RunState
    BY <1>2, <2>1 DEF Goto, RunState
  <2>3. ASSUME s.place = "active"
        PROVE  Similar(s, Goto(marked(safe), "paused"))
    <3>1. ~Dead(marked(safe))
      BY <1>3, <2>3 DEF Dead
    <3>2. Similar(marked(safe), Goto(marked(safe), "paused"))
      BY <1>2, <2>1, <3>1, GotoSimilar
    <3> QED BY <1>3, <3>2 DEF Similar
  <2> QED BY <1>2, <1>3, <2>2, <2>3 DEF TryGoto
<1>5. held(safe) \in RunState /\ Similar(s, held(safe))
  <2>1. ASSUME NEW r \in RunState, Similar(s, r)
        PROVE  /\ [r EXCEPT !.pause = "PAUSED"] \in RunState
               /\ Similar(s, [r EXCEPT !.pause = "PAUSED"])
    <3>1. [r EXCEPT !.pause = "PAUSED"] \in RunState
      BY DEF RunState
    <3> QED BY <2>1, <3>1 DEF Similar, Opened, Dead, RunState
  <2> QED BY <1>2, <1>3, <1>4, <2>1
<1>6. wait(safe) \in LoopState /\ wait(safe).pc \in {"hold", "tool"}
  BY DEF LoopState
<1>7. Good(held(safe), [s |-> held(safe), l |-> wait(safe)])
  BY <1>5, <1>6, WaitGood
<1> QED BY <1>5, <1>7, GoodTrans

\* A round of tool calls.
LEMMA ToolRoundGood ==
  ASSUME NEW s \in RunState, NEW l \in LoopState, NEW n \in 0..MaxBatch,
         NEW mode \in {"first", "cont", "assist"}
  PROVE  \A o \in ToolRound(s, l, n, mode) : Good(s, o)
<1>1. CASE ~Legal(s.machine, <<"waiting_for_tool">>)
  BY <1>1, EndsGood DEF ToolRound
<1>2. CASE Legal(s.machine, <<"waiting_for_tool">>)
  <2>1. "waiting_for_tool" \in Status \ Terminal
    BY DEF Status, Terminal
  <2>2. Similar(s, Goto(s, "waiting_for_tool"))
    BY <1>2, <2>1, GotoSimilar, DeadIsStuck
  <2>3. [l EXCEPT !.left = n, !.mode = mode] \in LoopState
    BY DEF LoopState
  <2>4. Goto(s, "waiting_for_tool") \in RunState
    BY <2>2 DEF Similar
  <2> QED BY <1>2, <2>2, <2>3, <2>4, DispatchGood, GoodTrans DEF ToolRound
<1> QED BY <1>1, <1>2

\* The end of a step and its checkpoint.
LEMMA StepDoneGood ==
  ASSUME NEW s \in RunState, NEW l \in LoopState, NEW n \in 0..MaxBatch
  PROVE  \A o \in StepDone(s, l, n) : Good(s, o)
<1>1. CASE ~Legal(s.machine, ToObserving(s))
  BY <1>1, EndsGood DEF StepDone
<1>2. CASE Legal(s.machine, ToObserving(s))
  <2> DEFINE c == [step |-> l.step, spend |-> s.spend, tools |-> s.tools,
                   assisted |-> s.assisted]
             r == [Goto(s, "observing") EXCEPT !.answer = TRUE, !.ckpt = c]
             k == [l EXCEPT !.pc = "persist", !.left = n]
  <2>1. "observing" \in Status \ Terminal
    BY DEF Status, Terminal
  <2>2. Similar(s, Goto(s, "observing"))
    BY <1>2, <2>1, GotoSimilar, DeadIsStuck
  <2>3. c \in Checkpoint
    BY DEF RunState, LoopState, Checkpoint
  <2>4. ASSUME NEW g \in RunState, NEW d \in Checkpoint, Similar(s, g)
        PROVE  Similar(s, [g EXCEPT !.answer = TRUE, !.ckpt = d])
    <3>1. [g EXCEPT !.answer = TRUE, !.ckpt = d] \in RunState
      BY DEF RunState
    <3> QED BY <2>4, <3>1 DEF Similar, Opened, Dead, RunState
  <2>5. Goto(s, "observing") \in RunState
    BY <2>2 DEF Similar
  <2>6. Similar(s, r) /\ r \in RunState
    BY <2>2, <2>3, <2>4, <2>5 DEF Similar
  <2>7. k \in LoopState /\ k.pc = "persist"
    BY DEF LoopState
  <2>8. Good(r, [s |-> r, l |-> k])
    BY <2>6, <2>7, WaitGood
  <2> QED BY <1>2, <2>6, <2>8, GoodTrans DEF StepDone
<1> QED BY <1>1, <1>2

\* A reply of the model.
LEMMA ReplyGood ==
  ASSUME NEW s \in RunState, NEW l \in LoopState, NEW n \in 0..MaxBatch
  PROVE  \A o \in Reply(s, l, n) : Good(s, o)
<1>1. CASE l.mode # "assist" /\ n > 0 /\ l.rounds < MaxRounds
  <2>1. [l EXCEPT !.rounds = l.rounds + 1] \in LoopState
    BY <1>1, RunLifecycleAssumption DEF LoopState
  <2>2. \A o \in ToolRound(s, [l EXCEPT !.rounds = l.rounds + 1], n, "cont") : Good(s, o)
    BY <2>1, ToolRoundGood
  <2> QED BY <1>1, <2>2, StopStepGood, EndsGood DEF Reply
<1>2. CASE ~(l.mode # "assist" /\ n > 0 /\ l.rounds < MaxRounds)
  <2> DEFINE r == [s EXCEPT !.assisted = TRUE]
  <2>1. r \in RunState
    BY DEF RunState
  <2>2. Similar(s, r)
    BY <2>1 DEF Similar, Opened, Dead, RunState
  <2>3. 1 \in 0..MaxBatch
    BY RunLifecycleAssumption
  <2>4. \A o \in ToolRound(r, l, 1, "assist") : Good(s, o)
    BY <2>1, <2>2, <2>3, ToolRoundGood, GoodTrans
  <2> QED BY <1>2, <2>4, StopStepGood, StepDoneGood DEF Reply
<1> QED BY <1>1, <1>2

\* A provider error.
LEMMA ReplyErrorGood ==
  ASSUME NEW s \in RunState, NEW l \in LoopState
  PROVE  \A o \in ReplyError(s, l) : Good(s, o)
<1> DEFINE r == [s EXCEPT !.retries = s.retries + 1]
           k == [l EXCEPT !.pc = "backoff"]
<1>1. ASSUME s.retries < MaxRetries
      PROVE  Good(s, [s |-> r, l |-> k])
  <2>1. r \in RunState
    BY <1>1, RunLifecycleAssumption DEF RunState
  <2>2. Similar(s, r)
    BY <2>1 DEF Similar, Opened, Dead, RunState
  <2>3. k \in LoopState /\ k.pc = "backoff"
    BY DEF LoopState
  <2>4. Good(r, [s |-> r, l |-> k])
    BY <2>1, <2>3, WaitGood
  <2> QED BY <2>2, <2>4, GoodTrans
<1> QED BY <1>1, EndsGood, StopStepGood, NextStepGood DEF ReplyError

\* A tool result.
LEMMA ResultGood ==
  ASSUME NEW s \in RunState, NEW l \in LoopState, NEW ok \in BOOLEAN, NEW safe \in BOOLEAN
  PROVE  \A o \in Result(s, l, ok, safe) : Good(s, o)
<1> DEFINE f == [state |-> IF ok THEN "completed" ELSE "failed", safe |-> safe]
           r == [s EXCEPT !.effect = f, !.spend = IF ok THEN s.spend + 1 ELSE s.spend]
<1>1. r \in RunState
  <2>1. f \in Effect
    BY DEF Effect
  <2>2. (IF ok THEN s.spend + 1 ELSE s.spend) \in Nat
    BY DEF RunState
  <2>3. ASSUME NEW g \in Effect, NEW n \in Nat
        PROVE  [s EXCEPT !.effect = g, !.spend = n] \in RunState
    BY DEF RunState
  <2> QED BY <2>1, <2>2, <2>3
<1>2. Similar(s, r)
  BY <1>1 DEF Similar, Opened, Dead, RunState
<1>3. ASSUME l.left > 1
      PROVE  \A o \in Dispatch(r, [l EXCEPT !.left = l.left - 1]) : Good(s, o)
  <2>1. [l EXCEPT !.left = l.left - 1] \in LoopState
    BY <1>3, RunLifecycleAssumption DEF LoopState
  <2> QED BY <1>1, <1>2, <2>1, DispatchGood, GoodTrans
<1>4. ASSUME Legal(r.machine, ToObserving(r))
      PROVE  \A o \in CallModel(Goto(r, "executing"), [l EXCEPT !.left = 0], l.mode) : Good(s, o)
  <2>1. "executing" \in Status \ Terminal /\ l.mode \in {"first", "cont", "assist"}
    BY DEF Status, Terminal, LoopState
  <2>2. Similar(r, Goto(r, "executing"))
    BY <1>1, <1>4, <2>1, GotoSimilar, DeadIsStuck
  <2>3. [l EXCEPT !.left = 0] \in LoopState
    BY RunLifecycleAssumption DEF LoopState
  <2>4. Goto(r, "executing") \in RunState
    BY <2>2 DEF Similar
  <2>5. \A o \in CallModel(Goto(r, "executing"), [l EXCEPT !.left = 0], l.mode) : Good(r, o)
    BY <1>1, <2>1, <2>2, <2>3, <2>4, CallModelGood, GoodTrans
  <2> QED BY <1>1, <1>2, <2>5, GoodTrans
<1>5. Good(s, Throw(r, l))
  BY <1>1, <1>2, EndsGood, GoodTrans
<1> QED BY <1>3, <1>4, <1>5 DEF Result

\* A persisted checkpoint.
LEMMA PersistedGood ==
  ASSUME NEW s \in RunState, NEW l \in LoopState, NEW done \in BOOLEAN
  PROVE  \A o \in Persisted(s, l, done) : Good(s, o)
<1>1. ASSUME Legal(s.machine, <<"executing">>)
      PROVE  \A o \in NextStep(Goto(s, "executing"), l) : Good(s, o)
  <2>1. "executing" \in Status \ Terminal
    BY DEF Status, Terminal
  <2>2. Similar(s, Goto(s, "executing"))
    BY <1>1, <2>1, GotoSimilar, DeadIsStuck
  <2>3. Goto(s, "executing") \in RunState
    BY <2>2 DEF Similar
  <2> QED BY <2>2, <2>3, NextStepGood, GoodTrans
<1> QED BY <1>1, EndsGood DEF Persisted

-----------------------------------------------------------------------------
(* The actions. *)

\* What execution e does to the run and to itself is the outcome o.
Does(e, o) == run' = o.s /\ loop' = [loop EXCEPT ![e] = o.l] /\ cancels' = cancels

\* A step of the agent loop of e has a good outcome.
LEMMA LoopStepGood ==
  ASSUME TypeOK, NEW e \in Exec, LoopStep(e)
  PROVE  Live(e) /\ \E o : Good(run, o) /\ Does(e, o)
<1>1. run \in RunState /\ loop[e] \in LoopState
  BY DEF TypeOK
<1>2. ASSUME NEW n \in 0..MaxBatch, NEW cost \in 0..1, ModelReturns(e, n, cost)
      PROVE  Live(e) /\ \E o : Good(run, o) /\ Does(e, o)
  <2> DEFINE r == [run EXCEPT !.spend = run.spend + cost]
  <2>1. r \in RunState
    BY <1>1 DEF RunState
  <2>2. Similar(run, r)
    BY <1>1, <2>1 DEF Similar, Opened, Dead, RunState
  <2>3. \A o \in Reply(r, loop[e], n) : Good(run, o)
    BY <1>1, <2>1, <2>2, ReplyGood, GoodTrans
  <2> QED BY <1>2, <2>3 DEF ModelReturns, Become, At, Live, Does
<1>3. CASE ModelFails(e)
  BY <1>1, <1>3, ReplyErrorGood DEF ModelFails, Become, At, Live, Does
<1>4. CASE BackoffEnds(e)
  BY <1>1, <1>4, StopStepGood, NextStepGood DEF BackoffEnds, Become, At, Live, Does
<1>5. CASE HoldEnds(e)
  <2> DEFINE k == [loop[e] EXCEPT !.pc = "tool"]
  <2>1. k \in LoopState /\ k.pc = "tool"
    BY <1>1 DEF LoopState
  <2>2. Good(run, [s |-> run, l |-> k])
    BY <1>1, <2>1, WaitGood
  <2> QED BY <1>5, <2>2 DEF HoldEnds, Become, At, Live, Does
<1>6. ASSUME NEW ok \in BOOLEAN, NEW safe \in BOOLEAN, ToolReturns(e, ok, safe)
      PROVE  Live(e) /\ \E o : Good(run, o) /\ Does(e, o)
  BY <1>1, <1>6, ResultGood DEF ToolReturns, Become, At, Live, Does
<1>7. ASSUME NEW done \in BOOLEAN, PersistReturns(e, done)
      PROVE  Live(e) /\ \E o : Good(run, o) /\ Does(e, o)
  BY <1>1, <1>7, PersistedGood DEF PersistReturns, Become, At, Live, Does
<1> QED BY <1>2, <1>3, <1>4, <1>5, <1>6, <1>7 DEF LoopStep

\* Launching an execution has a good outcome.
LEMMA LaunchGood ==
  ASSUME TypeOK, NEW e \in Exec, NEW s \in RunState, s.status \notin Terminal, Launch(s, e)
  PROVE  \E o : Good([s EXCEPT !.running = TRUE], o) /\ Does(e, o)
<1> DEFINE r == [s EXCEPT !.running = TRUE]
           q == [s EXCEPT !.running = TRUE, !.abort = FALSE, !.deadline = TRUE,
                          !.retries = IF s.machine = "created" THEN 0 ELSE s.retries]
<1>1. r \in RunState /\ q \in RunState
  <2>1. r \in RunState
    BY DEF RunState
  <2>2. 0 \in 0..MaxRetries
    BY RunLifecycleAssumption
  <2>3. (IF s.machine = "created" THEN 0 ELSE s.retries) \in 0..MaxRetries
    BY <2>2 DEF RunState
  <2>4. ASSUME NEW n \in 0..MaxRetries
        PROVE  [s EXCEPT !.running = TRUE, !.abort = FALSE, !.deadline = TRUE,
                         !.retries = n] \in RunState
    BY DEF RunState
  <2> QED BY <2>1, <2>3, <2>4
<1>2. Idle \in LoopState
  BY RunLifecycleAssumption DEF Idle, LoopState
<1>3. Similar(r, q) /\ ~Dead(q)
  BY <1>1 DEF Similar, Opened, Dead, RunState, Terminal
<1>4. \A o \in Setup(q, Idle) : Good(r, o)
  BY <1>1, <1>2, <1>3, SetupGood, GoodTrans
<1> QED BY <1>4 DEF Launch, Become, Does

\* Restoring the newest checkpoint keeps the run well typed.
LEMMA RestoredOK ==
  ASSUME NEW s \in RunState
  PROVE  /\ Restored(s) \in RunState /\ Restored(s).place = s.place
         /\ Restored(s).effect = s.effect
<1>1. /\ s.ckpt.step \in Nat /\ s.ckpt.spend \in Nat /\ s.ckpt.tools \in Nat
      /\ s.ckpt.assisted \in BOOLEAN
  BY DEF RunState, Checkpoint
<1>2. [s EXCEPT !.spend = s.ckpt.spend, !.tools = s.ckpt.tools,
                !.assisted = s.ckpt.assisted, !.cur = s.ckpt.step] \in RunState
  BY <1>1 DEF RunState
<1> QED BY <1>2 DEF Restored, RunState

\* A retry has the outcome of an open and busy run.
LEMMA RetryGood ==
  ASSUME TypeOK, NEW e \in Exec, RetryRun(e)
  PROVE  \E r \in RunState, o \in Outcomes : Opened(r) /\ r.running /\ Good(r, o) /\ Does(e, o)
<1> DEFINE s == Restored(Back)
           f == IF s.effect.state = "in_flight"
                THEN [s.effect EXCEPT !.state = "unknown"] ELSE s.effect
           r == [Goto(s, "retrying") EXCEPT
                   !.abort = FALSE, !.retries = 0, !.running = TRUE, !.deadline = TRUE,
                   !.ends = 0, !.effect = f]
           k == [Idle EXCEPT !.step = Cursor(s), !.resumed = TRUE]
<1>1. Back \in RunState /\ Back.place = "active"
  BY DEF TypeOK, Back, RunState
<1>2. s \in RunState /\ s.place = "active"
  BY <1>1, RestoredOK
<1>3. f \in Effect
  BY <1>2 DEF RunState, Effect
<1>4. Goto(s, "retrying") \in RunState /\ Goto(s, "retrying").place = "active"
      /\ Goto(s, "retrying").status = "retrying"
  BY <1>2 DEF Goto, RunState, Status
<1>5. r \in RunState
  <2>1. 0 \in 0..MaxRetries
    BY RunLifecycleAssumption
  <2>2. ASSUME NEW g \in RunState, NEW h \in Effect
        PROVE  [g EXCEPT !.abort = FALSE, !.retries = 0, !.running = TRUE, !.deadline = TRUE,
                         !.ends = 0, !.effect = h] \in RunState
    BY <2>1 DEF RunState
  <2> QED BY <1>3, <1>4, <2>2
<1>6. Opened(r) /\ r.running
  BY <1>4 DEF Opened, Terminal, RunState
<1>7. Idle \in LoopState /\ k \in LoopState
  <2>1. Cursor(s) \in Nat
    BY <1>2 DEF Cursor, RunState, Checkpoint
  <2>2. Idle \in LoopState
    BY RunLifecycleAssumption DEF Idle, LoopState
  <2> QED BY <2>1, <2>2 DEF LoopState
<1>8. \A o \in Setup(r, Idle) : Good(r, o)
  BY <1>5, <1>6, <1>7, SetupGood DEF Opened, Dead
<1>9. \A o \in LoopTop(Goto(r, "executing"), k) : Good(r, o)
  <2>1. Similar(r, Goto(r, "executing"))
    BY <1>5, <1>6, GotoSimilar DEF Opened, Dead, Status, Terminal
  <2>2. Goto(r, "executing") \in RunState
    BY <2>1 DEF Similar
  <2> QED BY <1>5, <1>7, <2>1, <2>2, LoopTopGood, GoodTrans
<1>10. Goto(s, "retrying").effect = s.effect
  BY <1>2 DEF Goto, RunState
<1>11. Become(e, IF ~s.model THEN Setup(r, Idle) ELSE LoopTop(Goto(r, "executing"), k))
  BY <1>10 DEF RetryRun
<1>12. \E o : Good(r, o) /\ Does(e, o)
  BY <1>8, <1>9, <1>11 DEF Become, Does
<1> QED BY <1>5, <1>6, <1>12 DEF Good

\* A well-typed outcome keeps the state well typed.
LEMMA DoesType ==
  ASSUME TypeOK, NEW e \in Exec, NEW o \in Outcomes, Does(e, o)
  PROVE  TypeOK'
  BY DEF TypeOK, Does, Outcomes

\* Reopening a run (continueRun) gives a run that has not ended.
LEMMA ReopenedOK ==
  ASSUME NEW s \in RunState
  PROVE  Reopened(s) \in RunState /\ Reopened(s).status \notin Terminal
<1> DEFINE back == IF s.place = "terminal"
                   THEN [s EXCEPT !.place = "active", !.abort = FALSE, !.running = FALSE]
                   ELSE s
           again == [Goto(back, "retrying") EXCEPT !.ends = 0]
<1>1. back \in RunState
  BY DEF RunState
<1>2. "retrying" \in Status /\ "retrying" \notin Terminal
  BY DEF Status, Terminal
<1>3. Goto(back, "retrying") \in RunState
  BY <1>1, <1>2 DEF Goto, RunState
<1>4. again \in RunState
  BY <1>3 DEF RunState
<1>5. again.status = "retrying"
  BY <1>1 DEF Goto, RunState
<1>6. Reopened(s) = IF back.status \in Terminal THEN again ELSE back
  BY DEF Reopened
<1> QED BY <1>1, <1>2, <1>4, <1>5, <1>6

\* Setting the flags a request or a timer sets keeps the run well typed.
LEMMA FlagsOK ==
  ASSUME NEW s \in RunState
  PROVE  /\ [s EXCEPT !.abort = TRUE, !.deadline = FALSE] \in RunState
         /\ [s EXCEPT !.running = FALSE] \in RunState
         /\ \A n \in Nat : [s EXCEPT !.ends = n] \in RunState
         /\ \A p \in {"RUNNING", "PAUSING", "PAUSED", "RESUMING"} :
               [s EXCEPT !.pause = p] \in RunState
         /\ TryGoto(s, "pausing") \in RunState /\ Goto(s, "executing") \in RunState
<1>1. "pausing" \in Status /\ "executing" \in Status
  BY DEF Status
<1>2. Goto(s, "pausing") \in RunState /\ Goto(s, "executing") \in RunState
  BY <1>1 DEF Goto, RunState
<1>3. TryGoto(s, "pausing") \in RunState
  BY <1>2 DEF TryGoto
<1>4. /\ [s EXCEPT !.abort = TRUE, !.deadline = FALSE] \in RunState
      /\ [s EXCEPT !.running = FALSE] \in RunState
  BY DEF RunState
<1>5. \A n \in Nat : [s EXCEPT !.ends = n] \in RunState
  BY DEF RunState
<1>6. \A p \in {"RUNNING", "PAUSING", "PAUSED", "RESUMING"} :
         [s EXCEPT !.pause = p] \in RunState
  BY DEF RunState
<1> QED BY <1>2, <1>3, <1>4, <1>5, <1>6

-----------------------------------------------------------------------------
(* Type correctness. *)

\* The run has its type at first.
LEMMA InitType == Init => TypeOK
<1> SUFFICES ASSUME Init PROVE TypeOK
  OBVIOUS
<1>1. 0 \in 0..MaxRetries /\ 0 \in 0..MaxRounds /\ 0 \in 0..MaxBatch /\ 0 \in 0..MaxCancels
  BY RunLifecycleAssumption
<1>2. Idle \in LoopState
  BY <1>1 DEF Idle, LoopState
<1>3. run \in RunState
  BY <1>1 DEF Init, RunState, Status, Effect, Checkpoint
<1> QED BY <1>1, <1>2, <1>3 DEF Init, TypeOK

\* Every step of an execution, a timer or a client keeps it.
LEMMA StepType == TypeOK /\ [Next]_vars => TypeOK'
<1> SUFFICES ASSUME TypeOK, [Next]_vars PROVE TypeOK'
  OBVIOUS
<1>0. run \in RunState /\ loop \in [Exec -> LoopState] /\ cancels \in 0..MaxCancels
  BY DEF TypeOK
<1>1. ASSUME NEW e \in Exec, LoopStep(e) PROVE TypeOK'
  BY <1>1, LoopStepGood, DoesType DEF Good
<1>2. ASSUME NEW e \in Exec, StartRun(e) PROVE TypeOK'
  BY <1>0, <1>2, LaunchGood, DoesType DEF StartRun, MayStart, Good
<1>3. ASSUME NEW e \in Exec, ContinueRun(e) PROVE TypeOK'
  BY <1>0, <1>3, ReopenedOK, LaunchGood, DoesType DEF ContinueRun, Good
<1>4. ASSUME NEW e \in Exec, RetryRun(e) PROVE TypeOK'
  BY <1>4, RetryGood, DoesType DEF Good
<1>5. CASE CancelBegin
  <2>1. cancels + 1 \in 0..MaxCancels
    BY <1>0, <1>5, RunLifecycleAssumption DEF CancelBegin
  <2> QED BY <1>0, <1>5, <2>1, FlagsOK DEF CancelBegin, TypeOK
<1>6. CASE CancelEnd
  <2>1. cancels - 1 \in 0..MaxCancels
    BY <1>0, <1>6, RunLifecycleAssumption DEF CancelEnd
  <2> QED BY <1>0, <1>6, <2>1, FlagsOK, FailOK DEF CancelEnd, TypeOK
<1>7. CASE DeadlineFires
  BY <1>0, <1>7, FlagsOK, FailOK DEF DeadlineFires, TypeOK
<1>8. CASE RetryBlocked
  <2>1. Back \in RunState
    BY <1>0 DEF Back, RunState
  <2> QED BY <1>0, <1>8, <2>1 DEF RetryBlocked, TypeOK
<1>9. CASE RetryRefused
  <2>1. run.ends + 1 \in Nat
    BY <1>0 DEF RunState
  <2> QED BY <1>0, <1>9, <2>1, FlagsOK DEF RetryRefused, TypeOK
<1>10. CASE PauseRun
  BY <1>0, <1>10, FlagsOK DEF PauseRun, TypeOK
<1>11. CASE ResumeRun
  BY <1>0, <1>11, FlagsOK DEF ResumeRun, TypeOK
<1>12. CASE UNCHANGED vars
  BY <1>12 DEF vars, TypeOK
<1> QED BY <1>1, <1>2, <1>3, <1>4, <1>5, <1>6, <1>7, <1>8, <1>9, <1>10, <1>11, <1>12 DEF Next

\* The run, its executions and the pending cancel requests keep their types, in
\* particular the retry counter stays within maxRetries and the tool rounds of
\* a step within their limit, whatever requests clients make.
THEOREM TypeCorrect == Spec => []TypeOK
  BY InitType, StepType, PTL DEF Spec

-----------------------------------------------------------------------------
(* One execution, one terminal event.  The theorems are about clients that  *)
(* do not continue the run: a continuation reopens a run whose execution    *)
(* still waits (run life_two_loops).                                        *)

\* An open run has had no terminal event and its live execution holds the flag.
OpenInv == ~Ended(run) => run.ends = 0 /\ \A e \in Exec : Live(e) => run.running

\* When a run has ended, an execution can only be waiting if it was cancelled
\* or timed out, and from CANCELLED no state can be reached.
EndedInv == run.status \in Terminal =>
              run.machine = run.status /\ \A e \in Exec : Live(e) => Dead(run)

\* A run is retired with its terminal status; a failed run that a blocked retry
\* left among the active ones is within its budget, so no retry is refused.
PlaceInv == /\ run.place = "terminal" => run.status \in Terminal
            /\ run.status = "failed" /\ run.place = "active" => ~Exceeded(run)

LifeInv == OneLoop /\ OneTerminalEvent /\ OpenInv /\ EndedInv /\ PlaceInv

\* No execution lives at first.
LEMMA InitLife == Init => LifeInv
<1> SUFFICES ASSUME Init PROVE LifeInv
  OBVIOUS
<1>1. \A e \in Exec : ~Live(e)
  BY DEF Init, Live, Idle
<1>2. run.place = "active" /\ run.status = "created" /\ run.ends = 0
  BY DEF Init
<1> QED BY <1>1, <1>2 DEF LifeInv, OneLoop, OneTerminalEvent, OpenInv, EndedInv, PlaceInv, Terminal

\* The invariant holds after an execution that was alone has done its step.
LEMMA DoesLife ==
  ASSUME TypeOK, NEW e \in Exec, NEW o \in Outcomes, Does(e, o),
         \A d \in Exec : Live(d) => d = e,
         \/ Opened(o.s) /\ (o.l.pc = "done" \/ o.s.running)
         \/ Closed(o.s) /\ o.l.pc = "done"
         \/ Dead(o.s)
  PROVE  LifeInv'
<1>1. run' = o.s /\ \A d \in Exec : loop'[d] = IF d = e THEN o.l ELSE loop[d]
  BY DEF Does, TypeOK
<1>2. \A d \in Exec : Live(d)' => d = e /\ o.l.pc # "done"
  BY <1>1 DEF Live
<1>3. OneLoop'
  BY <1>2 DEF OneLoop
<1>4. o.s \in RunState
  BY DEF Outcomes
<1>5. CASE Opened(o.s) /\ (o.l.pc = "done" \/ o.s.running)
  <2>1. run'.status \notin Terminal /\ run'.place = "active" /\ run'.ends = 0
    BY <1>1, <1>5 DEF Opened
  <2>2. \A d \in Exec : Live(d)' => run'.running
    BY <1>1, <1>2, <1>5
  <2> QED BY <1>3, <2>1, <2>2
          DEF LifeInv, OneTerminalEvent, OpenInv, EndedInv, PlaceInv, Terminal
<1>6. CASE Closed(o.s) /\ o.l.pc = "done"
  <2>1. /\ run'.status \in Terminal /\ run'.place = "terminal"
        /\ run'.machine = run'.status /\ run'.ends = 1
    BY <1>1, <1>6 DEF Closed
  <2>2. \A d \in Exec : ~Live(d)'
    BY <1>2, <1>6
  <2> QED BY <1>3, <2>1, <2>2
          DEF LifeInv, OneTerminalEvent, OpenInv, EndedInv, PlaceInv, Ended
<1>7. CASE Dead(o.s)
  <2>1. Dead(run)'
    BY <1>1, <1>7 DEF Dead
  <2>2. run'.status \in Terminal /\ run'.place = "terminal"
    BY <2>1 DEF Dead, Terminal
  <2> QED BY <1>3, <2>1, <2>2
          DEF LifeInv, OneTerminalEvent, OpenInv, EndedInv, PlaceInv, Ended, Dead
<1> QED BY <1>5, <1>6, <1>7

\* The invariant holds after a request or a timer that leaves the executions
\* alone, if it keeps an open run open, or makes it dead, or changes an ended
\* run in its flags only.
LEMMA RequestLife ==
  ASSUME TypeOK, LifeInv, loop' = loop,
         \/ ~Ended(run) /\ Opened(run') /\ run'.running = run.running
         \/ ~Ended(run) /\ Dead(run')
         \/ /\ Ended(run) /\ run'.status = run.status /\ run'.machine = run.machine
            /\ run'.place = run.place /\ run'.ends = run.ends /\ run'.spend = run.spend
  PROVE  LifeInv'
<1>1. \A d \in Exec : Live(d)' <=> Live(d)
  BY DEF Live
<1>2. OneLoop'
  BY <1>1 DEF LifeInv, OneLoop
<1>3. CASE ~Ended(run) /\ Opened(run') /\ run'.running = run.running
  <2>1. run'.status \notin Terminal /\ run'.place = "active" /\ run'.ends = 0
    BY <1>3 DEF Opened
  <2>2. \A d \in Exec : Live(d)' => run'.running
    BY <1>1, <1>3 DEF LifeInv, OpenInv
  <2> QED BY <1>2, <2>1, <2>2
          DEF LifeInv, OneTerminalEvent, OpenInv, EndedInv, PlaceInv, Terminal
<1>4. CASE Dead(run')
  <2>1. Dead(run)'
    BY <1>4 DEF Dead
  <2>2. run'.status \in Terminal /\ run'.place = "terminal"
    BY <2>1 DEF Dead, Terminal
  <2> QED BY <1>2, <2>1, <2>2
          DEF LifeInv, OneTerminalEvent, OpenInv, EndedInv, PlaceInv, Ended, Dead
<1>5. CASE /\ Ended(run) /\ run'.status = run.status /\ run'.machine = run.machine
           /\ run'.place = run.place /\ run'.ends = run.ends /\ run'.spend = run.spend
  BY <1>1, <1>2, <1>5
     DEF LifeInv, OneTerminalEvent, OpenInv, EndedInv, PlaceInv, Ended, Dead, Exceeded
<1> QED BY <1>3, <1>4, <1>5

\* The fields of an ended run and the legal successors of its state.
LEMMA EndedStuck ==
  ASSUME TypeOK, LifeInv, Ended(run)
  PROVE  /\ run.status \in Terminal /\ run.machine = run.status
         /\ ~Legal(run.machine, <<"pausing">>)
         /\ failRun(run) = run /\ cancelledRun(run) = run
<1>1. run.status \in Terminal /\ run.machine = run.status
  BY DEF LifeInv, PlaceInv, EndedInv, Ended, TypeOK, RunState
<1>2. ~Legal(run.machine, <<"pausing">>)
  BY <1>1 DEF Legal, STATE_TRANSITIONS, Terminal
<1> QED BY <1>1, <1>2 DEF failRun, cancelledRun

\* Every step keeps at most one live execution and one terminal event.
LEMMA StepLife ==
  ASSUME "continue" \notin Requests
  PROVE  TypeOK /\ LifeInv /\ [Next]_vars => LifeInv'
<1> SUFFICES ASSUME TypeOK, LifeInv, [Next]_vars PROVE LifeInv'
  OBVIOUS
<1>0. run \in RunState /\ (~Ended(run) => Opened(run))
  BY DEF TypeOK, LifeInv, OpenInv, Opened, Ended
<1>1. ASSUME NEW e \in Exec, LoopStep(e) PROVE LifeInv'
  <2>1. PICK o : Live(e) /\ Good(run, o) /\ Does(e, o)
    BY <1>1, LoopStepGood
  <2>2. \A d \in Exec : Live(d) => d = e
    BY <2>1 DEF LifeInv, OneLoop
  <2>3. (Opened(run) /\ run.running) \/ Dead(run)
    BY <1>0, <2>1, EndedStuck DEF LifeInv, OpenInv, EndedInv
  <2> QED BY <2>1, <2>2, <2>3, DoesLife DEF Good
<1>2. ASSUME NEW e \in Exec, StartRun(e) PROVE LifeInv'
  <2> DEFINE r == [run EXCEPT !.running = TRUE]
  <2>1. PICK o : Good(r, o) /\ Does(e, o)
    BY <1>0, <1>2, LaunchGood DEF StartRun, MayStart
  <2>2. ~Ended(run) /\ ~run.running
    BY <1>2 DEF StartRun, MayStart, Ended
  <2>3. \A d \in Exec : ~Live(d)
    BY <2>2 DEF LifeInv, OpenInv
  <2>4. Opened(r) /\ r.running
    BY <1>0, <2>2 DEF Opened, RunState
  <2> QED BY <2>1, <2>3, <2>4, DoesLife DEF Good
<1>3. ASSUME NEW e \in Exec, ContinueRun(e) PROVE LifeInv'
  BY <1>3 DEF ContinueRun
<1>4. ASSUME NEW e \in Exec, RetryRun(e) PROVE LifeInv'
  <2>1. PICK r \in RunState, o \in Outcomes : Opened(r) /\ r.running /\ Good(r, o) /\ Does(e, o)
    BY <1>4, RetryGood
  <2>2. run.status = "failed"
    BY <1>4 DEF RetryRun, RetryAllowed
  <2>3. \A d \in Exec : ~Live(d)
    BY <2>2 DEF LifeInv, EndedInv, Terminal, Dead
  <2> QED BY <2>1, <2>3, DoesLife DEF Good
<1>5. CASE CancelBegin
  <2>1. ~Ended(run) /\ run' = [run EXCEPT !.abort = TRUE, !.deadline = FALSE] /\ loop' = loop
    BY <1>5 DEF CancelBegin, Ended
  <2>2. Opened(run') /\ run'.running = run.running
    BY <1>0, <2>1 DEF Opened, RunState
  <2> QED BY <2>1, <2>2, RequestLife
<1>6. CASE CancelEnd
  <2>1. run' = [cancelledRun(run) EXCEPT !.running = FALSE] /\ loop' = loop
    BY <1>6 DEF CancelEnd
  <2>2. CASE Ended(run)
    <3>1. run' = [run EXCEPT !.running = FALSE]
      BY <2>1, <2>2, EndedStuck
    <3>2. /\ run'.status = run.status /\ run'.machine = run.machine
          /\ run'.place = run.place /\ run'.ends = run.ends /\ run'.spend = run.spend
      BY <1>0, <3>1 DEF RunState
    <3> QED BY <2>1, <2>2, <3>2, RequestLife
  <2>3. CASE ~Ended(run)
    <3>1. cancelledRun(run) = EndAs(run, "cancelled") /\ "cancelled" \in Terminal
      BY <2>3 DEF cancelledRun, Terminal
    <3>2. cancelledRun(run) \in RunState /\ Dead(cancelledRun(run))
      BY <1>0, <2>3, <3>1, EndAsOK DEF Opened, Dead
    <3>3. Dead(run')
      BY <2>1, <3>2 DEF Dead, RunState
    <3> QED BY <2>1, <2>3, <3>3, RequestLife
  <2> QED BY <2>2, <2>3
<1>7. CASE DeadlineFires
  <2> DEFINE r == [run EXCEPT !.abort = TRUE, !.deadline = FALSE]
  <2>1. run' = failRun(r) /\ loop' = loop
    BY <1>7 DEF DeadlineFires
  <2>2. r \in RunState
    BY <1>0, FlagsOK
  <2>3. /\ r.status = run.status /\ r.machine = run.machine /\ r.abort = TRUE
        /\ r.place = run.place /\ r.ends = run.ends /\ r.spend = run.spend
    BY <1>0 DEF RunState
  <2>4. CASE Ended(run)
    <3>1. run' = r
      BY <2>1, <2>3, <2>4 DEF Ended, failRun
    <3> QED BY <2>1, <2>3, <2>4, <3>1, RequestLife
  <2>5. CASE ~Ended(run)
    <3>1. failRun(r) = EndAs(r, "cancelled") /\ "cancelled" \in Terminal
      BY <2>3, <2>5 DEF Ended, failRun, cancelledRun, Terminal
    <3>2. r.ends = 0
      BY <1>0, <2>3, <2>5 DEF Opened
    <3>3. /\ EndAs(r, "cancelled").place = "terminal"
          /\ EndAs(r, "cancelled").status = "cancelled"
          /\ EndAs(r, "cancelled").machine = "cancelled"
          /\ EndAs(r, "cancelled").ends = r.ends + 1
      BY <2>2, <3>1, EndAsOK
    <3>4. Dead(run')
      BY <2>1, <3>1, <3>2, <3>3 DEF Dead
    <3> QED BY <2>1, <2>5, <3>4, RequestLife
  <2> QED BY <2>4, <2>5
<1>8. CASE RetryBlocked
  <2>1. run.status = "failed" /\ ~Exceeded(run) /\ run' = Back /\ loop' = loop
    BY <1>8 DEF RetryBlocked, RetryAllowed
  <2>2. \A d \in Exec : ~Live(d)
    BY <2>1 DEF LifeInv, EndedInv, Terminal, Dead
  <2>3. /\ run'.status = "failed" /\ run'.machine = run.machine /\ run'.place = "active"
        /\ run'.ends = run.ends /\ run'.spend = run.spend
    BY <1>0, <2>1 DEF Back, RunState
  <2>4. \A d \in Exec : ~Live(d)'
    BY <2>1, <2>2 DEF Live
  <2>5. run.machine = "failed" /\ run.ends <= 1 /\ "failed" \in Terminal
    BY <2>1 DEF LifeInv, EndedInv, OneTerminalEvent, Terminal
  <2> QED BY <2>1, <2>3, <2>4, <2>5
          DEF LifeInv, OneLoop, OneTerminalEvent, OpenInv, EndedInv, PlaceInv, Ended, Exceeded
<1>9. CASE RetryRefused
  BY <1>9 DEF RetryRefused, RetryAllowed, LifeInv, PlaceInv
<1>10. CASE PauseRun
  <2>1. loop' = loop /\ run' = [(IF run.place = "active" THEN TryGoto(run, "pausing")
                                 ELSE run) EXCEPT !.pause = "PAUSING"]
    BY <1>10 DEF PauseRun
  <2>2. CASE Ended(run)
    <3>1. run' = [run EXCEPT !.pause = "PAUSING"]
      BY <2>1, <2>2, EndedStuck DEF TryGoto
    <3>2. /\ run'.status = run.status /\ run'.machine = run.machine
          /\ run'.place = run.place /\ run'.ends = run.ends /\ run'.spend = run.spend
      BY <1>0, <3>1 DEF RunState
    <3> QED BY <2>1, <2>2, <3>2, RequestLife
  <2>3. CASE ~Ended(run)
    <3> DEFINE g == TryGoto(run, "pausing")
    <3>1. g \in RunState /\ g.place = "active" /\ g.status \notin Terminal
          /\ g.ends = run.ends /\ g.running = run.running
      <4>1. g \in RunState
        BY <1>0, FlagsOK
      <4>2. LET n == Goto(run, "pausing")
            IN  /\ n.place = run.place /\ n.status = "pausing"
                /\ n.ends = run.ends /\ n.running = run.running
        BY <1>0 DEF Goto, RunState
      <4>3. "pausing" \notin Terminal
        BY DEF Terminal
      <4> QED BY <1>0, <2>3, <4>1, <4>2, <4>3 DEF TryGoto, Opened
    <3>2. run' = [g EXCEPT !.pause = "PAUSING"]
      BY <2>1, <2>3 DEF Ended
    <3>3. Opened(run') /\ run'.running = run.running
      BY <1>0, <2>3, <3>1, <3>2 DEF Opened, RunState
    <3> QED BY <2>1, <2>3, <3>3, RequestLife
  <2> QED BY <2>2, <2>3
<1>11. CASE ResumeRun
  <2>1. loop' = loop
    BY <1>11 DEF ResumeRun
  <2>2. CASE Ended(run)
    <3>1. run.machine \notin {"paused", "pausing"}
      BY <2>2, EndedStuck DEF Terminal
    <3>2. PICK p : run' = [run EXCEPT !.pause = p]
      BY <1>11, <3>1 DEF ResumeRun
    <3>3. /\ run'.status = run.status /\ run'.machine = run.machine
          /\ run'.place = run.place /\ run'.ends = run.ends /\ run'.spend = run.spend
      BY <1>0, <3>2 DEF RunState
    <3> QED BY <2>1, <2>2, <3>3, RequestLife
  <2>3. CASE ~Ended(run)
    <3> DEFINE g == IF run.machine \in {"paused", "pausing"} THEN Goto(run, "executing")
                    ELSE run
    <3>1. g \in RunState /\ g.place = "active" /\ g.status \notin Terminal
          /\ g.ends = run.ends /\ g.running = run.running
      <4>1. g \in RunState
        BY <1>0, FlagsOK
      <4>2. LET n == Goto(run, "executing")
            IN  /\ n.place = run.place /\ n.status = "executing"
                /\ n.ends = run.ends /\ n.running = run.running
        BY <1>0 DEF Goto, RunState
      <4>3. "executing" \notin Terminal
        BY DEF Terminal
      <4> QED BY <1>0, <2>3, <4>1, <4>2, <4>3 DEF Opened
    <3>2. run' = [g EXCEPT !.pause = "RUNNING"]
      BY <1>11, <2>3 DEF ResumeRun, Ended
    <3>3. Opened(run') /\ run'.running = run.running
      BY <1>0, <2>3, <3>1, <3>2 DEF Opened, RunState
    <3> QED BY <2>1, <2>3, <3>3, RequestLife
  <2> QED BY <2>2, <2>3
<1>12. CASE UNCHANGED vars
  BY <1>12 DEF vars, LifeInv, OneLoop, OneTerminalEvent, OpenInv, EndedInv, PlaceInv,
                Ended, Live, Dead, Exceeded
<1> QED BY <1>1, <1>2, <1>3, <1>4, <1>5, <1>6, <1>7, <1>8, <1>9, <1>10, <1>11, <1>12 DEF Next

\* A run that clients start, cancel, retry, pause and resume in any order, and
\* whose deadline may fire at any time, is driven by one execution at a time,
\* for any number of executions, steps, tool calls, retries and cancels.
THEOREM OneExecution ==
  ASSUME "continue" \notin Requests
  PROVE  Spec => []OneLoop
<1>1. Init => LifeInv
  BY InitLife
<1>2. TypeOK /\ LifeInv /\ [Next]_vars => LifeInv'
  BY StepLife
<1>3. LifeInv => OneLoop
  BY DEF LifeInv
<1> QED BY <1>1, <1>2, <1>3, TypeCorrect, PTL DEF Spec

\* Such a run emits at most one terminal event each time it is opened: loop,
\* deadline, cancel request and refused retry collapse to the first.
THEOREM TerminalOnce ==
  ASSUME "continue" \notin Requests
  PROVE  Spec => []OneTerminalEvent
<1>1. Init => LifeInv
  BY InitLife
<1>2. TypeOK /\ LifeInv /\ [Next]_vars => LifeInv'
  BY StepLife
<1>3. LifeInv => OneTerminalEvent
  BY DEF LifeInv
<1> QED BY <1>1, <1>2, <1>3, TypeCorrect, PTL DEF Spec
-----------------------------------------------------------------------------
(* What is final, and what guards an execution. *)

\* The status the API reads is the state of the machine.
Calm(s) == s.machine = s.status

\* A change of the run that leaves an ended run as it ended.
Final(s, r) == Calm(s) => Calm(r) /\ (s.status \in Terminal => r.status = s.status)

\* A run that can be planned from scratch has no completed checkpoint.
Planless(s) == s.machine \in {"created", "planning", "retrying"} => s.ckpt.step = 0

\* An execution is not behind the newest completed checkpoint, or is past it.
Ahead(s, l) == s.model /\ s.ckpt.step <= l.step
Beyond(s, l) == s.ckpt.step < l.step

\* A change on the way to an outcome, of the run or of the execution's counters.
Carries(s, l, r, k) ==
  /\ Final(s, r) /\ (Planless(s) => Planless(r))
  /\ r.deadline = s.deadline /\ r.abort = s.abort /\ r.ckpt = s.ckpt
  /\ (s.model => r.model) /\ k.step = l.step

\* An outcome that leaves an ended run as it is, and an execution that goes on
\* as guarded, and as far beyond the checkpoint, as it was.
Keeps(s, l, o) ==
  /\ Final(s, o.s) /\ (Planless(s) => Planless(o.s))
  /\ o.l.pc # "done" => o.s.deadline = s.deadline /\ o.s.abort = s.abort
  /\ Ahead(s, l) => Ahead(o.s, o.l)
  /\ Beyond(s, l) => o.l.pc \in {"done", "persist"} \/ Beyond(o.s, o.l)

\* What one part of a step keeps and the next keeps, both keep.
LEMMA KeepsTrans ==
  ASSUME NEW s, NEW l, NEW r, NEW k, NEW o, Carries(s, l, r, k), Keeps(r, k, o)
  PROVE  Keeps(s, l, o)
  BY DEF Carries, Keeps, Final, Ahead, Beyond

\* No path of the loop starts in a terminal state.
LEMMA TerminalIsStuck ==
  ASSUME NEW s \in RunState, s.machine \in Terminal
  PROVE  /\ ~Legal(s.machine, <<"executing">>) /\ ~Legal(s.machine, <<"waiting_for_tool">>)
         /\ ~Legal(s.machine, ToObserving(s)) /\ ~Legal(s.machine, <<"planning">>)
         /\ ~Legal(s.machine, <<"paused">>) /\ ~Legal(s.machine, <<"pausing">>)
  BY DEF Terminal, Legal, ToObserving, STATE_TRANSITIONS

\* A legal change to a state of the loop.
LEMMA GotoCarries ==
  ASSUME NEW s \in RunState, NEW l, NEW st \in Status \ Terminal, s.machine \notin Terminal,
         st \notin {"created", "planning", "retrying"}
  PROVE  Carries(s, l, Goto(s, st), l)
<1>1. /\ Goto(s, st).machine = st /\ Goto(s, st).status = st
      /\ Goto(s, st).deadline = s.deadline /\ Goto(s, st).abort = s.abort
      /\ Goto(s, st).ckpt = s.ckpt /\ Goto(s, st).model = s.model
  BY DEF Goto, RunState
<1> QED BY <1>1 DEF Carries, Final, Calm, Planless

\* A change of neither state, flags nor checkpoint.
LEMMA SameCarries ==
  ASSUME NEW s \in RunState, NEW l, NEW r, NEW k,
         r.machine = s.machine, r.status = s.status, r.deadline = s.deadline,
         r.abort = s.abort, r.ckpt = s.ckpt, r.model = s.model, k.step = l.step
  PROVE  Carries(s, l, r, k)
  BY DEF Carries, Final, Calm, Planless

\* Ending a run that has not ended: no checkpoint and no cursor is touched.
LEMMA EndAsKeeps ==
  ASSUME NEW s \in RunState, NEW st \in Terminal, ~Ended(s)
  PROVE  /\ Final(s, EndAs(s, st)) /\ Planless(EndAs(s, st))
         /\ EndAs(s, st).ckpt = s.ckpt /\ EndAs(s, st).model = s.model
<1>1. /\ EndAs(s, st).machine = st /\ EndAs(s, st).status = st
      /\ EndAs(s, st).ckpt = s.ckpt /\ EndAs(s, st).model = s.model
  BY DEF EndAs, RunState
<1>2. st \notin {"created", "planning", "retrying"}
  BY DEF Terminal
<1> QED BY <1>1, <1>2 DEF Final, Calm, Planless, Ended

\* failRun and cancelledRun end a run and touch neither plan nor model.
LEMMA FailKeeps ==
  ASSUME NEW s \in RunState, NEW r \in {failRun(s), cancelledRun(s)}
  PROVE  /\ r \in RunState /\ Final(s, r) /\ (Planless(s) => Planless(r))
         /\ r.ckpt = s.ckpt /\ r.model = s.model
<1>1. "failed" \in Terminal /\ "cancelled" \in Terminal
  BY DEF Terminal
<1>2. \/ r = s
      \/ ~Ended(s) /\ r \in {EndAs(s, "failed"), EndAs(s, "cancelled")}
  BY DEF failRun, cancelledRun
<1>3. CASE r = s
  BY <1>3 DEF Final
<1>4. CASE r # s
  BY <1>1, <1>2, <1>4, EndAsKeeps, EndAsOK
<1> QED BY <1>3, <1>4

\* An execution that is done keeps all that is asked of it.
LEMMA FinishKeeps ==
  ASSUME NEW s \in RunState, NEW l \in LoopState, NEW r \in RunState,
         Final(s, r), Planless(s) => Planless(r), r.ckpt = s.ckpt, r.model = s.model
  PROVE  Keeps(s, l, Finish(r, l))
<1> DEFINE f == Finish(r, l)
<1>1. /\ f.s.machine = r.machine /\ f.s.status = r.status /\ f.s.ckpt = r.ckpt
      /\ f.s.model = r.model
  BY DEF Finish, RunState
<1>2. f.l.pc = "done" /\ f.l.step = l.step
  BY DEF Finish, LoopState
<1> HIDE DEF f
<1>3. Final(s, f.s) /\ (Planless(s) => Planless(f.s))
  BY <1>1 DEF Final, Calm, Planless
<1>4. Keeps(s, l, f)
  BY <1>1, <1>2, <1>3 DEF Keeps, Ahead
<1> QED BY <1>4 DEF f

\* The ways an execution ends.
LEMMA EndsKeep ==
  ASSUME NEW s \in RunState, NEW l \in LoopState
  PROVE  /\ Keeps(s, l, Finish(s, l)) /\ Keeps(s, l, Throw(s, l))
         /\ Keeps(s, l, Finish(cancelledRun(s), l)) /\ Keeps(s, l, completeRun(s, l))
         /\ \A o \in StopStep(s, l) : Keeps(s, l, o)
<1>1. Keeps(s, l, Finish(s, l))
  BY FinishKeeps DEF Final
<1>2. Keeps(s, l, Throw(s, l)) /\ Keeps(s, l, Finish(cancelledRun(s), l))
  BY FailKeeps, FinishKeeps DEF Throw
<1>3. Keeps(s, l, completeRun(s, l))
  <2>1. ASSUME ~Ended(s)
        PROVE  Keeps(s, l, Finish(EndAs(s, "completed"), l))
    <3>1. "completed" \in Terminal
      BY DEF Terminal
    <3> QED BY <2>1, <3>1, EndAsKeeps, EndAsOK, FinishKeeps
  <2> QED BY <1>1, <1>2, <2>1 DEF completeRun
<1>4. \A o \in StopStep(s, l) : Keeps(s, l, o)
  BY <1>1, <1>2 DEF StopStep
<1> QED BY <1>1, <1>2, <1>3, <1>4

\* An execution that goes on to wait, anywhere but for its checkpoint.
LEMMA WaitKeeps ==
  ASSUME NEW s \in RunState, NEW l \in LoopState, NEW k, k.step = l.step
  PROVE  Keeps(s, l, [s |-> s, l |-> k])
  BY DEF Keeps, Final, Ahead, Beyond

\* Calling the model: the execution waits for the reply or is done.
LEMMA CallModelKeeps ==
  ASSUME NEW s \in RunState, NEW l \in LoopState, NEW mode,
         NEW o \in CallModel(s, l, mode)
  PROVE  Keeps(s, l, o) /\ o.l.pc \in {"model", "done"}
<1> DEFINE k == [l EXCEPT !.pc = "model", !.mode = mode]
<1>1. k.step = l.step /\ k.pc = "model"
  BY DEF LoopState
<1>2. Keeps(s, l, [s |-> s, l |-> k])
  BY <1>1, WaitKeeps
<1>3. \A r \in RunState : Finish(r, l).l.pc = "done"
  BY FinishOK
<1>4. Throw(s, l).l.pc = "done" /\ \A p \in StopStep(s, l) : p.l.pc = "done"
  BY <1>3, FailOK DEF Throw, StopStep
<1>5. o \in {[s |-> s, l |-> k], Throw(s, l)} \cup StopStep(s, l)
  BY DEF CallModel
<1> HIDE DEF k
<1> QED BY <1>1, <1>2, <1>4, <1>5, EndsKeep

\* The top of the loop moves an execution beyond the checkpoint it was at.
LEMMA LoopTopKeeps ==
  ASSUME NEW s \in RunState, NEW l \in LoopState, NEW o \in LoopTop(s, l)
  PROVE  Keeps(s, l, o) /\ (Ahead(s, l) => o.l.pc = "done" \/ Beyond(o.s, o.l))
<1> DEFINE r == [s EXCEPT !.cur = s.cur + 1]
           k == [l EXCEPT !.step = l.step + 1, !.rounds = 0]
<1>1. s.cur \in Nat /\ l.step \in Nat /\ s.ckpt.step \in Nat /\ 0 \in 0..MaxRounds
  BY RunLifecycleAssumption DEF RunState, LoopState, Checkpoint
<1>2. r \in RunState
  BY <1>1 DEF RunState
<1>3. k \in LoopState
  <2> DEFINE n == l.step + 1
  <2>1. n \in Nat
    BY <1>1
  <2> HIDE DEF n
  <2>2. [l EXCEPT !.step = n, !.rounds = 0] \in LoopState
    BY <1>1, <2>1 DEF LoopState
  <2> QED BY <2>2 DEF n
<1>4. /\ r.machine = s.machine /\ r.status = s.status /\ r.deadline = s.deadline
      /\ r.abort = s.abort /\ r.ckpt = s.ckpt /\ r.model = s.model
      /\ k.step = l.step + 1
  BY DEF RunState, LoopState
<1>5. ASSUME o \in CallModel(r, k, "first")
      PROVE  Keeps(s, l, o) /\ (Ahead(s, l) => o.l.pc = "done" \/ Beyond(o.s, o.l))
  <2>1. Keeps(r, k, o) /\ o.l.pc \in {"model", "done"}
    BY <1>2, <1>3, <1>5, CallModelKeeps
  <2>2. Carries(s, k, r, k)
    BY <1>4, SameCarries
  <2>3. Keeps(s, k, o)
    BY <2>1, <2>2, KeepsTrans
  <2>4. /\ Ahead(s, l) => Ahead(s, k) /\ Beyond(s, k)
        /\ Beyond(s, l) => Beyond(s, k)
    BY <1>1, <1>4 DEF Ahead, Beyond
  <2> QED BY <2>1, <2>3, <2>4 DEF Keeps
<1>6. ASSUME o \in {Finish(cancelledRun(s), l), Finish(s, l), Throw(s, l), completeRun(s, l)}
      PROVE  Keeps(s, l, o) /\ o.l.pc = "done"
  <2>1. \A p \in RunState : Finish(p, l).l.pc = "done"
    BY FinishOK
  <2>2. completeRun(s, l).l.pc = "done"
    BY <2>1, FailOK, EndAsOK DEF completeRun, Throw, Terminal
  <2> QED BY <1>6, <2>1, <2>2, EndsKeep, FailOK DEF Throw
<1> QED BY <1>5, <1>6 DEF LoopTop

\* The loop goes on to a step behind the checkpoint.
LEMMA NextStepKeeps ==
  ASSUME NEW s \in RunState, NEW l \in LoopState, NEW o \in NextStep(s, l)
  PROVE  Keeps(s, l, o) /\ (Ahead(s, l) => o.l.pc = "done" \/ Beyond(o.s, o.l))
<1>1. Throw(s, l).l.pc = "done"
  BY FailOK, FinishOK DEF Throw
<1> QED BY <1>1, LoopTopKeeps, EndsKeep DEF NextStep

\* Dispatching a tool call; a hold of a live run is shown as PAUSED.
LEMMA DispatchKeeps ==
  ASSUME NEW s \in RunState, NEW l \in LoopState, NEW o \in Dispatch(s, l)
  PROVE  Keeps(s, l, o)
<1> DEFINE marked(safe) == [s EXCEPT !.tools = s.tools + 1,
                                     !.effect = [state |-> "in_flight", safe |-> safe]]
           held(safe) == IF s.pause \in {"PAUSING", "PAUSED"}
                         THEN [(IF s.place = "active" THEN TryGoto(marked(safe), "paused")
                                ELSE marked(safe)) EXCEPT !.pause = "PAUSED"]
                         ELSE marked(safe)
           wait(safe) == [l EXCEPT !.pc = IF held(safe).pause = "PAUSED" THEN "hold" ELSE "tool"]
<1>1. PICK safe \in BOOLEAN : o = [s |-> held(safe), l |-> wait(safe)]
  BY Zenon DEF Dispatch
<1> DEFINE m == marked(safe)
<1>2. /\ m.machine = s.machine /\ m.status = s.status /\ m.deadline = s.deadline
      /\ m.abort = s.abort /\ m.ckpt = s.ckpt /\ m.model = s.model
  BY DEF RunState
<1>3. m \in RunState
  <2> DEFINE n == s.tools + 1
             f == [state |-> "in_flight", safe |-> safe]
  <2>1. n \in Nat /\ f \in Effect
    BY DEF RunState, Effect
  <2> HIDE DEF n, f
  <2>2. [s EXCEPT !.tools = n, !.effect = f] \in RunState
    BY <2>1 DEF RunState
  <2> QED BY <2>2 DEF n, f
<1> HIDE DEF m
<1>4. TryGoto(m, "paused") \in RunState /\ Carries(s, l, TryGoto(m, "paused"), l)
  <2>1. CASE ~Legal(m.machine, <<"paused">>)
    BY <1>2, <1>3, <2>1, SameCarries DEF TryGoto
  <2>2. CASE Legal(m.machine, <<"paused">>)
    <3>1. m.machine \notin Terminal
      BY <1>3, <2>2, TerminalIsStuck
    <3>2. "paused" \in Status \ Terminal
      BY DEF Status, Terminal
    <3>3. Carries(m, l, Goto(m, "paused"), l)
      BY <1>3, <3>1, <3>2, GotoCarries
    <3>4. Goto(m, "paused") \in RunState
      BY <1>3, <3>2 DEF Goto, RunState
    <3> QED BY <1>2, <2>2, <3>3, <3>4 DEF TryGoto, Carries, Final, Calm, Planless
  <2> QED BY <2>1, <2>2
<1>5. ASSUME NEW q \in RunState, Carries(s, l, q, l)
      PROVE  Carries(s, l, [q EXCEPT !.pause = "PAUSED"], l)
  <2>1. LET n == [q EXCEPT !.pause = "PAUSED"]
        IN  /\ n.machine = q.machine /\ n.status = q.status /\ n.deadline = q.deadline
            /\ n.abort = q.abort /\ n.ckpt = q.ckpt /\ n.model = q.model
    BY DEF RunState
  <2> QED BY <1>5, <2>1 DEF Carries, Final, Calm, Planless
<1>6. Carries(s, l, m, l)
  BY <1>2, SameCarries
<1>7. Carries(s, l, held(safe), l)
  BY <1>3, <1>4, <1>5, <1>6 DEF m
<1>8. wait(safe).step = l.step
  BY DEF LoopState
<1> HIDE DEF held, wait
<1>9. Keeps(s, l, [s |-> held(safe), l |-> wait(safe)])
  BY <1>7, <1>8 DEF Keeps, Carries, Final, Ahead, Beyond
<1> QED BY <1>1, <1>9 DEF held, wait

\* A round of tool calls keeps the run on its step.
LEMMA ToolRoundKeeps ==
  ASSUME NEW s \in RunState, NEW l \in LoopState, NEW n \in 0..MaxBatch,
         NEW mode \in {"first", "cont", "assist"}, NEW o \in ToolRound(s, l, n, mode)
  PROVE  Keeps(s, l, o)
<1>1. CASE ~Legal(s.machine, <<"waiting_for_tool">>)
  BY <1>1, EndsKeep DEF ToolRound
<1>2. CASE Legal(s.machine, <<"waiting_for_tool">>)
  <2> DEFINE k == [l EXCEPT !.left = n, !.mode = mode]
             r == Goto(s, "waiting_for_tool")
  <2>1. "waiting_for_tool" \in Status \ Terminal
    BY DEF Status, Terminal
  <2>2. Carries(s, l, r, l)
    BY <1>2, <2>1, GotoCarries, TerminalIsStuck
  <2>a. r \in RunState
    BY <2>1 DEF Goto, RunState
  <2>3. k \in LoopState /\ k.step = l.step
    BY DEF LoopState
  <2>4. Carries(s, l, r, k)
    BY <2>2, <2>3 DEF Carries
  <2>5. o \in Dispatch(r, k)
    BY <1>2 DEF ToolRound
  <2> HIDE DEF r, k
  <2> QED BY <2>a, <2>3, <2>4, <2>5, DispatchKeeps, KeepsTrans
<1> QED BY <1>1, <1>2

\* The step that is checkpointed is the step the execution is at.
LEMMA StepDoneKeeps ==
  ASSUME NEW s \in RunState, NEW l \in LoopState, NEW n \in 0..MaxBatch,
         NEW o \in StepDone(s, l, n)
  PROVE  Keeps(s, l, o)
<1>1. CASE ~Legal(s.machine, ToObserving(s))
  BY <1>1, EndsKeep DEF StepDone
<1>2. CASE Legal(s.machine, ToObserving(s))
  <2> DEFINE c == [step |-> l.step, spend |-> s.spend, tools |-> s.tools,
                   assisted |-> s.assisted]
             r == [Goto(s, "observing") EXCEPT !.answer = TRUE, !.ckpt = c]
             k == [l EXCEPT !.pc = "persist", !.left = n]
  <2>1. s.machine \notin Terminal
    BY <1>2, TerminalIsStuck
  <2>2. /\ r.machine = "observing" /\ r.status = "observing" /\ r.deadline = s.deadline
        /\ r.abort = s.abort /\ r.model = s.model /\ r.ckpt.step = l.step
    BY DEF Goto, RunState
  <2>3. k.pc = "persist" /\ k.step = l.step /\ l.step \in Nat
    BY DEF LoopState
  <2>4. o = [s |-> r, l |-> k]
    BY <1>2 DEF StepDone
  <2> HIDE DEF r, k
  <2>5. Final(s, r) /\ Planless(r)
    BY <2>1, <2>2 DEF Final, Calm, Planless
  <2> QED BY <2>2, <2>3, <2>4, <2>5 DEF Keeps, Ahead, Beyond
<1> QED BY <1>1, <1>2

\* A reply of the model keeps the run on its step.
LEMMA ReplyKeeps ==
  ASSUME NEW s \in RunState, NEW l \in LoopState, NEW n \in 0..MaxBatch,
         NEW o \in Reply(s, l, n)
  PROVE  Keeps(s, l, o)
<1>1. CASE l.mode # "assist" /\ n > 0 /\ l.rounds < MaxRounds
  <2> DEFINE k == [l EXCEPT !.rounds = l.rounds + 1]
  <2>1. k \in LoopState /\ k.step = l.step
    BY <1>1, RunLifecycleAssumption DEF LoopState
  <2>2. Carries(s, l, s, k)
    BY <2>1, SameCarries
  <2>3. ASSUME o \in ToolRound(s, k, n, "cont") PROVE Keeps(s, l, o)
    BY <2>1, <2>2, <2>3, ToolRoundKeeps, KeepsTrans
  <2> QED BY <1>1, <2>3, EndsKeep DEF Reply
<1>2. CASE ~(l.mode # "assist" /\ n > 0 /\ l.rounds < MaxRounds)
  <2> DEFINE r == [s EXCEPT !.assisted = TRUE]
  <2>1. r \in RunState
    BY DEF RunState
  <2>2. Carries(s, l, r, l)
    BY SameCarries DEF RunState
  <2>3. 1 \in 0..MaxBatch
    BY RunLifecycleAssumption
  <2>4. ASSUME o \in ToolRound(r, l, 1, "assist") PROVE Keeps(s, l, o)
    BY <2>1, <2>2, <2>3, <2>4, ToolRoundKeeps, KeepsTrans
  <2> QED BY <1>2, <2>4, EndsKeep, StepDoneKeeps DEF Reply
<1> QED BY <1>1, <1>2

\* So does a failed call of the model.
LEMMA ReplyErrorKeeps ==
  ASSUME NEW s \in RunState, NEW l \in LoopState, NEW o \in ReplyError(s, l)
  PROVE  Keeps(s, l, o)
<1> DEFINE r == [s EXCEPT !.retries = s.retries + 1]
           k == [l EXCEPT !.pc = "backoff"]
<1>1. /\ r.machine = s.machine /\ r.status = s.status /\ r.deadline = s.deadline
      /\ r.abort = s.abort /\ r.ckpt = s.ckpt /\ r.model = s.model /\ k.step = l.step
  BY DEF RunState, LoopState
<1>2. Keeps(s, l, [s |-> r, l |-> k])
  BY <1>1, SameCarries DEF Keeps, Carries, Final, Calm, Planless, Ahead, Beyond
<1> QED BY <1>2, EndsKeep, NextStepKeeps DEF ReplyError

\* So does the result of a tool.
LEMMA ResultKeeps ==
  ASSUME NEW s \in RunState, NEW l \in LoopState, NEW ok \in BOOLEAN, NEW safe \in BOOLEAN,
         NEW o \in Result(s, l, ok, safe)
  PROVE  Keeps(s, l, o)
<1> DEFINE f == [state |-> IF ok THEN "completed" ELSE "failed", safe |-> safe]
           r == [s EXCEPT !.effect = f, !.spend = IF ok THEN s.spend + 1 ELSE s.spend]
<1>1. r \in RunState
  <2> DEFINE n == IF ok THEN s.spend + 1 ELSE s.spend
  <2>1. n \in Nat /\ f \in Effect
    BY DEF RunState, Effect
  <2> HIDE DEF n, f
  <2>2. [s EXCEPT !.effect = f, !.spend = n] \in RunState
    BY <2>1 DEF RunState
  <2> QED BY <2>2 DEF n
<1>2. /\ r.machine = s.machine /\ r.status = s.status /\ r.deadline = s.deadline
      /\ r.abort = s.abort /\ r.ckpt = s.ckpt /\ r.model = s.model
  BY DEF RunState
<1>3. ASSUME NEW k, k.step = l.step PROVE Carries(s, l, r, k)
  BY <1>2, <1>3, SameCarries
<1>4. ASSUME l.left > 1, o \in Dispatch(r, [l EXCEPT !.left = l.left - 1])
      PROVE  Keeps(s, l, o)
  <2> DEFINE k == [l EXCEPT !.left = l.left - 1]
  <2>1. k \in LoopState /\ k.step = l.step
    BY <1>4, RunLifecycleAssumption DEF LoopState
  <2>2. Keeps(r, k, o)
    BY <1>1, <1>4, <2>1, DispatchKeeps
  <2> QED BY <1>3, <2>1, <2>2, KeepsTrans
<1>5. ASSUME Legal(r.machine, ToObserving(r)),
             o \in CallModel(Goto(r, "executing"), [l EXCEPT !.left = 0], l.mode)
      PROVE  Keeps(s, l, o)
  <2> DEFINE k == [l EXCEPT !.left = 0]
             q == Goto(r, "executing")
  <2>1. k \in LoopState /\ k.step = l.step
    BY RunLifecycleAssumption DEF LoopState
  <2>2. "executing" \in Status \ Terminal
    BY DEF Status, Terminal
  <2>3. q \in RunState
    BY <1>1, <2>2 DEF Goto, RunState
  <2>4. Carries(r, k, q, k)
    BY <1>1, <1>5, <2>2, GotoCarries, TerminalIsStuck
  <2>5. Keeps(q, k, o)
    BY <1>5, <2>1, <2>3, CallModelKeeps
  <2> HIDE DEF k, q
  <2>6. Keeps(r, k, o)
    BY <2>4, <2>5, KeepsTrans
  <2> QED BY <1>3, <2>1, <2>6, KeepsTrans
<1>6. ASSUME o = Throw(r, l) PROVE Keeps(s, l, o)
  BY <1>1, <1>3, <1>6, EndsKeep, KeepsTrans
<1> QED BY <1>4, <1>5, <1>6 DEF Result

\* After its checkpoint an execution goes on with the next step.
LEMMA PersistedKeeps ==
  ASSUME NEW s \in RunState, NEW l \in LoopState, NEW done \in BOOLEAN,
         NEW o \in Persisted(s, l, done)
  PROVE  Keeps(s, l, o) /\ (Ahead(s, l) => o.l.pc = "done" \/ Beyond(o.s, o.l))
<1>1. ASSUME Legal(s.machine, <<"executing">>), o \in NextStep(Goto(s, "executing"), l)
      PROVE  Keeps(s, l, o) /\ (Ahead(s, l) => o.l.pc = "done" \/ Beyond(o.s, o.l))
  <2> DEFINE r == Goto(s, "executing")
  <2>1. "executing" \in Status \ Terminal
    BY DEF Status, Terminal
  <2>2. r \in RunState
    BY <2>1 DEF Goto, RunState
  <2>3. Carries(s, l, r, l)
    BY <1>1, <2>1, GotoCarries, TerminalIsStuck
  <2>4. Keeps(r, l, o) /\ (Ahead(r, l) => o.l.pc = "done" \/ Beyond(o.s, o.l))
    BY <1>1, <2>2, NextStepKeeps
  <2> HIDE DEF r
  <2>5. Ahead(s, l) => Ahead(r, l)
    BY <2>3 DEF Carries, Ahead
  <2> QED BY <2>3, <2>4, <2>5, KeepsTrans
<1>2. ASSUME o \in {completeRun(s, l), Throw(s, l)}
      PROVE  Keeps(s, l, o) /\ o.l.pc = "done"
  BY <1>2, EndsKeep, FailOK, FinishOK, EndAsOK DEF completeRun, Throw, Terminal
<1> QED BY <1>1, <1>2 DEF Persisted

\* A step of the agent loop: an execution that has persisted its checkpoint is
\* beyond it or done afterwards.
LEMMA LoopStepKeeps ==
  ASSUME TypeOK, NEW e \in Exec, LoopStep(e)
  PROVE  \E o : /\ Does(e, o) /\ Keeps(run, loop[e], o)
                /\ loop[e].pc = "persist" /\ Ahead(run, loop[e])
                     => o.l.pc = "done" \/ Beyond(o.s, o.l)
<1>1. run \in RunState /\ loop[e] \in LoopState
  BY DEF TypeOK
<1>2. ASSUME NEW n \in 0..MaxBatch, NEW cost \in 0..1, ModelReturns(e, n, cost)
      PROVE  At(e, "model") /\ \E o : Does(e, o) /\ Keeps(run, loop[e], o)
  <2> DEFINE r == [run EXCEPT !.spend = run.spend + cost]
  <2>1. r \in RunState
    BY <1>1 DEF RunState
  <2>2. Carries(run, loop[e], r, loop[e])
    BY <1>1, SameCarries DEF RunState
  <2>3. PICK o \in Reply(r, loop[e], n) : Does(e, o)
    BY <1>2 DEF ModelReturns, Become, Does
  <2>4. Keeps(run, loop[e], o)
    BY <1>1, <2>1, <2>2, <2>3, ReplyKeeps, KeepsTrans
  <2> QED BY <1>2, <2>3, <2>4 DEF ModelReturns
<1>3. ASSUME ModelFails(e)
      PROVE  At(e, "model") /\ \E o : Does(e, o) /\ Keeps(run, loop[e], o)
  <2>1. PICK o \in ReplyError(run, loop[e]) : Does(e, o)
    BY <1>3 DEF ModelFails, Become, Does
  <2> QED BY <1>1, <1>3, <2>1, ReplyErrorKeeps DEF ModelFails
<1>4. ASSUME BackoffEnds(e)
      PROVE  At(e, "backoff") /\ \E o : Does(e, o) /\ Keeps(run, loop[e], o)
  <2>1. PICK o \in StopStep(run, loop[e]) \cup NextStep(run, loop[e]) : Does(e, o)
    BY <1>4 DEF BackoffEnds, Become, Does
  <2> QED BY <1>1, <1>4, <2>1, EndsKeep, NextStepKeeps DEF BackoffEnds
<1>5. ASSUME HoldEnds(e)
      PROVE  At(e, "hold") /\ \E o : Does(e, o) /\ Keeps(run, loop[e], o)
  <2> DEFINE k == [loop[e] EXCEPT !.pc = "tool"]
  <2>1. k.step = loop[e].step
    BY <1>1 DEF LoopState
  <2>2. Does(e, [s |-> run, l |-> k])
    BY <1>5 DEF HoldEnds, Become, Does
  <2>3. Keeps(run, loop[e], [s |-> run, l |-> k])
    BY <1>1, <2>1, WaitKeeps
  <2> QED BY <1>5, <2>2, <2>3 DEF HoldEnds
<1>6. ASSUME NEW ok \in BOOLEAN, NEW safe \in BOOLEAN, ToolReturns(e, ok, safe)
      PROVE  At(e, "tool") /\ \E o : Does(e, o) /\ Keeps(run, loop[e], o)
  <2>1. PICK o \in Result(run, loop[e], ok, safe) : Does(e, o)
    BY <1>6 DEF ToolReturns, Become, Does
  <2> QED BY <1>1, <1>6, <2>1, ResultKeeps DEF ToolReturns
<1>7. ASSUME NEW done \in BOOLEAN, PersistReturns(e, done)
      PROVE  \E o : /\ Does(e, o) /\ Keeps(run, loop[e], o)
                    /\ Ahead(run, loop[e]) => o.l.pc = "done" \/ Beyond(o.s, o.l)
  <2>1. PICK o \in Persisted(run, loop[e], done) : Does(e, o)
    BY <1>7 DEF PersistReturns, Become, Does
  <2> QED BY <1>1, <2>1, PersistedKeeps
<1>8. ASSUME \E pc \in {"model", "backoff", "hold", "tool"} : At(e, pc)
      PROVE  loop[e].pc # "persist"
  BY <1>8 DEF At
<1> QED BY <1>2, <1>3, <1>4, <1>5, <1>6, <1>7, <1>8 DEF LoopStep

\* An outcome that an execution may be left in: it is done, or guarded by deadline
\* and abort flag as before and beyond the checkpoint.
Guarded(s, o) ==
  /\ Calm(o.s) /\ Planless(o.s) /\ (o.s.ckpt.step > 0 => o.s.model)
  /\ o.l.pc # "done" => /\ o.s.deadline = s.deadline /\ o.s.abort = s.abort
                        /\ Ahead(o.s, o.l)
                        /\ o.l.pc = "persist" \/ Beyond(o.s, o.l)

\* The loop entered behind the checkpoint.
LEMMA LoopTopGuarded ==
  ASSUME NEW s \in RunState, NEW l \in LoopState, NEW o \in LoopTop(s, l),
         Calm(s), Planless(s), Ahead(s, l)
  PROVE  Guarded(s, o)
  BY LoopTopKeeps DEF Guarded, Keeps, Final, Ahead

\* A fresh setup: the status stays that of the machine, and a run that can be
\* planned has nothing checkpointed yet.
LEMMA SetupKeeps ==
  ASSUME NEW s \in RunState, NEW l \in LoopState, NEW o \in Setup(s, l),
         s.status \notin Terminal, Calm(s)
  PROVE  /\ Calm(o.s)
         /\ Planless(s) /\ (s.ckpt.step > 0 => s.model) => Guarded(s, o)
<1> DEFINE planned == Goto(s, "planning")
           ready == [Goto(planned, "executing") EXCEPT !.model = TRUE]
<1>1. planned \in RunState /\ ready \in RunState
  <2>1. planned \in RunState
    BY DEF Goto, RunState, Status
  <2>2. Goto(planned, "executing") \in RunState
    BY <2>1 DEF Goto, RunState, Status
  <2> QED BY <2>1, <2>2 DEF RunState
<1>2. /\ planned.machine = "planning" /\ planned.status = "planning"
      /\ planned.ckpt = s.ckpt /\ planned.model = s.model
  BY DEF Goto, RunState
<1>3. /\ ready.machine = "executing" /\ ready.status = "executing" /\ ready.ckpt = s.ckpt
      /\ ready.model = TRUE /\ ready.deadline = s.deadline /\ ready.abort = s.abort
  BY DEF Goto, RunState
<1>4. s.ckpt.step \in Nat /\ l.step \in Nat
  BY DEF RunState, Checkpoint, LoopState
<1>5. Legal(s.machine, <<"planning">>) => s.machine \in {"created", "planning", "retrying"}
  BY DEF Legal, STATE_TRANSITIONS, RunState, Status
<1>6. \/ o = Throw(s, l)
      \/ /\ Legal(s.machine, <<"planning">>)
         /\ o = Throw(planned, l) \/ o \in LoopTop(ready, l)
  <2>1. o \in Setup(s, l)
    OBVIOUS
  <2>2. CASE ~Legal(s.machine, <<"planning">>)
    <3>1. o \in {Throw(s, l)}
      BY <2>1, <2>2, Zenon DEF Setup
    <3> QED BY <3>1
  <2>3. CASE Legal(s.machine, <<"planning">>) /\ Exceeded(s)
    <3>1. o \in {Throw(planned, l)}
      BY <2>1, <2>3, Zenon DEF Setup
    <3> QED BY <2>3, <3>1
  <2>4. CASE Legal(s.machine, <<"planning">>) /\ ~Exceeded(s)
    <3>1. o \in LoopTop(ready, l) \cup (IF MayFail THEN {Throw(planned, l)} ELSE {})
      BY <2>1, <2>4, Zenon DEF Setup
    <3> HIDE DEF planned, ready
    <3> QED BY <2>4, <3>1
  <2> QED BY <2>2, <2>3, <2>4
<1> HIDE DEF planned, ready
<1>7. ASSUME NEW r \in RunState, Calm(r), o = Throw(r, l), r.ckpt = s.ckpt, r.model = s.model
      PROVE  /\ Calm(o.s) /\ o.l.pc = "done"
             /\ o.s.ckpt = s.ckpt /\ o.s.model = s.model /\ (Planless(r) => Planless(o.s))
  <2>1. /\ failRun(r) \in RunState /\ Final(r, failRun(r)) /\ (Planless(r) => Planless(failRun(r)))
        /\ failRun(r).ckpt = r.ckpt /\ failRun(r).model = r.model
    BY FailKeeps
  <2>2. /\ o.s.machine = failRun(r).machine /\ o.s.status = failRun(r).status
        /\ o.s.ckpt = failRun(r).ckpt /\ o.s.model = failRun(r).model /\ o.l.pc = "done"
    BY <1>7, <2>1 DEF Throw, Finish, RunState, LoopState
  <2> QED BY <1>7, <2>1, <2>2 DEF Final, Calm, Planless
<1>8. CASE o = Throw(s, l)
  BY <1>7, <1>8 DEF Guarded
<1>9. CASE o = Throw(planned, l) /\ Legal(s.machine, <<"planning">>)
  <2>1. Calm(planned) /\ (Planless(s) => Planless(planned))
    BY <1>2, <1>5, <1>9 DEF Calm, Planless
  <2> QED BY <1>1, <1>2, <1>7, <1>9, <2>1 DEF Guarded
<1>10. CASE o \in LoopTop(ready, l) /\ Legal(s.machine, <<"planning">>)
  <2>1. Calm(ready) /\ Planless(ready)
    BY <1>3 DEF Calm, Planless
  <2>2. Calm(o.s)
    BY <1>1, <1>10, <2>1, LoopTopKeeps DEF Keeps, Final
  <2>3. Planless(s) => Ahead(ready, l)
    BY <1>3, <1>4, <1>5, <1>10 DEF Planless, Ahead
  <2>4. Planless(s) => Guarded(ready, o)
    BY <1>1, <1>10, <2>1, <2>3, LoopTopGuarded
  <2> QED BY <1>3, <2>2, <2>4 DEF Guarded
<1> QED BY <1>6, <1>8, <1>9, <1>10

\* startRun and continueRun arm the deadline and clear the abort flag.
LEMMA LaunchKeeps ==
  ASSUME TypeOK, NEW e \in Exec, NEW s \in RunState, s.status \notin Terminal, Calm(s),
         Launch(s, e)
  PROVE  \E q, o : /\ Does(e, o) /\ Calm(o.s) /\ q.deadline
                   /\ Planless(s) /\ (s.ckpt.step > 0 => s.model) => Guarded(q, o)
<1> DEFINE q == [s EXCEPT !.running = TRUE, !.abort = FALSE, !.deadline = TRUE,
                          !.retries = IF s.machine = "created" THEN 0 ELSE s.retries]
<1>1. q \in RunState
  <2>1. 0 \in 0..MaxRetries
    BY RunLifecycleAssumption
  <2>2. (IF s.machine = "created" THEN 0 ELSE s.retries) \in 0..MaxRetries
    BY <2>1 DEF RunState
  <2>3. ASSUME NEW n \in 0..MaxRetries
        PROVE  [s EXCEPT !.running = TRUE, !.abort = FALSE, !.deadline = TRUE,
                         !.retries = n] \in RunState
    BY DEF RunState
  <2> QED BY <2>2, <2>3
<1>2. Idle \in LoopState
  BY RunLifecycleAssumption DEF Idle, LoopState
<1>3. /\ q.machine = s.machine /\ q.status = s.status /\ q.ckpt = s.ckpt
      /\ q.model = s.model /\ q.deadline = TRUE
  BY DEF RunState
<1>4. PICK o \in Setup(q, Idle) : Does(e, o)
  BY DEF Launch, Become, Does
<1> HIDE DEF q
<1>5. Calm(q) /\ (Planless(s) => Planless(q))
  BY <1>3 DEF Calm, Planless
<1>6. /\ Calm(o.s)
      /\ Planless(q) /\ (q.ckpt.step > 0 => q.model) => Guarded(q, o)
  BY <1>1, <1>2, <1>3, <1>4, <1>5, SetupKeeps
<1>7. /\ Does(e, o) /\ Calm(o.s) /\ q.deadline
      /\ Planless(s) /\ (s.ckpt.step > 0 => s.model) => Guarded(q, o)
  BY <1>3, <1>4, <1>5, <1>6
<1> QED BY <1>7

\* A retry resumes at or beyond the checkpoint, under a new deadline.
LEMMA RetryKeeps ==
  ASSUME TypeOK, Calm(run), NEW e \in Exec, RetryRun(e)
  PROVE  \E q, o : /\ Does(e, o) /\ Calm(o.s) /\ q.deadline
                   /\ Planless(run) /\ (run.ckpt.step > 0 => run.model) => Guarded(q, o)
<1> DEFINE s == Restored(Back)
           f == IF s.effect.state = "in_flight"
                THEN [s.effect EXCEPT !.state = "unknown"] ELSE s.effect
           r == [Goto(s, "retrying") EXCEPT
                   !.abort = FALSE, !.retries = 0, !.running = TRUE, !.deadline = TRUE,
                   !.ends = 0, !.effect = f]
           g == Goto(r, "executing")
           k == [Idle EXCEPT !.step = Cursor(s), !.resumed = TRUE]
<1>1. run \in RunState /\ Back \in RunState /\ Back.ckpt = run.ckpt /\ Back.model = run.model
  BY DEF TypeOK, Back, RunState
<1>2. s \in RunState /\ s.ckpt = run.ckpt /\ s.model = run.model
  <2>1. s.ckpt = Back.ckpt /\ s.model = Back.model
    BY <1>1 DEF Restored, RunState
  <2> QED BY <1>1, <2>1, RestoredOK
<1>3. Cursor(s) \in Nat /\ s.ckpt.step <= Cursor(s)
  BY <1>2 DEF Cursor, RunState, Checkpoint
<1>4. Goto(s, "retrying").effect = s.effect
  BY <1>2 DEF Goto, RunState
<1>5. PICK o \in IF ~s.model THEN Setup(r, Idle) ELSE LoopTop(g, k) : Does(e, o)
  BY <1>4 DEF RetryRun, Become, Does
<1> HIDE DEF s
<1>6. r \in RunState
  <2>1. f \in Effect
    BY <1>2 DEF RunState, Effect
  <2>2. Goto(s, "retrying") \in RunState
    BY <1>2 DEF Goto, RunState, Status
  <2>3. 0 \in 0..MaxRetries
    BY RunLifecycleAssumption
  <2>4. ASSUME NEW p \in RunState, NEW h \in Effect
        PROVE  [p EXCEPT !.abort = FALSE, !.retries = 0, !.running = TRUE, !.deadline = TRUE,
                         !.ends = 0, !.effect = h] \in RunState
    BY <2>3 DEF RunState
  <2> QED BY <2>1, <2>2, <2>4
<1>7. /\ r.machine = "retrying" /\ r.status = "retrying" /\ r.ckpt = s.ckpt
      /\ r.model = s.model /\ r.deadline = TRUE
  BY <1>2 DEF Goto, RunState
<1> HIDE DEF r
<1>8. /\ g \in RunState /\ g.machine = "executing" /\ g.status = "executing"
      /\ g.ckpt = s.ckpt /\ g.model = s.model /\ g.deadline = TRUE
  BY <1>6, <1>7 DEF Goto, RunState, Status
<1>9. Idle \in LoopState /\ k \in LoopState /\ k.step = Cursor(s)
  <2>1. Idle \in LoopState
    BY RunLifecycleAssumption DEF Idle, LoopState
  <2> QED BY <1>3, <2>1 DEF LoopState
<1> HIDE DEF g, k
<1>10. CASE ~s.model
  <2>1. Calm(r) /\ "retrying" \notin Terminal
    BY <1>7 DEF Calm, Terminal
  <2>2. (run.ckpt.step > 0 => run.model) => Planless(r) /\ (r.ckpt.step > 0 => r.model)
    <3>1. run.ckpt.step \in Nat
      BY <1>1 DEF RunState, Checkpoint
    <3> QED BY <1>2, <1>7, <1>10, <3>1 DEF Planless
  <2>3. /\ Calm(o.s)
        /\ Planless(r) /\ (r.ckpt.step > 0 => r.model) => Guarded(r, o)
    BY <1>5, <1>6, <1>7, <1>9, <1>10, <2>1, SetupKeeps
  <2> QED BY <1>5, <1>7, <2>2, <2>3
<1>11. CASE s.model
  <2>1. Calm(g) /\ Planless(g) /\ Ahead(g, k)
    BY <1>3, <1>8, <1>9, <1>11 DEF Calm, Planless, Ahead
  <2>2. Guarded(g, o)
    BY <1>5, <1>8, <1>9, <1>11, <2>1, LoopTopGuarded
  <2> QED BY <1>5, <1>8, <2>2 DEF Guarded
<1> QED BY <1>10, <1>11

\* continueRun reopens an ended run as RETRYING.
LEMMA ReopenedCalm ==
  ASSUME NEW s \in RunState, Calm(s)
  PROVE  Calm(Reopened(s))
<1> DEFINE back == IF s.place = "terminal"
                   THEN [s EXCEPT !.place = "active", !.abort = FALSE, !.running = FALSE]
                   ELSE s
           again == [Goto(back, "retrying") EXCEPT !.ends = 0]
<1>1. back \in RunState /\ Calm(back)
  BY DEF RunState, Calm
<1>2. Calm(again)
  BY <1>1 DEF Goto, Calm, RunState
<1>3. Reopened(s) = IF back.status \in Terminal THEN again ELSE back
  BY DEF Reopened
<1> QED BY <1>1, <1>2, <1>3

\* A request or a timer: the run's status follows its machine, an ended run stays
\* as it ended, and neither checkpoint nor model is touched; an execution that
\* goes on keeps its deadline, or is told to abort.
LEMMA RequestKeeps ==
  ASSUME TypeOK,
         CancelBegin \/ CancelEnd \/ DeadlineFires \/ RetryBlocked \/ RetryRefused
           \/ PauseRun \/ ResumeRun
  PROVE  /\ Final(run, run') /\ (Planless(run) => Planless(run'))
         /\ run'.ckpt = run.ckpt /\ run'.model = run.model /\ loop' = loop
         /\ \/ Ended(run') \/ run'.abort
            \/ run'.deadline = run.deadline /\ run'.abort = run.abort
<1>1. run \in RunState
  BY DEF TypeOK
<1> DEFINE Same(r) == /\ r.machine = run.machine /\ r.status = run.status
                      /\ r.ckpt = run.ckpt /\ r.model = run.model
<1>2. ASSUME NEW r, Same(r)
      PROVE  Final(run, r) /\ (Planless(run) => Planless(r))
  BY <1>2 DEF Final, Calm, Planless
<1>3. CASE CancelBegin
  <2>1. Same(run') /\ run'.abort
    BY <1>1, <1>3 DEF CancelBegin, RunState
  <2> QED BY <1>2, <1>3, <2>1 DEF CancelBegin
<1>4. CASE CancelEnd
  <2> DEFINE c == cancelledRun(run)
  <2>1. /\ c \in RunState /\ Final(run, c) /\ (Planless(run) => Planless(c))
        /\ c.ckpt = run.ckpt /\ c.model = run.model
    BY <1>1, FailKeeps
  <2>2. Ended(c)
    BY <1>1, EndAsOK DEF cancelledRun, Ended, Terminal
  <2> HIDE DEF c
  <2>3. /\ run'.machine = c.machine /\ run'.status = c.status /\ run'.place = c.place
        /\ run'.ckpt = c.ckpt /\ run'.model = c.model /\ loop' = loop
    BY <1>4, <2>1 DEF CancelEnd, RunState, c
  <2>4. Ended(run') /\ Final(run, run') /\ (Planless(run) => Planless(run'))
    BY <2>1, <2>2, <2>3 DEF Ended, Final, Calm, Planless
  <2> QED BY <2>1, <2>3, <2>4
<1>5. CASE DeadlineFires
  <2> DEFINE r == [run EXCEPT !.abort = TRUE, !.deadline = FALSE]
  <2>1. r \in RunState /\ Same(r) /\ r.place = run.place
    <3>1. r \in RunState
      BY <1>1, FlagsOK
    <3>2. Same(r) /\ r.place = run.place
      BY <1>1 DEF RunState
    <3> QED BY <3>1, <3>2
  <2>2. run' = failRun(r) /\ loop' = loop
    BY <1>5 DEF DeadlineFires
  <2> HIDE DEF r
  <2>3. /\ run' \in RunState /\ Final(r, run') /\ (Planless(r) => Planless(run'))
        /\ run'.ckpt = r.ckpt /\ run'.model = r.model
    BY <2>1, <2>2, FailKeeps
  <2>4. Ended(run')
    BY <2>1, <2>2, EndAsOK DEF failRun, cancelledRun, Ended, Terminal
  <2> QED BY <2>1, <2>2, <2>3, <2>4 DEF Final, Calm, Planless
<1>6. CASE RetryBlocked \/ RetryRefused
  <2>1. Same(run') /\ run'.deadline = run.deadline /\ run'.abort = run.abort /\ loop' = loop
    BY <1>1, <1>6 DEF RetryBlocked, RetryRefused, Back, RunState
  <2> QED BY <1>2, <2>1
<1>7. CASE PauseRun
  <2> DEFINE g == IF run.place = "active" THEN TryGoto(run, "pausing") ELSE run
  <2>1. g \in RunState /\ Carries(run, Idle, g, Idle) /\ g.model = run.model
    <3>1. "pausing" \in Status \ Terminal
      BY DEF Status, Terminal
    <3>2. Carries(run, Idle, run, Idle)
      BY <1>1, SameCarries
    <3>3. Legal(run.machine, <<"pausing">>) => Carries(run, Idle, Goto(run, "pausing"), Idle)
      BY <1>1, <3>1, GotoCarries, TerminalIsStuck
    <3>4. Goto(run, "pausing").model = run.model
      BY <1>1 DEF Goto, RunState
    <3>5. TryGoto(run, "pausing") \in RunState
      BY <1>1, FlagsOK
    <3> QED BY <1>1, <3>2, <3>3, <3>4, <3>5 DEF TryGoto
  <2>2. run' = [g EXCEPT !.pause = "PAUSING"] /\ loop' = loop
    BY <1>7 DEF PauseRun
  <2> HIDE DEF g
  <2>3. /\ run'.machine = g.machine /\ run'.status = g.status /\ run'.ckpt = g.ckpt
        /\ run'.model = g.model /\ run'.deadline = g.deadline /\ run'.abort = g.abort
    BY <2>1, <2>2 DEF RunState
  <2> QED BY <2>1, <2>2, <2>3 DEF Carries, Final, Calm, Planless
<1>8. CASE ResumeRun
  <2> DEFINE g == IF run.place = "active" /\ run.machine \in {"paused", "pausing"}
                  THEN Goto(run, "executing") ELSE run
  <2>1. g \in RunState /\ Carries(run, Idle, g, Idle) /\ g.model = run.model
    <3>1. "executing" \in Status \ Terminal
      BY DEF Status, Terminal
    <3>2. Carries(run, Idle, run, Idle)
      BY <1>1, SameCarries
    <3>3. run.machine \in {"paused", "pausing"} => Carries(run, Idle, Goto(run, "executing"), Idle)
      BY <1>1, <3>1, GotoCarries DEF Terminal
    <3>4. Goto(run, "executing").model = run.model
      BY <1>1 DEF Goto, RunState
    <3>5. Goto(run, "executing") \in RunState
      BY <1>1, FlagsOK
    <3> QED BY <1>1, <3>2, <3>3, <3>4, <3>5
  <2>2. \E p : run' = [g EXCEPT !.pause = p]
    BY <1>8 DEF ResumeRun
  <2>3. loop' = loop
    BY <1>8 DEF ResumeRun
  <2> HIDE DEF g
  <2>4. /\ run'.machine = g.machine /\ run'.status = g.status /\ run'.ckpt = g.ckpt
        /\ run'.model = g.model /\ run'.deadline = g.deadline /\ run'.abort = g.abort
    BY <2>1, <2>2 DEF RunState
  <2> QED BY <2>1, <2>3, <2>4 DEF Carries, Final, Calm, Planless
<1> QED BY <1>3, <1>4, <1>5, <1>6, <1>7, <1>8

CalmInv == Calm(run)

\* Every step keeps status and machine equal, and changes the status of an ended
\* run only with a new execution.
LEMMA StepFinal ==
  ASSUME TypeOK, CalmInv, [Next]_vars
  PROVE  /\ CalmInv'
         /\ run.status \in Terminal =>
               run'.status = run.status \/ \E e \in Exec : Fresh(e) /\ loop'[e].pc # "unused"
<1>0. run \in RunState /\ Calm(run) /\ loop \in [Exec -> LoopState]
  BY DEF TypeOK, CalmInv
<1>1. ASSUME NEW e \in Exec, LoopStep(e)
      PROVE  CalmInv' /\ (run.status \in Terminal => run'.status = run.status)
  BY <1>0, <1>1, LoopStepKeeps DEF Keeps, Final, Does, CalmInv, Calm
<1>2. ASSUME NEW e \in Exec, StartRun(e) \/ ContinueRun(e)
      PROVE  CalmInv' /\ Fresh(e) /\ loop'[e].pc # "unused"
  <2>1. Fresh(e)
    BY <1>2 DEF StartRun, ContinueRun
  <2>2. PICK s \in RunState : s.status \notin Terminal /\ Calm(s) /\ Launch(s, e)
    BY <1>0, <1>2, ReopenedOK, ReopenedCalm DEF StartRun, MayStart, ContinueRun
  <2>3. PICK o : Good([s EXCEPT !.running = TRUE], o) /\ Does(e, o)
    BY <2>2, LaunchGood
  <2>4. loop'[e].pc # "unused"
    BY <1>0, <2>3 DEF Good, Does
  <2>5. CalmInv'
    BY <2>2, LaunchKeeps DEF Does, CalmInv, Calm
  <2> QED BY <2>1, <2>4, <2>5
<1>3. ASSUME NEW e \in Exec, RetryRun(e)
      PROVE  CalmInv' /\ Fresh(e) /\ loop'[e].pc # "unused"
  <2>1. PICK r \in RunState, o \in Outcomes : Good(r, o) /\ Does(e, o)
    BY <1>3, RetryGood
  <2>2. loop'[e].pc # "unused"
    BY <1>0, <2>1 DEF Good, Does
  <2>3. CalmInv'
    BY <1>0, <1>3, RetryKeeps DEF Does, CalmInv, Calm
  <2> QED BY <1>3, <2>2, <2>3 DEF RetryRun
<1>4. ASSUME CancelBegin \/ CancelEnd \/ DeadlineFires \/ RetryBlocked \/ RetryRefused
             \/ PauseRun \/ ResumeRun
      PROVE  CalmInv' /\ (run.status \in Terminal => run'.status = run.status)
  BY <1>0, <1>4, RequestKeeps DEF Final, CalmInv, Calm
<1>5. CASE UNCHANGED vars
  BY <1>5 DEF vars, CalmInv, Calm
<1> QED BY <1>1, <1>2, <1>3, <1>4, <1>5 DEF Next

\* A late reply, timer, cancel, pause or deadline never changes the status of a
\* run that has ended, whatever requests clients make (continuations included)
\* and however many executions wait: only a new execution does.
THEOREM EndIsFinal == Spec => TerminalIsFinal
<1>1. Init => CalmInv
  BY DEF Init, CalmInv, Calm
<1>2. TypeOK /\ CalmInv /\ [Next]_vars => CalmInv'
  BY StepFinal
<1>3. TypeOK /\ CalmInv /\ [Next]_vars =>
        [run.status \in Terminal =>
           \/ run'.status = run.status
           \/ \E e \in Exec : Fresh(e) /\ loop'[e].pc # "unused"]_vars
  BY StepFinal
<1> QED BY <1>1, <1>2, <1>3, TypeCorrect, PTL DEF Spec, TerminalIsFinal

\* What guards the executions of a run: those that live are at their checkpoint
\* or beyond it, under an armed deadline or a set abort flag.
GuardInv ==
  /\ CalmInv /\ Planless(run) /\ (run.ckpt.step > 0 => run.model)
  /\ \A e \in Exec : Live(e) =>
        /\ Ahead(run, loop[e])
        /\ loop[e].pc = "persist" \/ Beyond(run, loop[e])
        /\ Ended(run) \/ run.deadline \/ run.abort

\* The invariant holds after the only execution that lives did its step.
LEMMA DoesGuard ==
  ASSUME TypeOK, NEW e \in Exec, NEW q, NEW o, Does(e, o), Guarded(q, o),
         \A d \in Exec : Live(d) => d = e,
         o.l.pc # "done" => Ended(o.s) \/ q.deadline \/ q.abort
  PROVE  GuardInv'
<1>1. run' = o.s /\ \A d \in Exec : loop'[d] = IF d = e THEN o.l ELSE loop[d]
  BY DEF Does, TypeOK
<1>2. \A d \in Exec : Live(d)' => d = e /\ o.l.pc # "done"
  BY <1>1 DEF Live
<1>3. ASSUME NEW d \in Exec, Live(d)'
      PROVE  /\ Ahead(run', loop'[d])
             /\ loop'[d].pc = "persist" \/ Beyond(run', loop'[d])
             /\ Ended(run') \/ run'.deadline \/ run'.abort
  BY <1>1, <1>2, <1>3 DEF Guarded
<1>4. Calm(run') /\ Planless(run') /\ (run'.ckpt.step > 0 => run'.model)
  BY <1>1 DEF Guarded
<1> QED BY <1>3, <1>4
        DEF GuardInv, CalmInv, Calm, Planless, Ahead, Beyond, Ended, Live

\* Every step keeps a live execution guarded.
LEMMA StepGuard ==
  ASSUME "continue" \notin Requests, TypeOK, LifeInv, GuardInv, [Next]_vars
  PROVE  GuardInv'
<1>0. /\ run \in RunState /\ Calm(run) /\ Planless(run)
      /\ run.ckpt.step > 0 => run.model
  BY DEF TypeOK, GuardInv, CalmInv
<1>1. ASSUME NEW e \in Exec, LoopStep(e) PROVE GuardInv'
  <2>1. Live(e) /\ \A d \in Exec : Live(d) => d = e
    BY <1>1, LoopStepGood DEF LifeInv, OneLoop
  <2>2. PICK o : /\ Does(e, o) /\ Keeps(run, loop[e], o)
                 /\ loop[e].pc = "persist" /\ Ahead(run, loop[e])
                      => o.l.pc = "done" \/ Beyond(o.s, o.l)
    BY <1>1, LoopStepKeeps
  <2>3. /\ Ahead(run, loop[e]) /\ (loop[e].pc = "persist" \/ Beyond(run, loop[e]))
        /\ Ended(run) \/ run.deadline \/ run.abort
    BY <2>1 DEF GuardInv
  <2>4. Guarded(run, o)
    BY <1>0, <2>2, <2>3 DEF Guarded, Keeps, Final, Ahead
  <2>5. Ended(run) => o.l.pc = "done" \/ Ended(o.s)
    <3>1. Ended(run) => Dead(run)
      BY <2>1, EndedStuck DEF LifeInv, EndedInv
    <3>2. PICK p : Good(run, p) /\ Does(e, p)
      BY <1>1, LoopStepGood
    <3>3. o.s = run' /\ p.s = run'
      BY <2>2, <3>2 DEF Does
    <3> QED BY <3>1, <3>2, <3>3 DEF Good, Dead, Ended
  <2> QED BY <2>1, <2>2, <2>3, <2>4, <2>5, DoesGuard
<1>2. ASSUME NEW e \in Exec, StartRun(e) PROVE GuardInv'
  <2>1. ~Ended(run) /\ ~run.running /\ run.status \notin Terminal /\ Launch(run, e)
    BY <1>2 DEF StartRun, MayStart, Ended
  <2>2. \A d \in Exec : ~Live(d)
    BY <2>1 DEF LifeInv, OpenInv
  <2>3. PICK q, o : Does(e, o) /\ q.deadline /\ Guarded(q, o)
    BY <1>0, <2>1, LaunchKeeps
  <2> QED BY <2>2, <2>3, DoesGuard
<1>3. ASSUME NEW e \in Exec, ContinueRun(e) PROVE GuardInv'
  BY <1>3 DEF ContinueRun
<1>4. ASSUME NEW e \in Exec, RetryRun(e) PROVE GuardInv'
  <2>1. run.status = "failed"
    BY <1>4 DEF RetryRun, RetryAllowed
  <2>2. \A d \in Exec : ~Live(d)
    BY <2>1 DEF LifeInv, EndedInv, Terminal, Dead
  <2>3. PICK q, o : Does(e, o) /\ q.deadline /\ Guarded(q, o)
    BY <1>0, <1>4, RetryKeeps
  <2> QED BY <2>2, <2>3, DoesGuard
<1>5. ASSUME CancelBegin \/ CancelEnd \/ DeadlineFires \/ RetryBlocked \/ RetryRefused
             \/ PauseRun \/ ResumeRun
      PROVE  GuardInv'
  <2>1. /\ Final(run, run') /\ Planless(run')
        /\ run'.ckpt = run.ckpt /\ run'.model = run.model /\ loop' = loop
        /\ \/ Ended(run') \/ run'.abort
           \/ run'.deadline = run.deadline /\ run'.abort = run.abort
    BY <1>0, <1>5, RequestKeeps
  <2>2. Calm(run')
    BY <1>0, <2>1 DEF Final
  <2>3. \A e \in Exec : Live(e)' => Live(e)
    BY <2>1 DEF Live
  <2>4. Ended(run) => Ended(run') \/ RetryBlocked
    BY <1>0, <1>5, <2>1 DEF Ended, Final, CancelBegin, CancelEnd, DeadlineFires,
       RetryRefused, PauseRun, ResumeRun, RetryAllowed, LifeInv, PlaceInv, RunState, Terminal
  <2>5. RetryBlocked => \A e \in Exec : ~Live(e)
    BY DEF RetryBlocked, RetryAllowed, LifeInv, EndedInv, Terminal, Dead
  <2>6. ASSUME NEW e \in Exec, Live(e)'
        PROVE  /\ Ahead(run', loop'[e])
               /\ loop'[e].pc = "persist" \/ Beyond(run', loop'[e])
               /\ Ended(run') \/ run'.deadline \/ run'.abort
    BY <2>1, <2>3, <2>4, <2>5, <2>6 DEF GuardInv, Ahead, Beyond
  <2> QED BY <1>0, <2>1, <2>2, <2>6
          DEF GuardInv, CalmInv, Calm, Planless, Ahead, Beyond, Ended, Live
<1>6. CASE UNCHANGED vars
  BY <1>6 DEF vars, GuardInv, CalmInv, Calm, Planless, Ahead, Beyond, Ended, Live
<1> QED BY <1>1, <1>2, <1>3, <1>4, <1>5, <1>6 DEF Next

\* A run that executes is guarded whatever clients do short of a continuation:
\* its busy flag is up, its deadline armed (or it is told to abort), and no
\* execution runs a step whose results are checkpointed, after any number of
\* retries.
THEOREM GuardsHold ==
  ASSUME "continue" \notin Requests
  PROVE  Spec => []ExecutionGuarded
<1>1. Init => LifeInv /\ GuardInv
  <2>1. Init => \A e \in Exec : ~Live(e)
    BY DEF Init, Live, Idle
  <2> QED BY <2>1, InitLife DEF Init, GuardInv, CalmInv, Calm, Planless
<1>2. TypeOK /\ LifeInv /\ GuardInv /\ [Next]_vars => LifeInv' /\ GuardInv'
  BY StepLife, StepGuard
<1>3. TypeOK /\ LifeInv /\ GuardInv => ExecutionGuarded
  <2> SUFFICES ASSUME TypeOK, LifeInv, GuardInv PROVE ExecutionGuarded
    OBVIOUS
  <2>1. BusyFlagHolds
    BY DEF LifeInv, OpenInv, BusyFlagHolds
  <2>2. DeadlineGuards
    BY DEF GuardInv, DeadlineGuards
  <2>3. NoRepeatedStep
    BY DEF GuardInv, NoRepeatedStep, Beyond, TypeOK, RunState, LoopState, Checkpoint
  <2> QED BY <2>1, <2>2, <2>3 DEF ExecutionGuarded
<1> QED BY <1>1, <1>2, <1>3, TypeCorrect, PTL DEF Spec

=============================================================================
