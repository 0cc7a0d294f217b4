---------------------------- MODULE Conversation ---------------------------
(***************************************************************************)
(* What the provider is told: ctrl.history as the steps of a run grow it   *)
(* (core/orchestrator.js), and the prompt each call sends, which is the    *)
(* last turns of it with the task put in (impl/context-manager.js,         *)
(* compilePrompt).  A turn is a user message, an assistant message with    *)
(* the ids of the calls it makes, or the result of one call.               *)
(***************************************************************************)
EXTENDS Integers, SequencesExt

CONSTANTS
    CWindow,      \* turns of history a prompt keeps (10)
    CRoundCalls,  \* calls of one answer that are executed (3)
    CRounds,      \* tool rounds of one step (4)
    CMaxToolCalls,\* maxToolCalls of the run
    CAsked,       \* bound: the numbers of calls a model's answer may make
    CMaxSteps,    \* bound: steps of the run, over its launches
    CMaxLaunches  \* bound: messages the user sends

ASSUME ConversationAssumption ==
    /\ {CWindow, CRoundCalls, CRounds, CMaxSteps, CMaxLaunches} \subseteq Nat \ {0}
    /\ CMaxToolCalls \in Nat /\ CAsked \subseteq Nat

VARIABLES
    cHist,   \* ctrl.history
    cRun,    \* the control record: see RunShape
    cLoop,   \* the executions, one per launch: see NoLoop
    cCheck,  \* what the last completed checkpoint holds of the control record
    cBroken, \* ids of calls whose execution was not left alone to answer them
    cPrompt  \* the messages of the latest provider call

conversationVars == <<cHist, cRun, cLoop, cCheck, cBroken, cPrompt>>

User(n) == [role |-> "user", ids |-> <<n>>]
Assistant(ids) == [role |-> "assistant", ids |-> ids]
ToolResult(id) == [role |-> "tool", ids |-> <<id>>]
TaskTurn == [role |-> "task", ids |-> <<>>]

NoMsg == [exact |-> TRUE, n |-> 0]

\* An execution: where it waits, the ids of its round still to execute, its
\* tool rounds of the step, the message it was launched with.
NoLoop == [pc |-> "none", todo |-> <<>>, round |-> 0, msg |-> NoMsg]

NoCheckpoint == [hist |-> <<>>, count |-> -1, helped |-> FALSE, msg |-> NoMsg]

ConversationInit ==
    /\ cHist = <<>> /\ cPrompt = <<>> /\ cCheck = NoCheckpoint /\ cBroken = {}
    /\ cLoop = [e \in 1..CMaxLaunches |-> NoLoop]
    /\ cRun = [count |-> 0,      \* ctrl.toolCalls
               helped |-> FALSE, \* ctrl.heuristicToolUsed
               msg |-> NoMsg,    \* ctrl.lastUserMessage
               busy |-> FALSE,   \* ctrl.running
               abort |-> FALSE,  \* ctrl.abort
               ended |-> "no",   \* whether the run is terminal: "failed", "other"
               next |-> 1, step |-> 0, launches |-> 0]

LastOf(s, n) == SubSeq(s, IF Len(s) > n THEN Len(s) - n + 1 ELSE 1, Len(s))

\* compilePrompt: the user turn that is the task is replaced by the task, the
\* selected context and the memory; when the window no longer holds it, or the
\* stored message had spaces around it, that text comes last.
CompileMessages(hist, msg) ==
    LET h == LastOf(hist, CWindow)
        at == {i \in 1..Len(h) : msg.exact /\ h[i] = User(msg.n)}
        first == CHOOSE i \in at : \A j \in at : i <= j
    IN IF at = {} THEN Append(h, TaskTurn) ELSE [h EXCEPT ![first] = TaskTurn]

Calls(hist, msg) == cPrompt' = CompileMessages(hist, msg)

\* The ids other executions still owe an answer for when e records a turn or
\* calls the provider.
OwedByOthers(e) == UNION {ToSet(cLoop[o].todo) : o \in DOMAIN cLoop \ {e}}
Interferes(e) == cBroken' = cBroken \cup OwedByOthers(e)

Starts(e, hist, msg) ==
    /\ cLoop' = [cLoop EXCEPT ![e] = [NoLoop EXCEPT !.pc = "model", !.msg = msg]]
    /\ cHist' = hist /\ Calls(hist, msg) /\ Interferes(e)

\* startRun and continueRun: refused while ctrl.running, which a cancel clears
\* although its execution may still be in a tool.  The message joins the
\* conversation, the first step calls the model.
LaunchEpisode(exact) ==
    LET e == cRun.launches + 1
        msg == [exact |-> exact, n |-> e]
    IN /\ ~cRun.busy /\ e <= CMaxLaunches /\ cRun.step < CMaxSteps
       /\ Starts(e, Append(cHist, User(e)), msg)
       /\ cRun' = [cRun EXCEPT !.busy = TRUE, !.abort = FALSE, !.ended = "no", !.msg = msg,
                               !.step = @ + 1, !.launches = e]
       /\ UNCHANGED cCheck

\* retryRun of a failed run: goes on with what the checkpoint kept of the
\* control record or, that being displaced, with the live one.
ConversationRetried ==
    LET e == cRun.launches + 1
        live == [hist |-> cHist, count |-> cRun.count, helped |-> cRun.helped, msg |-> cRun.msg]
    IN /\ cRun.ended = "failed" /\ ~cRun.busy /\ e <= CMaxLaunches /\ cRun.step < CMaxSteps
       /\ \E c \in {cCheck, live} \ {NoCheckpoint} :
             /\ Starts(e, c.hist, c.msg)
             /\ cRun' = [cRun EXCEPT !.busy = TRUE, !.abort = FALSE, !.ended = "no", !.msg = c.msg,
                                     !.count = c.count, !.helped = c.helped,
                                     !.step = @ + 1, !.launches = e]
       /\ UNCHANGED cCheck

\* A cancel or the deadline: provider calls reject at once and their loops end;
\* a loop in a tool or in a backoff finds out, or not, when it comes back.
RunStopped ==
    /\ cRun.busy /\ cRun.ended = "no"
    /\ cRun' = [cRun EXCEPT !.abort = TRUE, !.ended = "other", !.busy = FALSE]
    /\ cLoop' = [e \in DOMAIN cLoop |->
                   IF cLoop[e].pc = "model" THEN [NoLoop EXCEPT !.pc = "ended"] ELSE cLoop[e]]
    /\ UNCHANGED <<cHist, cCheck, cBroken, cPrompt>>

\* The ids of the answer's calls that the round executes (slice).
CallsOf(k) == [i \in 1..(IF k < CRoundCalls THEN k ELSE CRoundCalls) |-> cRun.next + i - 1]

\* Seeded fault: the recorded turn keeps the calls beyond the limit.
BugRoundCalls(k) == [i \in 1..k |-> cRun.next + i - 1]
\* ... and so records.
RoundCalls(k) == CallsOf(k)

AsksForTools(e, k) ==
    /\ cLoop[e].pc = "model" /\ k > 0 /\ cLoop[e].round < CRounds /\ ~cRun.abort
    /\ cRun.count < CMaxToolCalls
    /\ cHist' = Append(cHist, Assistant(RoundCalls(k)))

\* The answer asks for tools: the assistant turn is recorded before the calls.
ToolRound(e, k) ==
    /\ AsksForTools(e, k) /\ cRun.ended = "no"
    /\ cLoop' = [cLoop EXCEPT ![e].pc = "tools", ![e].round = @ + 1, ![e].todo = CallsOf(k)]
    /\ cRun' = [cRun EXCEPT !.next = @ + k]
    /\ Interferes(e) /\ UNCHANGED <<cCheck, cPrompt>>

\* An execution that ends, having run that many more calls: the run's end is
\* recorded unless it has ended or was aborted, and ctrl.running is cleared
\* whichever execution this was.
LoopEnds(e, how, ran) ==
    /\ cLoop' = [cLoop EXCEPT ![e] = [NoLoop EXCEPT !.pc = "ended"]]
    /\ cRun' = [cRun EXCEPT !.busy = FALSE, !.count = @ + ran,
                            !.ended = IF @ # "no" THEN @ ELSE IF cRun.abort THEN "other" ELSE how]

\* The state machine refuses waiting_for_tool once the assistant turn stands
\* in the history: the run was paused during the provider call, or another
\* execution moved it.  The run fails with the turn unanswered.
ToolRoundRefused(e, k) ==
    /\ AsksForTools(e, k)
    /\ cLoop' = [cLoop EXCEPT ![e] = [NoLoop EXCEPT !.pc = "ended"]]
    /\ cRun' = [cRun EXCEPT !.next = @ + k, !.busy = FALSE,
                            !.ended = IF @ = "no" THEN "failed" ELSE @]
    /\ cBroken' = cBroken \cup OwedByOthers(e) \cup ToSet(RoundCalls(k))
    /\ UNCHANGED <<cCheck, cPrompt>>

\* The provider call fails and the step is tried again, on another model or
\* after a backoff.
StepCallFails(e) ==
    /\ cLoop[e].pc = "model" /\ cRun.step < CMaxSteps
    /\ cLoop' = [cLoop EXCEPT ![e].pc = "backoff", ![e].round = 0]
    /\ UNCHANGED <<cHist, cRun, cCheck, cBroken, cPrompt>>

\* The history is sent again as it stands, unless the run was stopped.
BackoffEnds(e) ==
    /\ cLoop[e].pc = "backoff"
    /\ IF cRun.abort \/ cRun.ended # "no" \/ cRun.step >= CMaxSteps
       THEN LoopEnds(e, "other", 0) /\ UNCHANGED <<cPrompt, cBroken>>
       ELSE /\ cRun' = [cRun EXCEPT !.step = @ + 1]
            /\ cLoop' = [cLoop EXCEPT ![e].pc = "model"]
            /\ Calls(cHist, cLoop[e].msg) /\ Interferes(e)
    /\ UNCHANGED <<cHist, cCheck>>

\* The step throws: a call that cannot be retried, the tool budget spent, a
\* refused transition before anything is recorded.
StepFails(e) ==
    /\ cLoop[e].pc = "model" /\ LoopEnds(e, "failed", 0)
    /\ UNCHANGED <<cHist, cCheck, cBroken, cPrompt>>

\* A call's result is recorded whether it succeeded, failed or was cancelled,
\* and the next call of the round follows whatever became of the run; after
\* the last the model is called again, unless the run was stopped or its state
\* refuses (ok).
Executed(e, ok) ==
    LET hist == Append(cHist, ToolResult(Head(cLoop[e].todo)))
    IN /\ cLoop[e].pc = "tools" /\ cHist' = hist /\ Interferes(e)
       /\ IF Len(cLoop[e].todo) > 1
          THEN /\ ok /\ cLoop' = [cLoop EXCEPT ![e].todo = Tail(@)]
               /\ cRun' = [cRun EXCEPT !.count = @ + 1] /\ UNCHANGED cPrompt
          ELSE IF ok /\ ~cRun.abort /\ cRun.ended = "no"
          THEN /\ cLoop' = [cLoop EXCEPT ![e].todo = <<>>, ![e].pc = "model"]
               /\ cRun' = [cRun EXCEPT !.count = @ + 1] /\ Calls(hist, cLoop[e].msg)
          ELSE ~ok /\ LoopEnds(e, "failed", 1) /\ UNCHANGED cPrompt
       /\ UNCHANGED cCheck

\* _heuristicToolCall: once, an answer without calls is recorded as if it had
\* asked for one; here the state machine is asked first.
HeuristicAssist(e) ==
    /\ cLoop[e].pc = "model" /\ ~cRun.helped /\ ~cRun.abort /\ cRun.ended = "no"
    /\ cHist' = Append(cHist, Assistant(<<cRun.next>>)) /\ Interferes(e)
    /\ cLoop' = [cLoop EXCEPT ![e].todo = <<cRun.next>>, ![e].pc = "tools", ![e].round = CRounds]
    /\ cRun' = [cRun EXCEPT !.next = @ + 1, !.helped = TRUE]
    /\ UNCHANGED <<cCheck, cPrompt>>

\* The step ends with the answer, and a checkpoint keeps the record; calls
\* beyond the last round are dropped.  An incomplete answer takes the next step.
StepEnds(e, complete) ==
    LET hist == Append(cHist, Assistant(<<>>))
    IN /\ cLoop[e].pc = "model" /\ ~cRun.abort /\ cRun.ended = "no"
       /\ cHist' = hist /\ Interferes(e)
       /\ cCheck' = [hist |-> hist, count |-> cRun.count, helped |-> cRun.helped, msg |-> cRun.msg]
       /\ IF complete \/ cRun.step >= CMaxSteps
          THEN LoopEnds(e, "other", 0) /\ UNCHANGED cPrompt
          ELSE /\ cRun' = [cRun EXCEPT !.step = @ + 1]
               /\ cLoop' = [cLoop EXCEPT ![e].round = 0] /\ Calls(hist, cLoop[e].msg)

ConversationNext ==
    \/ \E exact \in BOOLEAN : LaunchEpisode(exact)
    \/ ConversationRetried \/ RunStopped
    \/ \E e \in DOMAIN cLoop :
          \/ \E k \in CAsked : ToolRound(e, k) \/ ToolRoundRefused(e, k)
          \/ StepCallFails(e) \/ BackoffEnds(e) \/ StepFails(e) \/ HeuristicAssist(e)
          \/ \E ok \in BOOLEAN : Executed(e, ok) \/ StepEnds(e, ok)

(*************************** the Anthropic form ****************************)

\* normalizeAnthropicMessages: results become blocks of a user message, joined
\* to the user message before them when there is one.
AnthropicMessages(msgs) ==
    FoldLeft(LAMBDA out, t :
        LET role == IF t.role = "assistant" THEN "assistant" ELSE "user"
        IN IF t.role = "tool" /\ out # <<>> /\ Last(out).role = "user"
           THEN [out EXCEPT ![Len(out)].results = @ \o t.ids]
           ELSE Append(out, [role |-> role,
                             results |-> IF t.role = "tool" THEN t.ids ELSE <<>>,
                             uses |-> IF role = "assistant" THEN t.ids ELSE <<>>]),
      <<>>, msgs)

(****************************** properties *********************************)

AnsweredNext(ms, i) ==
    ms[i].uses # <<>> => i < Len(ms) /\ IsPrefix(ms[i].uses, ms[i + 1].results)

\* Every tool_use of an assistant message a provider is sent is answered, in
\* the next message, by exactly its results in order: no answer is lost when
\* an answer asks for more calls than a round executes, when the rounds or the
\* budget run out, when the run is stopped between two calls, and when it is
\* continued or retried from a checkpoint afterwards.  Two cases break it in
\* the code and are excepted (cBroken): a round during which another execution
\* of the run recorded a turn or called the provider, as after a cancel that
\* leaves an execution in its tool (orchestrator.js 888, 2271-2275), and a
\* round the state machine refused after the turn was recorded, as when the
\* run is paused during the call (1245-1249).
CallsAnswered ==
    LET ms == AnthropicMessages(cPrompt)
    IN \A i \in 1..Len(ms) : ToSet(ms[i].uses) \cap cBroken = {} => AnsweredNext(ms, i)
=============================================================================
