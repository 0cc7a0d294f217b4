---------------------------- MODULE ConsoleView ----------------------------
(***************************************************************************)
(* What the console makes of the events of a run (applyEventToSnapshot and *)
(* its helpers, frontend state/store.tsx), beside what the run records for *)
(* the snapshot that REST serves (backend/src/api/snapshot.js).  Events    *)
(* arrive here at once, complete and in order: their way is EventStream.   *)
(* A text is the set of the model calls whose pieces it holds; traces,     *)
(* costs, decisions and memory lists are left out.                         *)
(***************************************************************************)
EXTENDS Integers, Sequences, SequencesExt

CONSTANTS
    VTools,
    VShown, VKeep,      \* messages kept: MAX_MESSAGES (300), the other slices (200)
    VWindow,            \* recorded tool calls of a snapshot (10)
    VMaxCalls, VMaxTools, VMaxEpisodes, VMaxLoads       \* bounds

ASSUME ViewAssumption == VShown \in Nat \ {0, 1} /\ VKeep \in Nat \ {0} /\ VWindow \in Nat \ {0}

VARIABLES
    vRun,       \* [status (as frontendStatus gives it), loop, asked, call]
    vBusy,      \* tool calls under way: [tool, by]
    vCalls,     \* recentToolCalls: [tool, out]
    vSaid,      \* answers among ctrl.messages
    vView,      \* the console's snapshot: [status, messages, tools]
    vReplayed,  \* history: tools whose last event was an idempotent replay
    vCount      \* bounds: [tools, episodes, loads]

viewVars == <<vRun, vBusy, vCalls, vSaid, vView, vReplayed, vCount>>

Terminal == {"completed", "failed", "cancelled"}
Recent(n, s) == SubSeq(s, IF Len(s) > n THEN Len(s) - n + 1 ELSE 1, Len(s))
AnswerOf(of, live) == [role |-> "assistant", of |-> of, live |-> live]
ToolLine == [role |-> "tool", of |-> {}, live |-> FALSE]

ViewInit ==
    /\ vRun = [status |-> "idle", loop |-> "idle", asked |-> 0, call |-> 0]
    /\ vBusy = {} /\ vCalls = <<>> /\ vSaid = <<>> /\ vReplayed = {}
    /\ vView = [status |-> "idle", messages |-> <<>>, tools |-> [t \in VTools |-> "idle"]]
    /\ vCount = [tools |-> 0, episodes |-> 0, loads |-> 0]

------------------------------------------------------------------------------
(* The reducer. An event is [type, tool, out, call].                        *)

Event(type) == [type |-> type, tool |-> "none", out |-> "none", call |-> 0]

\* No other event changes the status, execution.paused included.  (The view
\* begins after task.created; the server has no sender of execution.started.)
StatusAfter(e, old) ==
    CASE e.type \in {"task.created", "task.started", "planning"} -> "planning"
      [] e.type \in {"context.built", "execution.started"} -> "running"
      [] e.type = "run.completed" -> "completed"
      [] e.type = "run.failed" -> "failed"
      [] e.type = "run.cancelled" -> "cancelled"
      [] OTHER -> old

Streaming(ms) == ms # <<>> /\ Last(ms).live

\* A piece continues the last message only if that is still streaming.
AppendDelta(ms, call) ==
    IF Streaming(ms)
    THEN Append(Front(Recent(VShown, ms)), AnswerOf(Last(ms).of \cup {call}, TRUE))
    ELSE Append(Recent(VShown - 1, ms), AnswerOf({call}, TRUE))

\* response.done: the full text replaces what was streamed into the last message.
FinalizeStream(ms, call) ==
    Append(IF Streaming(ms) THEN Front(Recent(VShown, ms)) ELSE Recent(VShown - 1, ms),
           AnswerOf({call}, FALSE))

ApplyEvent(v, e) ==
    [v EXCEPT
        !.status = StatusAfter(e, @),
        !.tools = CASE e.type = "tool.started" -> [@ EXCEPT ![e.tool] = "running"]
                    [] e.type \in {"tool.completed", "tool.failed"} -> [@ EXCEPT ![e.tool] = e.out]
                    [] OTHER -> @,
        !.messages = CASE e.type = "response.delta" -> AppendDelta(@, e.call)
                       [] e.type = "response.done" -> FinalizeStream(@, e.call)
                       [] e.type \in {"tool.started", "tool.completed", "tool.failed"} ->
                              Append(Recent(VKeep, @), ToolLine)
                       [] OTHER -> @]

Emits(es) == vView' = FoldLeft(ApplyEvent, vView, es)
PieceOf(call) == [Event("response.delta") EXCEPT !.call = call]

------------------------------------------------------------------------------
(* The loop.                                                                *)

LoopLive == vRun.loop \in {"setup", "call", "tools"}

\* startRun, of a new run or (continueRun) of one that has ended.
StartsEpisode ==
    /\ vRun.loop = "idle" /\ vRun.status \in {"idle"} \cup Terminal
    /\ vCount.episodes < VMaxEpisodes /\ vCount' = [vCount EXCEPT !.episodes = @ + 1]
    /\ vRun' = [vRun EXCEPT !.status = "planning", !.loop = "setup"]
    /\ Emits(<<Event("task.started"), Event("planning")>>)
    /\ UNCHANGED <<vBusy, vCalls, vSaid, vReplayed>>

\* retryRun resumes with the model it had: the setup, and context.built, are skipped.
Resumes ==
    /\ vRun.loop = "idle" /\ vRun.status = "failed" /\ vRun.call \in 1..VMaxCalls - 1
    /\ vCount.episodes < VMaxEpisodes /\ vCount' = [vCount EXCEPT !.episodes = @ + 1]
    /\ vRun' = [vRun EXCEPT !.status = "running", !.loop = "call", !.call = @ + 1]
    /\ Emits(<<Event("planning")>>)
    /\ UNCHANGED <<vBusy, vCalls, vSaid, vReplayed>>

ContextBuilt ==
    /\ vRun.loop = "setup" /\ vRun.call < VMaxCalls
    /\ vRun' = [vRun EXCEPT !.status = "running", !.loop = "call", !.call = @ + 1]
    /\ Emits(<<Event("context.built")>>)
    /\ UNCHANGED <<vBusy, vCalls, vSaid, vReplayed, vCount>>

PieceComes ==
    /\ vRun.loop = "call" /\ Emits(<<PieceOf(vRun.call)>>)
    /\ UNCHANGED <<vRun, vBusy, vCalls, vSaid, vReplayed, vCount>>

\* A failover or the backoff calls again: what was streamed so far stays shown.
CallAgain ==
    /\ vRun.loop = "call" /\ vRun.call < VMaxCalls
    /\ vRun' = [vRun EXCEPT !.call = @ + 1]
    /\ UNCHANGED <<vBusy, vCalls, vSaid, vView, vReplayed, vCount>>

AsksTools(n) ==
    /\ vRun.loop = "call"
    /\ vRun' = [vRun EXCEPT !.status = "waiting", !.loop = "tools", !.asked = n]
    /\ UNCHANGED <<vBusy, vCalls, vSaid, vView, vReplayed, vCount>>

AgentBusy == \E b \in vBusy : b.by = "agent"

\* The results are observed, and the model is called again.
ToolsOver ==
    /\ vRun.loop = "tools" /\ vRun.asked = 0 /\ ~AgentBusy /\ vRun.call < VMaxCalls
    /\ vRun' = [vRun EXCEPT !.status = "running", !.loop = "call", !.call = @ + 1]
    /\ UNCHANGED <<vBusy, vCalls, vSaid, vView, vReplayed, vCount>>

\* The step ends with the text of its last call; the run ends or steps on.
StepEnds(last) ==
    /\ vRun.loop = "call"
    /\ last \/ vRun.call < VMaxCalls
    /\ vSaid' = Append(vSaid, vRun.call)
    /\ vRun' = IF last THEN [vRun EXCEPT !.status = "completed", !.loop = "idle"]
               ELSE [vRun EXCEPT !.call = @ + 1]
    /\ LET done == [Event("response.done") EXCEPT !.call = vRun.call]
       IN  Emits(IF last THEN <<done, Event("run.completed")>> ELSE <<done>>)
    /\ UNCHANGED <<vBusy, vCalls, vReplayed, vCount>>

RunFails ==
    /\ vRun.loop \in {"setup", "call"}
    /\ vRun' = [vRun EXCEPT !.status = "failed", !.loop = "idle"]
    /\ Emits(<<Event("run.failed")>>)
    /\ UNCHANGED <<vBusy, vCalls, vSaid, vReplayed, vCount>>

\* cancelRun ends the run at once; the loop notices when what it awaits settles,
\* and an answer of complete() is still told as a piece.
Cancels ==
    /\ LoopLive
    /\ vRun' = [vRun EXCEPT !.status = "cancelled", !.asked = 0,
                            !.loop = IF @ = "call" THEN "answering" ELSE "leaving"]
    /\ Emits(<<Event("run.cancelled")>>)
    /\ UNCHANGED <<vBusy, vCalls, vSaid, vReplayed, vCount>>

LoopEnds(told) ==
    /\ vRun.loop \in {"answering", "leaving"} /\ ~AgentBusy
    /\ told => vRun.loop = "answering"
    /\ vRun' = [vRun EXCEPT !.loop = "idle"]
    /\ Emits(IF told THEN <<PieceOf(vRun.call)>> ELSE <<>>)
    /\ UNCHANGED <<vBusy, vCalls, vSaid, vReplayed, vCount>>

------------------------------------------------------------------------------
(* Tools: of the loop, one at a time, and of the user (executeWithApproval).*)

ToolEvent(type, t, out) == [Event(type) EXCEPT !.tool = t, !.out = out]

\* Refused calls leave no event and no record; a replay leaves only an event.
ToolCalled(t, by, how) ==
    /\ vCount.tools < VMaxTools /\ vCount' = [vCount EXCEPT !.tools = @ + 1]
    /\ IF by = "agent"
       THEN /\ vRun.loop = "tools" /\ vRun.asked > 0 /\ ~AgentBusy
            /\ vRun' = [vRun EXCEPT !.asked = @ - 1]
       ELSE (\A b \in vBusy : b.by # by) /\ vRun.status # "idle" /\ UNCHANGED vRun
    /\ CASE how = "started" -> /\ vBusy' = vBusy \cup {[tool |-> t, by |-> by]}
                               /\ Emits(<<ToolEvent("tool.started", t, "none")>>)
                               /\ UNCHANGED vReplayed
         [] how = "replayed" -> /\ vReplayed' = vReplayed \cup {t}
                                /\ Emits(<<ToolEvent("tool.completed", t, "success")>>)
                                /\ UNCHANGED vBusy
         [] how = "refused" -> UNCHANGED <<vBusy, vView, vReplayed>>
    /\ UNCHANGED <<vCalls, vSaid>>

Outcomes == {"success", "failed", "timed_out", "cancelled"}

\* Event and record are made in one go.
ToolEnds(b, out) ==
    /\ vBusy' = vBusy \ {b}
    /\ vCalls' = Recent(VWindow, Append(vCalls, [tool |-> b.tool, out |-> out]))
    /\ Emits(<<ToolEvent(IF out = "success" THEN "tool.completed" ELSE "tool.failed", b.tool, out)>>)
    /\ vReplayed' = vReplayed \ {b.tool}
    /\ UNCHANGED <<vRun, vSaid, vCount>>

------------------------------------------------------------------------------
(* The snapshot, installed whole (snap/set).  It knows nothing of calls     *)
(* under way, and of a text that is being streamed.                         *)

Records(t) == SelectSeq(vCalls, LAMBDA c : c.tool = t)
LastStatus(t) == IF Records(t) = <<>> THEN "idle" ELSE Last(Records(t)).out

SnapshotLoaded ==
    /\ vCount.loads < VMaxLoads /\ vCount' = [vCount EXCEPT !.loads = @ + 1]
    /\ vView' = [status |-> vRun.status, tools |-> [t \in VTools |-> LastStatus(t)],
                 messages |-> [i \in DOMAIN Recent(VKeep, vSaid) |-> AnswerOf({Recent(VKeep, vSaid)[i]}, FALSE)]]
    /\ vReplayed' = {}
    /\ UNCHANGED <<vRun, vBusy, vCalls, vSaid>>

ViewNext ==
    \/ StartsEpisode \/ Resumes \/ ContextBuilt \/ PieceComes \/ CallAgain \/ ToolsOver
    \/ \E n \in 1..2 : AsksTools(n)
    \/ \E b \in BOOLEAN : StepEnds(b) \/ LoopEnds(b)
    \/ RunFails \/ Cancels \/ SnapshotLoaded
    \/ \E t \in VTools, by \in {"agent", "user"}, how \in {"started", "replayed", "refused"} :
          ToolCalled(t, by, how)
    \/ \E b \in vBusy, out \in Outcomes : ToolEnds(b, out)

------------------------------------------------------------------------------
\* "The REST snapshot and the SSE stream describe the SAME runtime state"
\* (api/snapshot.js): the console shows the end of a run that has ended; a tool
\* with no call under way has the outcome that the snapshot gives it, unless that
\* call was a replay (shown, not recorded) or has left the snapshot's window; and
\* the finished answers it shows are the latest that the run gave, in order,
\* whatever pieces, tool lines, retries and late answers came between.
SameState ==
    LET finished == SelectSeq(vView.messages, LAMBDA m : m.role = "assistant" /\ ~m.live)
    IN  /\ vRun.status \in Terminal => vView.status = vRun.status
        /\ \A t \in VTools : (\A b \in vBusy : b.tool # t) /\ t \notin vReplayed /\ Records(t) # <<>>
              => vView.tools[t] = LastStatus(t)
        /\ Len(finished) <= Len(vSaid)
        /\ \A i \in DOMAIN finished : finished[i].of = {Recent(Len(finished), vSaid)[i]}
        /\ vView.messages # <<>> /\ vSaid # <<>> /\ finished = <<>> => Len(vView.messages) >= VKeep
=============================================================================
