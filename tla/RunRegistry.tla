---------------------------- MODULE RunRegistry ----------------------------
\* The orchestrator's two maps of runs, the live ones and the bounded history
\* of ended ones, over many runs: creation under the concurrency guard, the
\* end and retirement of a run, eviction of the oldest, the two ways a run
\* comes back from history (continueRun and retryRun), waiting for a run's
\* completion, cleanup, and shutdown.  What a loop does inside a run is in
\* RunLifecycle; here a loop is pending or over.
EXTENDS Integers, Sequences, FiniteSets, SequencesExt

CONSTANTS GRuns,      \* runs
          GMaxLive,   \* maxConcurrentRuns
          GKeep,      \* maxTerminalRetained
          GMaxLoops   \* bound on the loops started for one run

ASSUME RegistryAssumption == GMaxLive \in Nat \ {0} /\ GKeep \in Nat \ {0}

VARIABLES gActive,    \* keys of activeRuns and runControl
          gOrder,     \* terminalOrder
          gTerm,      \* keys of terminalRuns
          gStatus,    \* gStatus[r]: status of the run's state, "none" before it exists
          gLoops,     \* gLoops[r]: loops of the run that are not over
          gLast,      \* gLast[r]: number of the loop behind ctrl.completion, 0: none
          gCreating,  \* runs whose createRun waits for the tool catalogue
          gRetry,     \* runs whose retry evaluates recovery (recoveryInProgress)
          gLate,      \* history: runs a retry restarted after they had moved on
          gKept,      \* runs whose checkpoints and telemetry are kept
          gWait,      \* one waitForCompletion: [pc, run, loop, ans, now]
          gDraining   \* shuttingDown
registryVars == <<gActive, gOrder, gTerm, gStatus, gLoops, gLast, gCreating, gRetry, gLate,
                  gKept, gWait, gDraining>>

Ended == {"completed", "failed", "cancelled"}
Executing(r) == gLoops[r] # {}
NoWait == [pc |-> "idle", run |-> 0, loop |-> 0, ans |-> "none", now |-> 0]

\* getRun: live first, then history; "none" stands for null.
GetRun(r) == IF r \in gActive \cup gTerm THEN gStatus[r] ELSE "none"

RegistryInit ==
    /\ gActive = {} /\ gOrder = <<>> /\ gTerm = {}
    /\ gStatus = [r \in GRuns |-> "none"]
    /\ gLoops = [r \in GRuns |-> {}]
    /\ gLast = [r \in GRuns |-> 0]
    /\ gCreating = {} /\ gRetry = {} /\ gLate = {} /\ gKept = {}
    /\ gWait = NoWait
    /\ gDraining = FALSE

(******************************** creation ********************************)

\* createRun: the guard counts the live runs, then the catalogue is awaited.
CreateStarts(r) ==
    /\ ~gDraining
    /\ gStatus[r] = "none" /\ r \notin gCreating
    /\ Cardinality(gActive) < GMaxLive
    /\ gCreating' = gCreating \cup {r}
    /\ UNCHANGED <<gActive, gOrder, gTerm, gStatus, gLoops, gLast, gRetry, gLate, gKept, gWait, gDraining>>

CreateEnds(r) ==
    /\ r \in gCreating
    /\ gCreating' = gCreating \ {r}
    /\ gActive' = gActive \cup {r}
    /\ gStatus' = [gStatus EXCEPT ![r] = "created"]
    /\ UNCHANGED <<gOrder, gTerm, gLoops, gLast, gRetry, gLate, gKept, gWait, gDraining>>

(******************************* retirement *******************************)

\* A new loop of the run, whose promise becomes ctrl.completion.
Launch(r) ==
    /\ gLast[r] < GMaxLoops
    /\ gLast' = [gLast EXCEPT ![r] = @ + 1]
    /\ gLoops' = [gLoops EXCEPT ![r] = @ \cup {gLast[r] + 1}]
    /\ gStatus' = [gStatus EXCEPT ![r] = "running"]
    /\ gKept' = gKept \cup {r}

\* ctrl.running: set by the latest launch, cleared by retirement and by the
\* end of any loop.
Busy(r) == r \in gActive /\ gStatus[r] = "running" /\ Executing(r)

\* _retireRun: to history, then the oldest beyond the limit leave it with
\* their checkpoints and telemetry.
Retire(r) ==
    LET order == Append(gOrder, r)
        over == Len(order) - GKeep
        gone == IF over > 0 THEN {order[i] : i \in 1..over} \ {r} ELSE {}
    IN  /\ gActive' = gActive \ {r}
        /\ gOrder' = IF over > 0 THEN SubSeq(order, over + 1, Len(order)) ELSE order
        /\ gTerm' = (gTerm \cup {r}) \ gone
        /\ gKept' = gKept \ gone

\* terminalOrder without a run: filter((id) => id !== runId).
Without(order, r) ==
    LET kept[i \in 0..Len(order)] ==
          IF i = 0 THEN <<>>
          ELSE IF order[i] # r THEN Append(kept[i - 1], order[i]) ELSE kept[i - 1]
    IN  kept[Len(order)]

\* Resurrection, the same in continueRun and in retryRun.
Resurrect(r) ==
    /\ gTerm' = gTerm \ {r}
    /\ gOrder' = Without(gOrder, r)
    /\ gActive' = gActive \cup {r}

(****************************** the life of a run *************************)

\* startRun of a run that has not begun.
StartRun(r) ==
    /\ r \in gActive /\ gStatus[r] = "created"
    /\ Launch(r)
    /\ UNCHANGED <<gActive, gOrder, gTerm, gCreating, gRetry, gLate, gWait, gDraining>>

\* _completeRun, _failRun or _cancelledRun, from a loop or from cancelRun: the
\* first ending of a live run counts and retires it.
EndRun(r) ==
    /\ r \in gActive /\ gStatus[r] \notin Ended
    /\ \/ Executing(r) /\ \E s \in Ended : gStatus' = [gStatus EXCEPT ![r] = s]
       \/ gStatus' = [gStatus EXCEPT ![r] = "cancelled"]
    /\ Retire(r)
    /\ UNCHANGED <<gLoops, gLast, gCreating, gRetry, gLate, gWait, gDraining>>

\* A loop is over: it ended the run, or found it ended or no longer live.
LoopOver(r) ==
    /\ gStatus[r] \in Ended \/ r \notin gActive
    /\ \E k \in gLoops[r] : gLoops' = [gLoops EXCEPT ![r] = @ \ {k}]
    /\ UNCHANGED <<gActive, gOrder, gTerm, gStatus, gLast, gCreating, gRetry, gLate, gKept, gWait, gDraining>>

\* continueRun: an ended run comes back from history and starts a new episode,
\* with no wait in between.
ContinueRun(r) ==
    /\ r \in gActive \cup gTerm
    /\ ~Busy(r)
    /\ Launch(r)
    /\ IF r \in gTerm THEN Resurrect(r) ELSE UNCHANGED <<gTerm, gOrder, gActive>>
    /\ UNCHANGED <<gCreating, gRetry, gLate, gWait, gDraining>>

\* retryRun: only of a failed run with budget left, one at a time; it comes
\* back from history before recovery is evaluated.
RetryStarts(r) ==
    /\ r \in gActive \cup gTerm /\ gStatus[r] = "failed"
    /\ r \notin gRetry
    /\ ~Busy(r)
    /\ IF r \in gTerm THEN Resurrect(r) ELSE UNCHANGED <<gTerm, gOrder, gActive>>
    /\ gRetry' = gRetry \cup {r}
    /\ UNCHANGED <<gStatus, gLoops, gLast, gCreating, gLate, gKept, gWait, gDraining>>

\* Recovery refuses (or fails): the run stays failed, and live.
RetryRefused(r) ==
    /\ r \in gRetry
    /\ gRetry' = gRetry \ {r}
    /\ UNCHANGED <<gActive, gOrder, gTerm, gStatus, gLoops, gLast, gCreating, gLate, gKept, gWait, gDraining>>

\* Recovery restores the run, which is not looked at again after the wait.
RetryResumes(r) ==
    /\ r \in gRetry
    /\ gRetry' = gRetry \ {r}
    /\ Launch(r)
    /\ gLate' = IF r \in gActive /\ gStatus[r] = "failed" THEN gLate ELSE gLate \cup {r}
    /\ UNCHANGED <<gActive, gOrder, gTerm, gCreating, gWait, gDraining>>

CleanupRun(r) ==
    /\ r \in gActive \cup gTerm
    /\ gActive' = gActive \ {r}
    /\ gTerm' = gTerm \ {r}
    /\ gOrder' = Without(gOrder, r)
    /\ gKept' = gKept \ {r}
    /\ UNCHANGED <<gStatus, gLoops, gLast, gCreating, gRetry, gLate, gWait, gDraining>>

\* shutdown: live runs are failed in place; they are not retired.
Shutdown ==
    /\ ~gDraining
    /\ gDraining' = TRUE
    /\ gStatus' = [r \in GRuns |-> IF r \in gActive /\ gStatus[r] \notin Ended
                                   THEN "failed" ELSE gStatus[r]]
    /\ UNCHANGED <<gActive, gOrder, gTerm, gLoops, gLast, gCreating, gRetry, gLate, gKept, gWait>>

(*************************** waitForCompletion ****************************)

Answered(w, s) == [w EXCEPT !.pc = "done", !.ans = s, !.now = gLast[w.run]]

\* A run that has a completion is awaited; one that has not is answered at
\* once when it is ended or unknown, and polled for a while otherwise.
WaitStarts(r) ==
    /\ gWait.pc = "idle"
    /\ LET w == [NoWait EXCEPT !.run = r, !.loop = gLast[r]] IN
       gWait' = IF GetRun(r) = "none" THEN Answered(w, "none")
                ELSE IF gLast[r] > 0 THEN [w EXCEPT !.pc = "await"]
                ELSE IF GetRun(r) \in Ended THEN Answered(w, GetRun(r))
                ELSE [w EXCEPT !.pc = "poll"]
    /\ UNCHANGED <<gActive, gOrder, gTerm, gStatus, gLoops, gLast, gCreating, gRetry, gLate, gKept, gDraining>>

\* A poll sees the claim, or the time for polling is over.
WaitPolls ==
    /\ gWait.pc = "poll"
    /\ gWait' = IF gLast[gWait.run] > 0 /\ GetRun(gWait.run) # "none"
                THEN [gWait EXCEPT !.pc = "await", !.loop = gLast[gWait.run]]
                ELSE Answered(gWait, GetRun(gWait.run))
    /\ UNCHANGED <<gActive, gOrder, gTerm, gStatus, gLoops, gLast, gCreating, gRetry, gLate, gKept, gDraining>>

\* The awaited loop is over and the waiter runs, or its timeout comes first.
BugWaitEnds ==
    /\ gWait.pc = "await"
    /\ gWait' = Answered(gWait, GetRun(gWait.run))
    /\ UNCHANGED <<gActive, gOrder, gTerm, gStatus, gLoops, gLast, gCreating, gRetry, gLate, gKept, gDraining>>

WaitEnds ==
    /\ gWait.pc = "await"
    /\ \/ gWait.loop \notin gLoops[gWait.run] /\ gWait' = Answered(gWait, GetRun(gWait.run))
       \/ gWait' = Answered(gWait, "timeout")
    /\ UNCHANGED <<gActive, gOrder, gTerm, gStatus, gLoops, gLast, gCreating, gRetry, gLate, gKept, gDraining>>

RegistryNext ==
    \/ Shutdown \/ WaitPolls \/ WaitEnds
    \/ \E r \in GRuns :
          \/ CreateStarts(r) \/ CreateEnds(r) \/ StartRun(r) \/ EndRun(r) \/ LoopOver(r)
          \/ ContinueRun(r) \/ RetryStarts(r) \/ RetryRefused(r) \/ RetryResumes(r)
          \/ CleanupRun(r) \/ WaitStarts(r)

(******************************* properties *******************************)

\* However runs end, come back and push each other out of history: a run is
\* in one map at most, history is exactly the runs of its queue, each once and
\* never more than the limit, no run in history is unfinished and every run in
\* either map that ever ran keeps the checkpoints a retry needs.  The one
\* exception is a retry that resumes a run which moved on meanwhile (gLate).
RegistrySound ==
    /\ gActive \cap gTerm = {}
    /\ ToSet(gOrder) = gTerm /\ IsInjective(gOrder) /\ Len(gOrder) <= GKeep
    /\ \A r \in gTerm \ gLate : gStatus[r] \in Ended
    /\ \A r \in (gActive \cup gTerm) \ gLate : gLast[r] > 0 => r \in gKept

\* waitForCompletion answers with an ended state, with nothing only for a run
\* that left both maps, and with a state still moving only when the run was
\* started or continued after the wait began, or had not started at all (or
\* is one of gLate).
WaiterTold ==
    gWait.pc = "done" /\ gWait.ans \notin Ended \cup {"none", "timeout"} =>
        gWait.now > gWait.loop \/ gWait.loop = 0 \/ gWait.run \in gLate
=============================================================================
