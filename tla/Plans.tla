------------------------------- MODULE Plans -------------------------------
\* What the execution controller keeps beside a run: its plan of dependent
\* steps, its episodes, and the constraints a user's messages put on it
\* (plans-episodes.js).  Step ids are issued by the server, so a client can
\* only name steps it has been shown: those of the plan, or (0) of an older one.
EXTENDS Integers, Sequences, SequencesExt, FiniteSets

CONSTANTS QMaxSteps,     \* bound on the steps of the plan
          QMaxEpisodes,  \* bound on the episodes of the run
          QPaths,        \* paths a user or a write may name, as they are written
          QPlain,        \* those that are written as sandboxPath resolves them
          QInside,       \* pairs <<p, f>>: the text of p is f, or starts with f and a "/"
          QEnds,         \* pairs <<p, f>>: the text of p ends with f
          QBeneath,      \* pairs <<p, f>>: p resolves to what f does, or to a path under it
          QLimit,        \* longest list of paths kept (20 in the code)
          QMaxCommands   \* bound on the user's commands

ASSUME PlansAssumption == QLimit \in Nat \ {0} /\ QMaxSteps \in Nat

\* Between plain paths the texts tell where they lead; a plain path starts with
\* no other.
ASSUME PathsAssumption ==
    \A p \in QPlain, f \in QPaths :
       /\ f \in QPlain => (<<p, f>> \in QInside <=> <<p, f>> \in QBeneath)
       /\ <<p, f>> \in QInside => f \in QPlain

VARIABLES qSteps,      \* the plan's steps: [status, deps]
          qRewired,    \* history: updateStep replaced a step's dependencies
          qEpisodes,   \* episodes: [status, parent]
          qRun,        \* "created", "running", "completed", "failed", "cancelled"
          qForbid,     \* forbidPaths
          qOnly,       \* onlyPaths
          qAsked,      \* history: what the user forbade while there was room
          qScope,      \* history: what the user ever constrained writes to
          qGate,       \* write past the gate and not done: [how, path, asked, scope]
          qWrote,      \* history: the write done last
          qCommands
plansVars == <<qSteps, qRewired, qEpisodes, qRun, qForbid, qOnly, qAsked, qScope, qGate, qWrote,
               qCommands>>
planPart == <<qSteps, qRewired>>
episodePart == <<qEpisodes, qRun>>
constraintPart == <<qForbid, qOnly, qAsked, qScope, qGate, qWrote, qCommands>>

\* A write, and what the user had asked for when it passed its gate.
Write(how, p) == [how |-> how, path |-> p, asked |-> qAsked, scope |-> qScope]
NoWrite == [how |-> "none", path |-> "none", asked |-> {}, scope |-> {}]

PlansInit ==
    /\ qSteps = <<>> /\ qRewired = FALSE
    /\ qEpisodes = <<>> /\ qRun = "created"
    /\ qForbid = <<>> /\ qOnly = <<>> /\ qAsked = {} /\ qScope = {}
    /\ qGate = NoWrite /\ qWrote = NoWrite /\ qCommands = 0

(********************************** plans *********************************)

\* "OTHER" is any text that is none of them.
StepStatus == {"PENDING", "RUNNING", "BLOCKED", "COMPLETED", "FAILED", "SKIPPED", "OTHER"}
NewStep(deps) == [status |-> "PENDING", deps |-> deps]

\* create: the ids of the new steps are not known yet, so that a dependency
\* can only be one of an older plan, which no step of this one answers to.
CreatePlan ==
    \E n \in 1..QMaxSteps : \E old \in SUBSET (1..n) :
       /\ qSteps' = [i \in 1..n |-> NewStep(IF i \in old THEN {0} ELSE {})]
       /\ qRewired' = FALSE
       /\ UNCHANGED <<episodePart, constraintPart>>

\* adapt: updates are assigned whole, pending steps are skipped, new ones come
\* after all others (an update of a status is SetStatus).  One rewiring per plan
\* bounds the model.
AdaptPlan ==
    /\ qSteps # <<>>
    /\ \/ \E i \in DOMAIN qSteps, d \in SUBSET DOMAIN qSteps :
             ~qRewired /\ qSteps' = [qSteps EXCEPT ![i].deps = d] /\ qRewired' = TRUE
       \/ \E skip \in SUBSET {i \in DOMAIN qSteps : qSteps[i].status = "PENDING"} :
             /\ qSteps' = [i \in DOMAIN qSteps |->
                   IF i \in skip THEN [qSteps[i] EXCEPT !.status = "SKIPPED"] ELSE qSteps[i]]
             /\ UNCHANGED qRewired
       \/ /\ Len(qSteps) < QMaxSteps
          /\ \E d \in SUBSET (0..Len(qSteps)) : qSteps' = Append(qSteps, NewStep(d))
          /\ UNCHANGED qRewired
    /\ UNCHANGED <<episodePart, constraintPart>>

\* The client reports a step's progress, or adapt assigns it: any text, whatever
\* the step's status is and whether or not its dependencies are completed.
SetStatus ==
    /\ \E i \in DOMAIN qSteps, s \in StepStatus : qSteps' = [qSteps EXCEPT ![i].status = s]
    /\ UNCHANGED <<qRewired, episodePart, constraintPart>>

ReadySteps ==
    {i \in DOMAIN qSteps : qSteps[i].status = "PENDING" /\
       \A d \in qSteps[i].deps : d \in DOMAIN qSteps /\ qSteps[d].status = "COMPLETED"}

IsComplete == qSteps # <<>> /\ \A i \in DOMAIN qSteps : qSteps[i].status \in {"COMPLETED", "SKIPPED"}

(******************************** episodes ********************************)

Running == {i \in DOMAIN qEpisodes : qEpisodes[i].status = "RUNNING"}
NewEpisode == [status |-> "RUNNING", parent |-> Len(qEpisodes)]

\* The wrapped startRun opens the first episode; startRun itself may refuse
\* afterwards, which leaves the episode open.
FirstStart ==
    /\ qRun = "created" /\ Len(qEpisodes) < QMaxEpisodes
    /\ qEpisodes' = IF qEpisodes = <<>> THEN <<NewEpisode>> ELSE qEpisodes
    /\ qRun' \in {"running", "created"}
    /\ UNCHANGED <<planPart, constraintPart>>

RunEnds ==
    /\ qRun = "running"
    /\ qRun' \in {"completed", "failed", "cancelled"}
    /\ UNCHANGED <<planPart, qEpisodes, constraintPart>>

\* retryRun resumes the run with no episode of its own.
RunRetried ==
    /\ qRun = "failed" /\ qRun' = "running"
    /\ UNCHANGED <<planPart, qEpisodes, constraintPart>>

\* continueRun: the open episode is finished, a new one starts, and startRun
\* runs it or refuses.
BugContinueEpisode ==
    /\ qRun # "running" /\ Len(qEpisodes) < QMaxEpisodes
    /\ qEpisodes' = Append(qEpisodes, NewEpisode)
    /\ qRun' \in {"running", qRun}
    /\ UNCHANGED <<planPart, constraintPart>>

ContinueEpisode ==
    /\ qRun # "running" /\ Len(qEpisodes) < QMaxEpisodes
    /\ LET last == Len(qEpisodes)
           closed == IF last > 0 /\ qEpisodes[last].status = "RUNNING"
                     THEN [qEpisodes EXCEPT ![last].status =
                              IF qRun = "failed" THEN "FAILED" ELSE "COMPLETED"]
                     ELSE qEpisodes
       IN  qEpisodes' = Append(closed, NewEpisode)
    /\ qRun' \in {"running", qRun}
    /\ UNCHANGED <<planPart, constraintPart>>

(******************************* constraints ******************************)

\* The list with one more path, cut at the limit.
Kept(list, p) == IF p \in ToSet(list) \/ Len(list) >= QLimit THEN list ELSE Append(list, p)

ApplyCommand(kind, p) ==
    /\ qForbid' = IF kind = "forbid" THEN Kept(qForbid, p) ELSE qForbid
    /\ qOnly' = IF kind = "only" THEN Kept(qOnly, p) ELSE qOnly

\* A user's message that parses to a constraint.
UserCommand ==
    /\ qCommands < QMaxCommands
    /\ \E kind \in {"forbid", "only"}, p \in QPaths :
          /\ ApplyCommand(kind, p)
          /\ qAsked' = IF kind = "forbid" /\ Len(qForbid) < QLimit THEN qAsked \cup {p} ELSE qAsked
          /\ qScope' = IF kind = "only" THEN qScope \cup {p} ELSE qScope
    /\ qCommands' = qCommands + 1
    /\ UNCHANGED <<planPart, episodePart, qGate, qWrote>>

Under(p, f) == <<p, f>> \in QInside \cup QEnds
WithinScope(p, f) == Under(p, f) \/ <<f, p>> \in QEnds

CheckWrite(p) ==
    /\ ~\E i \in DOMAIN qForbid : Under(p, qForbid[i])
    /\ qOnly # <<>> => \E i \in DOMAIN qOnly : WithinScope(p, qOnly[i])

\* The gate of a tool's write, and the write some awaits later.
GateWrite ==
    /\ qGate = NoWrite
    /\ \E p \in QPaths : CheckWrite(p) /\ qGate' = Write("tool", p)
    /\ UNCHANGED <<planPart, episodePart, qForbid, qOnly, qAsked, qScope, qWrote, qCommands>>

WriteDone ==
    /\ qGate # NoWrite
    /\ qWrote' = qGate /\ qGate' = NoWrite
    /\ UNCHANGED <<planPart, episodePart, qForbid, qOnly, qAsked, qScope, qCommands>>

\* applyChangeset looks at the policy and the approval, at no constraint.
ChangesetWritten ==
    /\ \E p \in QPaths : qWrote' = Write("changeset", p)
    /\ UNCHANGED <<planPart, episodePart, qForbid, qOnly, qAsked, qScope, qGate, qCommands>>

\* The three records share nothing but the run they belong to.
PlanNext == CreatePlan \/ AdaptPlan \/ SetStatus
EpisodeNext == FirstStart \/ RunEnds \/ RunRetried \/ ContinueEpisode
ConstraintNext == UserCommand \/ GateWrite \/ WriteDone \/ ChangesetWritten

(******************************* properties *******************************)

\* A plan never stops by itself: while its dependencies were not rewired, an
\* incomplete plan has a ready step, or a step that is running, failed,
\* blocked or of a status of the client's own, or one whose dependency was
\* skipped or is not in the plan.
PlanMoves ==
    ~qRewired /\ qSteps # <<>> /\ ~IsComplete =>
        \/ ReadySteps # {}
        \/ \E i \in DOMAIN qSteps : qSteps[i].status \in {"RUNNING", "FAILED", "BLOCKED", "OTHER"}
        \/ \E i \in DOMAIN qSteps : \E d \in qSteps[i].deps :
              d = 0 \/ qSteps[d].status = "SKIPPED"

\* However often a run ends, is retried, continued or refused: its episodes
\* form one chain and only the last of them is open.
EpisodesSound ==
    \A i \in DOMAIN qEpisodes : qEpisodes[i].parent = i - 1 /\ (i \in Running => i = Len(qEpisodes))

\* A user's word stands: no write of a tool to a plainly written path, past its
\* gate after a path was forbidden (while the list had room), goes to that path
\* or under it, whatever commands follow; and none leaves the paths the user
\* ever limited the run to, but for those one of whose texts ends with the
\* other.  The gate compares texts and the write resolves them, so that the two
\* agree on plain paths only; and what the API applies as a changeset passes no
\* such gate.
UserInCharge ==
    qWrote.how = "tool" /\ qWrote.path \in QPlain =>
       /\ \A f \in qWrote.asked \cap QPlain : <<qWrote.path, f>> \notin QBeneath
       /\ qWrote.scope # {} =>
             \E f \in qWrote.scope :
                <<qWrote.path, f>> \in QBeneath \cup QEnds \/ <<f, qWrote.path>> \in QEnds
=============================================================================
