------------------------------ MODULE GitLayer ------------------------------
(***************************************************************************)
(* The git requests of a run (ExecutionController.git, and the git layer   *)
(* at the end of backend/src/execution/changesets.js): branch, add and     *)
(* commit pass the gate, which uses up one approval of exactly these       *)
(* parameters, and then run git commands one after the other, while the    *)
(* user and other requests work on the same index.                         *)
(***************************************************************************)
EXTENDS Naturals, FiniteSets

CONSTANTS
    GReq,       \* requests in flight
    GFiles,     \* files of the repository
    GSpecs,     \* pathspecs that pass: a file, but also "./", "*", ":/" or a directory
    GCover,     \* the files that git takes each of them for
    GRefused,   \* "." and flags, and paths that leave the workspace, also by a symlink
    GOps,       \* the operations asked for
    GMaxGrants, \* bound: approvals given, one per operation
    GMaxUser    \* bound: steps of the user in the repository

\* What a request asks for: the parameters an approval is bound to.
GitOp == [kind: {"add"}, paths: {P \in SUBSET (GSpecs \cup GRefused) : P # {}}, unrelated: {FALSE}]
         \cup [kind: {"commit"}, paths: {{}}, unrelated: BOOLEAN]
         \cup [kind: {"branch"}, paths: {{}}, unrelated: {FALSE}]

ASSUME GOpsAssumption == GOps \subseteq GitOp
ASSUME GCoverAssumption == GCover \in [GSpecs -> SUBSET GFiles]

VARIABLES
    gIndex,     \* paths staged in the repository
    gMine,      \* paths of the run's changesets, whatever became of these
    gAsked,     \* approvals requested and not decided
    gGranted,   \* approvals given and not used
    gRequest,   \* where each request is
    gUser,      \* steps taken by the user
    gTheirs,    \* history: what the user staged
    gGrants,    \* history: the operations approved
    gCommits,   \* history: the commits of the run
    gWrites     \* history: the writes of the run to the repository, each operation's numbered

gitVars == <<gIndex, gMine, gAsked, gGranted, gRequest, gUser, gTheirs, gGrants, gCommits, gWrites>>

NoOp == [kind |-> "none", paths |-> {}, unrelated |-> FALSE]
IdleGit == [at |-> "idle", op |-> NoOp, limited |-> FALSE, allowed |-> {}, late |-> {}]

GitInit ==
    /\ gIndex = {} /\ gMine = {} /\ gAsked = {} /\ gGranted = {} /\ gUser = 0 /\ gTheirs = {}
    /\ gRequest = [q \in GReq |-> IdleGit]
    /\ gGrants = {} /\ gCommits = {} /\ gWrites = {}

\* The request is answered: with its outcome, which no state of the run keeps.
GitAnswer(q) == gRequest' = [gRequest EXCEPT ![q] = IdleGit]

\* _agentPaths: null, which is no limit, when the run has no changeset, and
\* when the caller allows unrelated files.
Limits(op) == op.kind = "commit" /\ ~op.unrelated /\ gMine # {}

\* _preGate: a matching approval is used up, or one is requested, one at a time.
GitRequest(q, op) ==
    /\ gRequest[q].at = "idle"
    /\ \/ /\ op \in gGranted
          /\ gGranted' = gGranted \ {op}
          /\ gRequest' = [gRequest EXCEPT ![q] =
                [IdleGit EXCEPT !.at = op.kind, !.op = op, !.limited = Limits(op), !.allowed = gMine]]
          /\ UNCHANGED gAsked
       \/ /\ op \notin gGranted /\ op \notin gGrants /\ gAsked = {}
          /\ gAsked' = {op}
          /\ UNCHANGED <<gGranted, gRequest>>
    /\ UNCHANGED <<gIndex, gMine, gUser, gTheirs, gGrants, gCommits, gWrites>>

\* Answers of the user to the requests for approval.
DecideGit(op) ==
    /\ op \in gAsked
    /\ gAsked' = gAsked \ {op}
    /\ \/ /\ Cardinality(gGrants) < GMaxGrants
          /\ gGranted' = gGranted \cup {op} /\ gGrants' = gGrants \cup {op}
       \/ UNCHANGED <<gGranted, gGrants>>
    /\ UNCHANGED <<gIndex, gMine, gRequest, gUser, gTheirs, gCommits, gWrites>>

\* Proposing a changeset names its paths at once (listForRun).
NameFile(p) ==
    /\ p \notin gMine /\ gMine' = gMine \cup {p}
    /\ UNCHANGED <<gIndex, gAsked, gGranted, gRequest, gUser, gTheirs, gGrants, gCommits, gWrites>>

GitWrites(op) == gWrites' = gWrites \cup {<<op, Cardinality({w \in gWrites : w[1] = op}) + 1>>}

\* Every path that other requests see staged while they are between the look
\* at the index and the commit.
Staging(P) == [x \in GReq |-> IF gRequest[x].at = "committing"
                              THEN [gRequest[x] EXCEPT !.late = @ \cup P] ELSE gRequest[x]]

\* What an add may stage: the files its pathspecs cover.
Covered(op) == UNION {GCover[x] : x \in op.paths}

\* gitAdd: each path is checked, by name and by sandboxPath, before any is
\* staged; git then reads it as a pathspec and stages those of the files it
\* covers that have changed, or, when it fails, none, and a command that is
\* killed may have done its work.
GitAdd(q) ==
    LET op == gRequest[q].op
    IN  /\ gRequest[q].at = "add"
        /\ \/ GitAnswer(q) /\ UNCHANGED <<gIndex, gWrites>>     \* refused, or git fails
           \/ /\ op.paths \cap GRefused = {}
              /\ \E S \in SUBSET Covered(op) :
                    gIndex' = gIndex \cup S /\ gRequest' = [Staging(S) EXCEPT ![q] = IdleGit]
              /\ GitWrites(op)
        /\ UNCHANGED <<gMine, gAsked, gGranted, gUser, gTheirs, gGrants, gCommits>>

\* Seeded fault: one file of the run is enough.
BugInCommitScope(r, S) == r.limited => S \cap r.allowed # {}

\* gitCommit: no staged path outside the run's own, when there is a limit.
InCommitScope(r, S) == r.limited => S \subseteq r.allowed

\* gitCommit, first command: what is staged.
CommitLooks(q) ==
    /\ gRequest[q].at = "commit"
    /\ \/ GitAnswer(q)         \* nothing is staged, out of scope, or git fails
       \/ /\ gIndex # {} /\ InCommitScope(gRequest[q], gIndex)
          /\ gRequest' = [gRequest EXCEPT ![q].at = "committing", ![q].late = {}]
    /\ UNCHANGED <<gIndex, gMine, gAsked, gGranted, gUser, gTheirs, gGrants, gCommits, gWrites>>

\* gitCommit, second command: what is staged now.  It fails when nothing is, and
\* the look at the new head may fail after it.
CommitDone(q) ==
    LET r == gRequest[q]
    IN  /\ r.at = "committing"
        /\ \/ GitAnswer(q) /\ UNCHANGED <<gIndex, gCommits, gWrites>>
           \/ /\ gIndex # {}
              /\ gCommits' = gCommits \cup
                   {[files |-> gIndex, late |-> r.late, limited |-> r.limited, allowed |-> r.allowed]}
              /\ gIndex' = {} /\ GitWrites(r.op) /\ GitAnswer(q)
        /\ UNCHANGED <<gMine, gAsked, gGranted, gUser, gTheirs, gGrants>>

\* gitCreateBranch: a bad name is refused; the index stays.
GitBranch(q) ==
    /\ gRequest[q].at = "branch"
    /\ GitAnswer(q)
    /\ UNCHANGED gWrites \/ GitWrites(gRequest[q].op)
    /\ UNCHANGED <<gIndex, gMine, gAsked, gGranted, gUser, gTheirs, gGrants, gCommits>>

\* The user stages and unstages files of their own.
UserStages(p) ==
    /\ gUser < GMaxUser /\ gUser' = gUser + 1
    /\ \/ /\ p \notin gIndex /\ gIndex' = gIndex \cup {p}
          /\ gRequest' = Staging({p}) /\ gTheirs' = gTheirs \cup {p}
       \/ /\ p \in gIndex /\ gIndex' = gIndex \ {p}
          /\ UNCHANGED <<gRequest, gTheirs>>
    /\ UNCHANGED <<gMine, gAsked, gGranted, gGrants, gCommits, gWrites>>

GitNext ==
    \/ \E q \in GReq, op \in GOps : GitRequest(q, op)
    \/ \E op \in GOps : DecideGit(op)
    \/ \E p \in GFiles : NameFile(p) \/ UserStages(p)
    \/ \E q \in GReq : GitAdd(q) \/ CommitLooks(q) \/ CommitDone(q) \/ GitBranch(q)

\* "refuses to include unrelated user changes unless the approval explicitly
\* allowed it" (changesets.js), as far as it goes: a commit of a run that has
\* changesets, asked for without unrelated files, holds the run's own files
\* and those staged between the look at the index and the commit.  Each write
\* of the run to the repository had an approval of its own, of exactly its
\* parameters.  What is staged the user staged, or a pathspec of an approved add
\* covers it, one that names no flag and not ".": but "./", "*" and ":/" pass,
\* and cover more than "explicit files".
GitSound ==
    /\ \A c \in gCommits : c.limited => c.files \subseteq c.allowed \cup c.late
    /\ gWrites \subseteq gGrants \X {1}
    /\ \A p \in gIndex \ gTheirs : \E op \in gGrants :
          op.kind = "add" /\ op.paths \cap GRefused = {} /\ p \in Covered(op)
=============================================================================
