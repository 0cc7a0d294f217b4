----------------------------- MODULE Changesets -----------------------------
(***************************************************************************)
(* Changesets (ChangesetStore in backend/src/execution/changesets.js and   *)
(* the changeset requests of controller.js) behind the approval store.     *)
(*                                                                         *)
(* A changeset edits several files of the workspace.  It is proposed from  *)
(* what the files hold, applied file by file, restored when a file fails,  *)
(* and rolled back on request.  Every file operation is awaited, no lock   *)
(* is held, and the user, other requests and a restart of the process come *)
(* between any two of them.  A content is a version the user wrote and the *)
(* changesets applied on top of it; version 0 is a missing file.           *)
(***************************************************************************)
EXTENDS Approvals

CONSTANTS
    Cs,            \* changesets, each proposed at most once
    FilesOf,       \* the files of a changeset, in order
    File,
    Caller,        \* requests in flight at the same time
    ActionOf,      \* the approval binding of a changeset
    Gated,         \* changesets whose policy asks for an approval
    MaxVersion,    \* bound: distinct texts a user writes
    MaxEdits,      \* bound: edits by the user
    MaxCrashes     \* bound: restarts of the process

ASSUME ChangesetsAssumption ==
    /\ FilesOf \in [Cs -> Seq(File) \ {<<>>}]
    /\ ActionOf \in [Cs -> Action] /\ Gated \subseteq Cs
    /\ Cs # {} /\ Id # {}
    /\ MaxVersion \in Nat \ {0} /\ MaxEdits \in Nat /\ MaxCrashes \in Nat

VARIABLES
    disk,          \* the content of every file
    cset,          \* this.changesets
    call,          \* what each request in flight is waiting for
    edits, crashes,
    passes,        \* history: the approvals of the passes of apply over a gated changeset
    applied,       \* history: passes that reported success
    spoiled        \* history: a write hit a content its request had not seen
                   \* there, or a file could not be restored

csVars == <<disk, cset, call, edits, crashes, passes, applied, spoiled>>
vars == <<apprVars, csVars>>

Content == [text: 0..MaxVersion, changes: Seq(Cs)]
Missing == [text |-> 0, changes |-> <<>>]

\* The edits of a changeset, made in a content.
Edited(x, c) == [x EXCEPT !.changes = Append(@, c)]

ChangesetStatus ==
    {"PROPOSED", "DRY_RUN", "PENDING_APPROVAL", "APPROVED", "APPLYING",
     "APPLIED", "FAILED", "ROLLED_BACK", "CONFLICT"}

\* A record keeps the image of every file before the edits; exact says that
\* undoing the edits of the after-image gives that image back.
Changeset == [status: ChangesetStatus \cup {"NONE", "LOST"}, before: Seq(Content), exact: BOOLEAN]

NoChangeset == [status |-> "NONE", before |-> <<>>, exact |-> TRUE]

\* n is the file at hand, upto the number of backups, seen the files a
\* proposal has read, blocked the conflicts of a rollback, id the approval given.
Call == [at: {"idle", "proposing", "gitStatus", "reading", "writing", "verifying",
              "restoring", "unreading", "unwriting"},
         cs: Cs, id: Id, n: Nat, upto: Nat, seen: Seq(Content), blocked: BOOLEAN]

NoCall == [at |-> "idle", cs |-> CHOOSE c \in Cs : TRUE, id |-> CHOOSE i \in Id : TRUE,
           n |-> 1, upto |-> 0, seen |-> <<>>, blocked |-> FALSE]

Idle(k) == call[k].at = "idle"
TheFile(k) == FilesOf[call[k].cs][call[k].n]
Before(k) == cset[call[k].cs].before[call[k].n]
After(k) == Edited(Before(k), call[k].cs)
Last(k) == call[k].n = Len(FilesOf[call[k].cs])

Init ==
    /\ ApprInit
    /\ disk = [f \in File |-> [text |-> 1, changes |-> <<>>]]
    /\ cset = [c \in Cs |-> NoChangeset]
    /\ call = [k \in Caller |-> NoCall]
    /\ edits = 0 /\ crashes = 0 /\ spoiled = FALSE
    /\ passes = [c \in Cs |-> <<>>] /\ applied = [c \in Cs |-> 0]

-----------------------------------------------------------------------------
(* Where a request goes next.                                              *)

Goto(k, at) == call' = [call EXCEPT ![k].at = at]
Return(k) == call' = [call EXCEPT ![k] = NoCall]
NextFile(k, at) == call' = [call EXCEPT ![k] = [@ EXCEPT !.at = at, !.n = call[k].n + 1]]
Begin(k, c, at) == call' = [call EXCEPT ![k] = [NoCall EXCEPT !.at = at, !.cs = c]]
BeginWith(k, c, i) ==
    call' = [call EXCEPT ![k] = [NoCall EXCEPT !.at = "gitStatus", !.cs = c, !.id = i]]

\* Fail: restore the files backed up so far.
RestoreUpto(k, m) ==
    call' = [call EXCEPT ![k] = [@ EXCEPT !.at = "restoring", !.n = 1, !.upto = m]]

SetStatus(k, status) == cset' = [cset EXCEPT ![call[k].cs].status = status]

\* Write through a temporary file and a rename: all of the text or none.
Put(k, x, seen) ==
    /\ disk' = [disk EXCEPT ![TheFile(k)] = x]
    /\ spoiled' = (spoiled \/ disk[TheFile(k)] \notin seen)

Quiet == UNCHANGED <<apprVars, edits, crashes>>
Uncounted == Quiet /\ UNCHANGED <<passes, applied>>
NoWrite == UNCHANGED <<disk, spoiled>>

-----------------------------------------------------------------------------
(* propose: read every file, try the edits on it, record the plan.         *)

Propose(k, c) ==
    /\ Idle(k) /\ cset[c].status = "NONE"
    /\ \A j \in Caller : Idle(j) \/ call[j].cs # c
    /\ Begin(k, c, "proposing")
    /\ Uncounted /\ NoWrite /\ UNCHANGED cset

ProposeRead(k) ==
    /\ call[k].at = "proposing"
    /\ \/ /\ disk[TheFile(k)] # Missing /\ ~Last(k)
          /\ call' = [call EXCEPT ![k] = [@ EXCEPT !.n = call[k].n + 1,
                                                  !.seen = Append(call[k].seen, disk[TheFile(k)])]]
          /\ UNCHANGED cset
       \/ /\ disk[TheFile(k)] # Missing /\ Last(k)
          /\ \E exact \in BOOLEAN :
               cset' = [cset EXCEPT ![call[k].cs] =
                           [status |-> "PROPOSED", exact |-> exact,
                            before |-> Append(call[k].seen, disk[TheFile(k)])]]
          /\ Return(k)
       \/ Return(k) /\ UNCHANGED cset      \* missing, or the edits do not fit
    /\ Uncounted /\ NoWrite

-----------------------------------------------------------------------------
(* applyChangeset: the approval gate, git status, then the store's apply.  *)

\* Without an approval: ask for one and return.
AskApproval(c) ==
    /\ c \in Gated /\ cset[c].status \notin {"NONE", "LOST"}
    /\ \E i \in Id : Request(appr, i, ActionOf[c])
    /\ UNCHANGED csVars

\* Seeded fault: the approval is looked at but not used up.
BugApplyPeeks(k, c) ==
    /\ Idle(k) /\ cset[c].status \notin {"NONE", "LOST"}
    /\ \/ c \in Gated /\ \E i \in DOMAIN appr :
              Usable(i, ActionOf[c]) /\ UNCHANGED apprVars /\ BeginWith(k, c, i)
       \/ c \notin Gated /\ UNCHANGED apprVars /\ Begin(k, c, "gitStatus")
    /\ UNCHANGED <<cset, disk, spoiled, edits, crashes, passes, applied>>

\* With one: it is used up before anything else is known of the changeset.
Apply(k, c) ==
    /\ Idle(k) /\ cset[c].status \notin {"NONE", "LOST"}
    /\ \/ c \in Gated /\ \E i \in Id : Consume(i, ActionOf[c]) /\ BeginWith(k, c, i)
       \/ c \notin Gated /\ UNCHANGED apprVars /\ Begin(k, c, "gitStatus")
    /\ UNCHANGED <<cset, disk, spoiled, edits, crashes, passes, applied>>

\* Seeded fault: only a changeset being applied is refused.
BugMayApply(status) == status # "APPLYING"

MayApply(status) == status \in {"PROPOSED", "DRY_RUN", "APPROVED", "FAILED"}

ApplyStart(k) ==
    /\ call[k].at = "gitStatus"
    /\ IF MayApply(cset[call[k].cs].status)
       THEN /\ SetStatus(k, "APPLYING") /\ Goto(k, "reading")
            /\ passes' = IF call[k].cs \in Gated
                         THEN [passes EXCEPT ![call[k].cs] = Append(@, call[k].id)] ELSE passes
       ELSE Return(k) /\ UNCHANGED <<cset, passes>>
    /\ Quiet /\ NoWrite /\ UNCHANGED applied

\* A file the user has changed ends the pass as a conflict.
ApplyRead(k) ==
    /\ call[k].at = "reading"
    /\ \/ disk[TheFile(k)] = Before(k) /\ Goto(k, "writing") /\ UNCHANGED cset
       \/ /\ disk[TheFile(k)] \notin {Before(k), Missing}
          /\ SetStatus(k, "CONFLICT") /\ RestoreUpto(k, call[k].n - 1)
       \/ RestoreUpto(k, call[k].n - 1) /\ UNCHANGED cset      \* missing or unreadable
    /\ Uncounted /\ NoWrite

\* Seeded fault: a failed write leaves out the backups of the files before it.
BugNoRestore(k) ==
    /\ call[k].at = "writing"
    /\ \/ Put(k, After(k), {Before(k)}) /\ Goto(k, "verifying")
       \/ RestoreUpto(k, 0) /\ NoWrite
    /\ Uncounted /\ UNCHANGED cset

ApplyWrite(k) ==
    /\ call[k].at = "writing"
    /\ \/ Put(k, After(k), {Before(k)}) /\ Goto(k, "verifying")
       \/ RestoreUpto(k, call[k].n) /\ NoWrite
    /\ Uncounted /\ UNCHANGED cset

\* Seeded fault: the pass does not stop at the last file.
BugNeverLast(k) ==
    /\ call[k].at = "verifying"
    /\ \/ /\ disk[TheFile(k)] = After(k)
          /\ NextFile(k, "reading") /\ UNCHANGED <<cset, applied>>
       \/ RestoreUpto(k, call[k].n) /\ UNCHANGED <<cset, applied>>
    /\ Quiet /\ NoWrite /\ UNCHANGED passes

ApplyVerify(k) ==
    /\ call[k].at = "verifying"
    /\ \/ /\ disk[TheFile(k)] = After(k) /\ ~Last(k)
          /\ NextFile(k, "reading") /\ UNCHANGED <<cset, applied>>
       \/ /\ disk[TheFile(k)] = After(k) /\ Last(k)
          /\ SetStatus(k, "APPLIED") /\ Return(k)
          /\ applied' = [applied EXCEPT ![call[k].cs] = @ + 1]
       \/ RestoreUpto(k, call[k].n) /\ UNCHANGED <<cset, applied>>
    /\ Quiet /\ NoWrite /\ UNCHANGED passes

\* _restore is best effort; the status is set once all files are done.
Restore(k) ==
    /\ call[k].at = "restoring" /\ call[k].n <= call[k].upto
    /\ \/ Put(k, Before(k), {Before(k), After(k)})
       \/ spoiled' = TRUE /\ UNCHANGED disk
    /\ NextFile(k, "restoring")
    /\ Uncounted /\ UNCHANGED cset

RestoreDone(k) ==
    /\ call[k].at = "restoring" /\ call[k].n > call[k].upto
    /\ IF cset[call[k].cs].status = "CONFLICT" THEN UNCHANGED cset ELSE SetStatus(k, "FAILED")
    /\ Return(k)
    /\ Uncounted /\ NoWrite

-----------------------------------------------------------------------------
(* rollback: file by file, without a status of its own.                    *)

Rollback(k, c) ==
    /\ Idle(k) /\ cset[c].status = "APPLIED"
    /\ Begin(k, c, "unreading")
    /\ Uncounted /\ NoWrite /\ UNCHANGED cset

\* The end of one file of a rollback: the next file, or the outcome.
Unrolled(k, blocked) ==
    \/ /\ ~Last(k) /\ UNCHANGED cset
       /\ call' = [call EXCEPT ![k] = [@ EXCEPT !.at = "unreading", !.n = call[k].n + 1,
                                                !.blocked = blocked]]
    \/ /\ Last(k) /\ Return(k)
       /\ IF blocked THEN UNCHANGED cset ELSE SetStatus(k, "ROLLED_BACK")

RollbackRead(k) ==
    /\ call[k].at = "unreading"
    /\ \/ disk[TheFile(k)] \notin {Before(k), After(k)} /\ Unrolled(k, TRUE)
       \/ disk[TheFile(k)] = Before(k) /\ Unrolled(k, call[k].blocked)
       \/ disk[TheFile(k)] = After(k) /\ cset[call[k].cs].exact
            /\ Goto(k, "unwriting") /\ UNCHANGED cset
       \/ Unrolled(k, TRUE)                                    \* unreadable
       \/ Return(k) /\ UNCHANGED cset    \* path refused, or the edits do not undo
    /\ Uncounted /\ NoWrite

RollbackWrite(k) ==
    /\ call[k].at = "unwriting"
    /\ \/ Put(k, Before(k), {After(k)}) /\ Unrolled(k, call[k].blocked)
       \/ Return(k) /\ NoWrite /\ UNCHANGED cset
    /\ Uncounted

-----------------------------------------------------------------------------
(* The user writes or removes a file; the process restarts.                *)

UserEdit(f, v) ==
    /\ edits < MaxEdits /\ disk[f] # [text |-> v, changes |-> <<>>]
    /\ disk' = [disk EXCEPT ![f] = [text |-> v, changes |-> <<>>]]
    /\ edits' = edits + 1
    /\ UNCHANGED <<apprVars, cset, call, crashes, passes, applied, spoiled>>

Crash ==
    /\ crashes < MaxCrashes /\ crashes' = crashes + 1
    /\ Forget
    /\ cset' = [c \in Cs |-> IF cset[c].status = "NONE" THEN cset[c]
                              ELSE [NoChangeset EXCEPT !.status = "LOST"]]
    /\ call' = [k \in Caller |-> NoCall]
    /\ UNCHANGED <<disk, edits, passes, applied, spoiled>>

CallStep(k) ==
    \/ ProposeRead(k)
    \/ ApplyStart(k) \/ ApplyRead(k) \/ ApplyWrite(k) \/ ApplyVerify(k)
    \/ Restore(k) \/ RestoreDone(k)
    \/ RollbackRead(k) \/ RollbackWrite(k)

Next ==
    \/ \E k \in Caller, c \in Cs : Propose(k, c) \/ Apply(k, c) \/ Rollback(k, c)
    \/ \E k \in Caller : CallStep(k)
    \/ \E c \in Cs : AskApproval(c)
    \/ \E f \in File, v \in 0..MaxVersion : UserEdit(f, v)
    \/ ApprStep /\ UNCHANGED csVars
    \/ Crash

Spec == Init /\ [][Next]_vars

-----------------------------------------------------------------------------
CsTypeOK ==
    /\ disk \in [File -> Content]
    /\ cset \in [Cs -> Changeset]
    /\ \A c \in Cs : cset[c].status \notin {"NONE", "LOST"} =>
                        Len(cset[c].before) = Len(FilesOf[c])
    /\ call \in [Caller -> Call]
    /\ \A k \in Caller :
         /\ call[k].n \in 1..(Len(FilesOf[call[k].cs]) + 1)
         /\ call[k].at # "restoring" => call[k].n <= Len(FilesOf[call[k].cs])
         /\ call[k].upto <= Len(FilesOf[call[k].cs])
    /\ edits \in 0..MaxEdits /\ crashes \in 0..MaxCrashes /\ spoiled \in BOOLEAN
    /\ passes \in [Cs -> Seq(Id)] /\ applied \in [Cs -> Nat]

\* Every variable keeps its type; a request never walks past the files of its
\* changeset.
TypeOK == ApprTypeOK /\ CsTypeOK

\* "never pre-consume here (that would double-consume ...)" (controller.js
\* 436-437): whatever requests overlap, expire, fail, are repeated or lost in a
\* restart, each pass of apply over a gated changeset was paid for by an
\* approval of its own that a user gave to this changeset.
EveryPassApproved ==
    \A c \in Gated : \A n \in 1..Len(passes[c]) :
        /\ <<passes[c][n], ActionOf[c]>> \in granted
        /\ \A m \in 1..(n - 1) : passes[c][m] # passes[c][n]

\* Overlapping, repeated and failing requests apply a changeset at most once:
\* one that was applied or rolled back is never applied again, while one that
\* failed may be (the statuses apply accepts, changesets.js 169-171).
AppliedOnce == \A c \in Cs : applied[c] <= 1

\* "already-written files are restored from in-memory backups so the changeset
\* is all-or-nothing" (changesets.js 162-165): when no request is busy with it,
\* a changeset that failed, met a conflict or was rolled back is in no file.
\* This holds for all interleavings of requests, user edits and failing file
\* operations, as long as no write hit a content its request had not seen and
\* every restore succeeded: the code tests the content when it reads a file,
\* not when it renames the new one over it.
AllOrNothing ==
    ~spoiled =>
        \A c \in Cs :
            (/\ cset[c].status \in {"FAILED", "CONFLICT", "ROLLED_BACK"}
             /\ \A k \in Caller : Idle(k) \/ call[k].cs # c)
            => \A n \in 1..Len(FilesOf[c]) :
                   \A m \in 1..Len(disk[FilesOf[c][n]].changes) :
                       disk[FilesOf[c][n]].changes[m] # c
=============================================================================
