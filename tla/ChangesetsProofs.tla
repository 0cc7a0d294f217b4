-------------------------- MODULE ChangesetsProofs --------------------------
(***************************************************************************)
(* Approvals are single-use, every pass of apply has an approval of its    *)
(* own, a changeset is applied at most once, and one that failed or was    *)
(* rolled back is in no file: for any number of approvals, changesets,     *)
(* files, requests in flight, edits and restarts.                          *)
(***************************************************************************)
EXTENDS Changesets, ApprovalsProofs

-----------------------------------------------------------------------------
(* The requests: where each of them is, for any interleaving.              *)

AtFile == {"gitStatus", "reading", "writing", "verifying", "restoring", "unreading", "unwriting"}

\* A request that is past the gate has a changeset, with one image per file.
CallInv ==
    /\ CsTypeOK
    /\ \A k \in Caller :
         /\ call[k].at = "proposing" => Len(call[k].seen) = call[k].n - 1
         /\ call[k].at \in AtFile => cset[call[k].cs].status \notin {"NONE", "LOST"}

\* The record of an idle caller.
LEMMA NoCallTyped ==
    /\ NoCall \in Call /\ NoCall.at = "idle" /\ NoCall.n = 1 /\ NoCall.upto = 0
    /\ NoCall.seen = <<>> /\ NoCall.cs \in Cs /\ NoCall.id \in Id
<1> DEFINE c0 == CHOOSE c \in Cs : TRUE
           i0 == CHOOSE i \in Id : TRUE
<1>1. c0 \in Cs /\ i0 \in Id
  BY ChangesetsAssumption
<1>2. NoCall = [at |-> "idle", cs |-> c0, id |-> i0, n |-> 1, upto |-> 0,
                seen |-> <<>>, blocked |-> FALSE]
  BY DEF NoCall
<1> HIDE DEF c0, i0
<1>3. NoCall \in Call
  BY <1>1, <1>2 DEF Call
<1> QED BY <1>1, <1>2, <1>3

\* A changeset names at least one file.
LEMMA FilesLength ==
    ASSUME NEW c \in Cs
    PROVE  Len(FilesOf[c]) \in Nat /\ Len(FilesOf[c]) >= 1
           /\ \A n \in 1..Len(FilesOf[c]) : FilesOf[c][n] \in File
<1>1. FilesOf[c] \in Seq(File) /\ FilesOf[c] # <<>>
  BY ChangesetsAssumption
<1> QED BY <1>1

\* An edit of a file content is a file content.
LEMMA EditedContent == ASSUME NEW x \in Content, NEW c \in Cs PROVE Edited(x, c) \in Content
  BY DEF Edited, Content

\* The file at hand and its image exist.
LEMMA AtHand ==
    ASSUME CallInv, NEW k \in Caller, call[k].at \in AtFile,
           call[k].n <= Len(FilesOf[call[k].cs])
    PROVE  TheFile(k) \in File /\ Before(k) \in Content /\ After(k) \in Content
<1>1. call[k] \in Call /\ call[k].cs \in Cs /\ call[k].n \in 1..Len(FilesOf[call[k].cs])
  BY FilesLength DEF CallInv, CsTypeOK, Call
<1>2. TheFile(k) \in File
  BY <1>1, FilesLength DEF TheFile
<1>3. /\ cset[call[k].cs].before \in Seq(Content)
      /\ Len(cset[call[k].cs].before) = Len(FilesOf[call[k].cs])
  BY <1>1 DEF CallInv, CsTypeOK, Changeset
<1>4. Before(k) \in Content
  BY <1>1, <1>3 DEF Before
<1> QED BY <1>1, <1>2, <1>4, EditedContent DEF After

\* What CallInv asks of one request.
CallOK(r) ==
    /\ r \in Call
    /\ r.n \in 1..(Len(FilesOf[r.cs]) + 1)
    /\ r.at # "restoring" => r.n <= Len(FilesOf[r.cs])
    /\ r.upto <= Len(FilesOf[r.cs])
    /\ r.at = "proposing" => Len(r.seen) = r.n - 1

\* What the invariant says of one call.
LEMMA CallInvCalls ==
    ASSUME CallInv, NEW k \in Caller
    PROVE  CallOK(call[k]) /\ call[k].cs \in Cs /\ call[k].id \in Id
  BY DEF CallInv, CsTypeOK, CallOK, Call

\* An idle caller satisfies it.
LEMMA NoCallOK == CallOK(NoCall)
  BY NoCallTyped, FilesLength DEF CallOK

\* One request moves on: the others keep their place.
LEMMA CallInvFrom ==
    ASSUME CallInv, NEW k \in Caller, NEW r, CallOK(r),
           call' = [call EXCEPT ![k] = r],
           disk' \in [File -> Content], cset' \in [Cs -> Changeset],
           \A c \in Cs : cset'[c].status \notin {"NONE", "LOST"} =>
                             Len(cset'[c].before) = Len(FilesOf[c]),
           \A c \in Cs : cset[c].status \notin {"NONE", "LOST"} =>
                             cset'[c].status \notin {"NONE", "LOST"},
           r.at \in AtFile => cset'[r.cs].status \notin {"NONE", "LOST"},
           edits' = edits, crashes' = crashes, spoiled' \in BOOLEAN,
           passes' \in [Cs -> Seq(Id)], applied' \in [Cs -> Nat]
    PROVE  CallInv'
<1>1. call'[k] = r /\ \A j \in Caller : j # k => call'[j] = call[j]
  BY DEF CallInv, CsTypeOK
<1>2. call' \in [Caller -> Call]
  BY DEF CallInv, CsTypeOK, CallOK
<1>3. ASSUME NEW j \in Caller
      PROVE CallOK(call'[j]) /\ (call'[j].at \in AtFile => cset'[call'[j].cs].status \notin {"NONE", "LOST"})
  <2>1. CASE j = k
    BY <1>1, <2>1
  <2>2. CASE j # k
    <3>1. call[j].at \in AtFile => cset[call[j].cs].status \notin {"NONE", "LOST"}
      BY DEF CallInv
    <3> QED BY <1>1, <2>2, <3>1, CallInvCalls
  <2> QED BY <2>1, <2>2
<1>4. edits' \in 0..MaxEdits /\ crashes' \in 0..MaxCrashes
  BY DEF CallInv, CsTypeOK
<1> QED BY <1>2, <1>3, <1>4 DEF CallInv, CsTypeOK, CallOK

\* A status change of one changeset leaves the others alone.
LEMMA CsetStatusTyped ==
    ASSUME CallInv, NEW c \in Cs, NEW st \in ChangesetStatus,
           cset' = [cset EXCEPT ![c].status = st], cset[c].status \notin {"NONE", "LOST"}
    PROVE  /\ cset' \in [Cs -> Changeset]
           /\ cset'[c].status = st
           /\ \A d \in Cs : d # c => cset'[d] = cset[d]
           /\ \A d \in Cs : cset'[d].status \notin {"NONE", "LOST"} =>
                             Len(cset'[d].before) = Len(FilesOf[d])
           /\ \A d \in Cs : cset[d].status \notin {"NONE", "LOST"} =>
                             cset'[d].status \notin {"NONE", "LOST"}
<1>1. cset \in [Cs -> Changeset] /\ cset[c] \in Changeset
  BY DEF CallInv, CsTypeOK
<1>2. [cset[c] EXCEPT !.status = st] \in Changeset
  BY <1>1 DEF Changeset
<1>3. /\ [cset[c] EXCEPT !.status = st].status = st
      /\ [cset[c] EXCEPT !.status = st].before = cset[c].before
  BY <1>1 DEF Changeset
<1>4. cset'[c] = [cset[c] EXCEPT !.status = st] /\ \A d \in Cs : d # c => cset'[d] = cset[d]
  BY <1>1
<1>5. cset' \in [Cs -> Changeset]
  BY <1>1, <1>2
<1>6. st \notin {"NONE", "LOST"}
  BY DEF ChangesetStatus
<1>7. \A d \in Cs : cset[d].status \notin {"NONE", "LOST"} =>
                     Len(cset[d].before) = Len(FilesOf[d])
  BY DEF CallInv, CsTypeOK
<1> QED BY <1>3, <1>4, <1>5, <1>6, <1>7

\* The call of a fresh propose, apply or rollback.
LEMMA BeginOK ==
    ASSUME NEW c \in Cs, NEW at \in {"proposing", "gitStatus", "unreading"}
    PROVE  /\ CallOK([NoCall EXCEPT !.at = at, !.cs = c])
           /\ [NoCall EXCEPT !.at = at, !.cs = c].at = at
           /\ [NoCall EXCEPT !.at = at, !.cs = c].cs = c
<1> DEFINE r == [NoCall EXCEPT !.at = at, !.cs = c]
<1>1. r \in Call
  BY NoCallTyped DEF Call
<1>2. r.at = at /\ r.cs = c /\ r.n = 1 /\ r.upto = 0 /\ r.seen = <<>>
  BY NoCallTyped DEF Call
<1> HIDE DEF r
<1>3. CallOK(r)
  BY <1>1, <1>2, FilesLength DEF CallOK
<1> QED BY <1>2, <1>3 DEF r

\* The call of an apply that carries an approval.
LEMMA BeginWithOK ==
    ASSUME NEW c \in Cs, NEW i \in Id
    PROVE  /\ CallOK([NoCall EXCEPT !.at = "gitStatus", !.cs = c, !.id = i])
           /\ [NoCall EXCEPT !.at = "gitStatus", !.cs = c, !.id = i].at = "gitStatus"
           /\ [NoCall EXCEPT !.at = "gitStatus", !.cs = c, !.id = i].cs = c
           /\ [NoCall EXCEPT !.at = "gitStatus", !.cs = c, !.id = i].id = i
<1> DEFINE r == [NoCall EXCEPT !.at = "gitStatus", !.cs = c, !.id = i]
<1>1. r \in Call
  BY NoCallTyped DEF Call
<1>2. r.at = "gitStatus" /\ r.cs = c /\ r.id = i /\ r.n = 1 /\ r.upto = 0 /\ r.seen = <<>>
  BY NoCallTyped DEF Call
<1> HIDE DEF r
<1>3. CallOK(r)
  BY <1>1, <1>2, FilesLength DEF CallOK
<1> QED BY <1>2, <1>3 DEF r

\* A request stays with its changeset while it moves.
LEMMA GotoOK ==
    ASSUME CallInv, NEW k \in Caller, call[k].n <= Len(FilesOf[call[k].cs]),
           NEW at \in {"reading", "writing", "verifying", "unwriting"}
    PROVE  /\ CallOK([call[k] EXCEPT !.at = at])
           /\ [call[k] EXCEPT !.at = at].at = at
           /\ [call[k] EXCEPT !.at = at].cs = call[k].cs
<1> DEFINE r == [call[k] EXCEPT !.at = at]
<1>0. CallOK(call[k]) /\ call[k] \in Call /\ call[k].cs \in Cs
  BY CallInvCalls DEF CallOK
<1>1. r \in Call
  BY <1>0 DEF Call
<1>2. r.at = at /\ r.cs = call[k].cs /\ r.n = call[k].n /\ r.upto = call[k].upto
  BY <1>0 DEF Call
<1> HIDE DEF r
<1>3. CallOK(r)
  BY <1>0, <1>1, <1>2, FilesLength DEF CallOK
<1> QED BY <1>2, <1>3 DEF r

\* The place after n, within a list of length l.
LEMMA NextPlace ==
    ASSUME NEW n \in Nat, NEW l \in Nat, n >= 1
    PROVE  /\ n <= l => n + 1 \in 1..(l + 1)
           /\ n < l => n <= l /\ n + 1 <= l
  OBVIOUS

\* A call that goes on to its next file.
LEMMA NextFileOK ==
    ASSUME CallInv, NEW k \in Caller, NEW at \in {"reading", "restoring", "unreading"},
           at # "restoring" => call[k].n < Len(FilesOf[call[k].cs]),
           at = "restoring" => call[k].n <= call[k].upto
    PROVE  /\ CallOK([call[k] EXCEPT !.at = at, !.n = call[k].n + 1])
           /\ [call[k] EXCEPT !.at = at, !.n = call[k].n + 1].at = at
           /\ [call[k] EXCEPT !.at = at, !.n = call[k].n + 1].cs = call[k].cs
<1> DEFINE r == [call[k] EXCEPT !.at = at, !.n = call[k].n + 1]
<1>0. CallOK(call[k]) /\ call[k] \in Call /\ call[k].cs \in Cs /\ call[k].n \in Nat
  BY CallInvCalls DEF CallOK, Call
<1>1. r \in Call
  <2>1. \A n \in Nat : [call[k] EXCEPT !.at = at, !.n = n] \in Call
    BY <1>0 DEF Call
  <2>2. call[k].n + 1 \in Nat
    BY <1>0
  <2> QED BY <2>1, <2>2
<1>2. r.at = at /\ r.cs = call[k].cs /\ r.n = call[k].n + 1 /\ r.upto = call[k].upto
  BY <1>0 DEF Call
<1> HIDE DEF r
<1>3. call[k].upto \in Nat
  BY <1>0 DEF Call
<1>4. /\ Len(FilesOf[call[k].cs]) \in Nat /\ call[k].upto <= Len(FilesOf[call[k].cs])
      /\ call[k].n >= 1
  BY <1>0, FilesLength DEF CallOK
<1>5. /\ call[k].n + 1 \in 1..(Len(FilesOf[call[k].cs]) + 1)
      /\ at # "restoring" => call[k].n + 1 <= Len(FilesOf[call[k].cs])
  <2>1. CASE at # "restoring"
    BY <1>0, <1>4, <2>1, NextPlace
  <2>2. CASE at = "restoring"
    <3>1. call[k].n <= Len(FilesOf[call[k].cs])
      BY <1>0, <1>3, <1>4, <2>2
    <3> QED BY <1>0, <1>4, <2>2, <3>1, NextPlace
  <2> QED BY <2>1, <2>2
<1>6. CallOK(r)
  BY <1>1, <1>2, <1>4, <1>5 DEF CallOK
<1> QED BY <1>2, <1>6 DEF r

\* A rollback that goes on to its next file.
LEMMA UnrollOK ==
    ASSUME CallInv, NEW k \in Caller, NEW b \in BOOLEAN,
           call[k].n < Len(FilesOf[call[k].cs])
    PROVE  /\ CallOK([call[k] EXCEPT !.at = "unreading", !.n = call[k].n + 1, !.blocked = b])
           /\ [call[k] EXCEPT !.at = "unreading", !.n = call[k].n + 1, !.blocked = b].at = "unreading"
           /\ [call[k] EXCEPT !.at = "unreading", !.n = call[k].n + 1, !.blocked = b].cs = call[k].cs
<1> DEFINE r == [call[k] EXCEPT !.at = "unreading", !.n = call[k].n + 1, !.blocked = b]
<1>0. CallOK(call[k]) /\ call[k] \in Call /\ call[k].cs \in Cs /\ call[k].n \in Nat
  BY CallInvCalls DEF CallOK, Call
<1>1. r \in Call
  <2>1. \A n \in Nat : [call[k] EXCEPT !.at = "unreading", !.n = n, !.blocked = b] \in Call
    BY <1>0 DEF Call
  <2>2. call[k].n + 1 \in Nat
    BY <1>0
  <2> QED BY <2>1, <2>2
<1>2. r.at = "unreading" /\ r.cs = call[k].cs /\ r.n = call[k].n + 1 /\ r.upto = call[k].upto
  BY <1>0 DEF Call
<1> HIDE DEF r
<1>4. /\ Len(FilesOf[call[k].cs]) \in Nat /\ call[k].upto <= Len(FilesOf[call[k].cs])
      /\ call[k].n >= 1
  BY <1>0, FilesLength DEF CallOK
<1>5. /\ call[k].n + 1 \in 1..(Len(FilesOf[call[k].cs]) + 1)
      /\ call[k].n + 1 <= Len(FilesOf[call[k].cs])
  BY <1>0, <1>4, NextPlace
<1>6. CallOK(r)
  BY <1>1, <1>2, <1>4, <1>5 DEF CallOK
<1> QED BY <1>2, <1>6 DEF r

\* An apply that starts to restore the files it wrote.
LEMMA RestoreOK ==
    ASSUME CallInv, NEW k \in Caller, NEW m \in Nat, m <= Len(FilesOf[call[k].cs])
    PROVE  /\ CallOK([call[k] EXCEPT !.at = "restoring", !.n = 1, !.upto = m])
           /\ [call[k] EXCEPT !.at = "restoring", !.n = 1, !.upto = m].at = "restoring"
           /\ [call[k] EXCEPT !.at = "restoring", !.n = 1, !.upto = m].cs = call[k].cs
<1> DEFINE r == [call[k] EXCEPT !.at = "restoring", !.n = 1, !.upto = m]
<1>0. call[k] \in Call /\ call[k].cs \in Cs
  BY CallInvCalls DEF CallOK
<1>1. r \in Call
  BY <1>0 DEF Call
<1>2. r.at = "restoring" /\ r.cs = call[k].cs /\ r.n = 1 /\ r.upto = m
  BY <1>0 DEF Call
<1> HIDE DEF r
<1>3. CallOK(r)
  BY <1>0, <1>1, <1>2, FilesLength DEF CallOK
<1> QED BY <1>2, <1>3 DEF r

-----------------------------------------------------------------------------
(* Type correctness, action by action.                                     *)

\* A step of one request that leaves the changesets alone.
LEMMA CallInvMove ==
    ASSUME CallInv, NEW k \in Caller, NEW r, CallOK(r), call' = [call EXCEPT ![k] = r],
           disk' \in [File -> Content], spoiled' \in BOOLEAN, cset' = cset,
           edits' = edits, crashes' = crashes, passes' = passes, applied' = applied,
           r.at \in AtFile => cset[r.cs].status \notin {"NONE", "LOST"}
    PROVE  CallInv'
<1>1. /\ cset' \in [Cs -> Changeset]
      /\ passes' \in [Cs -> Seq(Id)] /\ applied' \in [Cs -> Nat]
      /\ \A c \in Cs : cset'[c].status \notin {"NONE", "LOST"} =>
                             Len(cset'[c].before) = Len(FilesOf[c])
  BY DEF CallInv, CsTypeOK
<1> QED BY <1>1, CallInvFrom

\* A step of one request that also sets the status of its changeset.
LEMMA CallInvStatus ==
    ASSUME CallInv, NEW k \in Caller, call[k].at \in AtFile, NEW r, CallOK(r),
           call' = [call EXCEPT ![k] = r], r.at \in AtFile => r.cs = call[k].cs,
           NEW st \in ChangesetStatus, SetStatus(k, st),
           disk' \in [File -> Content], spoiled' \in BOOLEAN,
           edits' = edits, crashes' = crashes,
           passes' \in [Cs -> Seq(Id)], applied' \in [Cs -> Nat]
    PROVE  CallInv'
<1>1. call[k].cs \in Cs /\ cset[call[k].cs].status \notin {"NONE", "LOST"}
  BY CallInvCalls DEF CallInv
<1>2. cset' = [cset EXCEPT ![call[k].cs].status = st]
  BY DEF SetStatus
<1>3. st \notin {"NONE", "LOST"}
  BY DEF ChangesetStatus
<1> DEFINE c == call[k].cs
<1>4. /\ cset' \in [Cs -> Changeset]
      /\ cset'[c].status = st
      /\ \A d \in Cs : cset'[d].status \notin {"NONE", "LOST"} =>
                             Len(cset'[d].before) = Len(FilesOf[d])
      /\ \A d \in Cs : cset[d].status \notin {"NONE", "LOST"} =>
                             cset'[d].status \notin {"NONE", "LOST"}
  BY <1>1, <1>2, CsetStatusTyped
<1> QED BY <1>3, <1>4, CallInvFrom

\* The types of the shared files and counters.
LEMMA DiskTyped ==
    ASSUME CallInv
    PROVE  /\ disk \in [File -> Content] /\ spoiled \in BOOLEAN
           /\ passes \in [Cs -> Seq(Id)] /\ applied \in [Cs -> Nat]
  BY DEF CallInv, CsTypeOK

\* A write of a file keeps the disk typed.
LEMMA PutTyped ==
    ASSUME CallInv, NEW k \in Caller, NEW x \in Content, NEW seen, Put(k, x, seen)
    PROVE  disk' \in [File -> Content] /\ spoiled' \in BOOLEAN
<1>1. disk' \in [File -> Content]
  BY DiskTyped DEF Put
<1>2. spoiled' \in BOOLEAN
  BY DEF Put
<1> QED BY <1>1, <1>2

\* propose starts.
LEMMA ProposeTyped ==
    ASSUME CallInv, NEW k \in Caller, NEW c \in Cs, Propose(k, c)
    PROVE  CallInv'
<1>1. /\ call' = [call EXCEPT ![k] = [NoCall EXCEPT !.at = "proposing", !.cs = c]]
      /\ disk' = disk /\ spoiled' = spoiled /\ cset' = cset
      /\ edits' = edits /\ crashes' = crashes /\ passes' = passes /\ applied' = applied
  BY DEF Propose, Begin, Uncounted, Quiet, NoWrite
<1>2. "proposing" \notin AtFile
  BY DEF AtFile
<1> DEFINE r == [NoCall EXCEPT !.at = "proposing", !.cs = c]
<1>3. CallOK(r) /\ r.at = "proposing"
  BY BeginOK
<1>4. call' = [call EXCEPT ![k] = r]
  BY <1>1
<1>5. disk' \in [File -> Content] /\ spoiled' \in BOOLEAN
  BY <1>1, DiskTyped
<1> HIDE DEF r
<1> QED BY <1>1, <1>2, <1>3, <1>4, <1>5, CallInvMove

\* rollback starts.
LEMMA RollbackTyped ==
    ASSUME CallInv, NEW k \in Caller, NEW c \in Cs, Rollback(k, c)
    PROVE  CallInv'
<1>1. /\ call' = [call EXCEPT ![k] = [NoCall EXCEPT !.at = "unreading", !.cs = c]]
      /\ disk' = disk /\ spoiled' = spoiled /\ cset' = cset
      /\ edits' = edits /\ crashes' = crashes /\ passes' = passes /\ applied' = applied
      /\ cset[c].status = "APPLIED"
  BY DEF Rollback, Begin, Uncounted, Quiet, NoWrite
<1> QED BY <1>1, DiskTyped, BeginOK, CallInvMove

\* apply starts: it takes its approval from the store.
LEMMA ApplyTyped ==
    ASSUME CallInv, NEW k \in Caller, NEW c \in Cs, Apply(k, c)
    PROVE  CallInv'
<1>1. /\ disk' = disk /\ spoiled' = spoiled /\ cset' = cset
      /\ edits' = edits /\ crashes' = crashes /\ passes' = passes /\ applied' = applied
      /\ cset[c].status \notin {"NONE", "LOST"}
  BY DEF Apply
<1>2. CASE Begin(k, c, "gitStatus")
  <2>1. call' = [call EXCEPT ![k] = [NoCall EXCEPT !.at = "gitStatus", !.cs = c]]
    BY <1>2 DEF Begin
  <2> QED BY <1>1, <2>1, DiskTyped, BeginOK, CallInvMove
<1>3. CASE \E i \in Id : BeginWith(k, c, i)
  <2>1. PICK i \in Id : BeginWith(k, c, i)
    BY <1>3
  <2>2. call' = [call EXCEPT ![k] = [NoCall EXCEPT !.at = "gitStatus", !.cs = c, !.id = i]]
    BY <2>1 DEF BeginWith
  <2> DEFINE r == [NoCall EXCEPT !.at = "gitStatus", !.cs = c, !.id = i]
  <2>3. CallOK(r) /\ r.cs = c
    BY BeginWithOK
  <2>4. disk' \in [File -> Content] /\ spoiled' \in BOOLEAN
    BY <1>1, DiskTyped
  <2>5. call' = [call EXCEPT ![k] = r]
    BY <2>2
  <2> HIDE DEF r
  <2> QED BY <1>1, <2>3, <2>4, <2>5, CallInvMove
<1> QED BY <1>2, <1>3 DEF Apply

\* A call returns.
LEMMA ReturnTyped ==
    ASSUME CallInv, NEW k \in Caller, Return(k), Uncounted, NoWrite, cset' = cset
    PROVE  CallInv'
<1>1. "idle" \notin AtFile
  BY DEF AtFile
<1> QED BY <1>1, DiskTyped, NoCallOK, NoCallTyped, CallInvMove DEF Return, Uncounted, Quiet, NoWrite

\* propose reads a file, and records the changeset after the last.
LEMMA ProposeReadTyped ==
    ASSUME CallInv, NEW k \in Caller, ProposeRead(k)
    PROVE  CallInv'
<1> DEFINE c == call[k].cs
           x == disk[TheFile(k)]
<1>1. /\ call[k].at = "proposing" /\ Uncounted /\ NoWrite
      /\ disk' = disk /\ spoiled' = spoiled
      /\ edits' = edits /\ crashes' = crashes /\ passes' = passes /\ applied' = applied
  BY DEF ProposeRead, Uncounted, Quiet, NoWrite
<1>2. /\ CallOK(call[k]) /\ call[k] \in Call /\ c \in Cs /\ call[k].n \in Nat
      /\ call[k].seen \in Seq(Content) /\ Len(call[k].seen) = call[k].n - 1
      /\ call[k].n \in 1..Len(FilesOf[c])
  BY <1>1, CallInvCalls, FilesLength DEF CallOK, Call
<1>3. TheFile(k) \in File
  BY <1>2, FilesLength DEF TheFile
<1>4. x \in Content
  BY <1>3, DiskTyped
<1>5. Append(call[k].seen, x) \in Seq(Content) /\ Len(Append(call[k].seen, x)) = call[k].n
  BY <1>2, <1>4
<1>6. "idle" \notin AtFile /\ "proposing" \notin AtFile
  BY DEF AtFile
<1>7. ASSUME ~Last(k), cset' = cset,
             call' = [call EXCEPT ![k] = [@ EXCEPT !.n = call[k].n + 1, !.seen = Append(call[k].seen, x)]]
      PROVE  CallInv'
  <2> DEFINE q == Append(call[k].seen, x)
             m == call[k].n + 1
             r == [call[k] EXCEPT !.n = m, !.seen = q]
  <2>1. m \in Nat /\ q \in Seq(Content) /\ Len(q) = m - 1
    BY <1>2, <1>5
  <2>2. call' = [call EXCEPT ![k] = r]
    BY <1>7
  <2>3. m <= Len(FilesOf[c])
    BY <1>2, <1>7, FilesLength DEF Last
  <2> HIDE DEF q, m
  <2>4. r \in Call
    <3>1. \A s \in Seq(Content), j \in Nat : [call[k] EXCEPT !.n = j, !.seen = s] \in Call
      BY <1>2 DEF Call
    <3> QED BY <2>1, <3>1
  <2>5. /\ r.at = "proposing" /\ r.cs = c /\ r.n = m /\ r.upto = call[k].upto /\ r.seen = q
    BY <1>1, <1>2 DEF Call
  <2> HIDE DEF r
  <2>6. CallOK(r)
    BY <1>2, <2>1, <2>3, <2>4, <2>5, FilesLength DEF CallOK
  <2> QED BY <1>1, <1>6, <1>7, <2>2, <2>5, <2>6, DiskTyped, CallInvMove
<1>8. ASSUME Last(k), NEW exact \in BOOLEAN, Return(k),
             cset' = [cset EXCEPT ![call[k].cs] =
                         [status |-> "PROPOSED", exact |-> exact,
                          before |-> Append(call[k].seen, x)]]
      PROVE  CallInv'
  <2> DEFINE q == Append(call[k].seen, x)
             rec == [status |-> "PROPOSED", exact |-> exact, before |-> q]
  <2>1. q \in Seq(Content) /\ Len(q) = Len(FilesOf[c])
    BY <1>5, <1>8 DEF Last
  <2> HIDE DEF q
  <2>2. rec \in Changeset
    BY <2>1 DEF Changeset, ChangesetStatus
  <2>3. rec.status = "PROPOSED" /\ rec.before = q
    OBVIOUS
  <2>4. cset' = [cset EXCEPT ![c] = rec]
    BY <1>8 DEF q
  <2> HIDE DEF rec
  <2>5. cset \in [Cs -> Changeset]
        /\ \A d \in Cs : cset[d].status \notin {"NONE", "LOST"} =>
                             Len(cset[d].before) = Len(FilesOf[d])
    BY DEF CallInv, CsTypeOK
  <2>6. cset' \in [Cs -> Changeset] /\ cset'[c] = rec
        /\ \A d \in Cs : d # c => cset'[d] = cset[d]
    BY <1>2, <2>2, <2>4, <2>5
  <2>7. call' = [call EXCEPT ![k] = NoCall]
    BY <1>8 DEF Return
  <2>8. \A d \in Cs : cset'[d].status \notin {"NONE", "LOST"} =>
                       Len(cset'[d].before) = Len(FilesOf[d])
    BY <2>1, <2>3, <2>5, <2>6
  <2>9. \A d \in Cs : cset[d].status \notin {"NONE", "LOST"} =>
                       cset'[d].status \notin {"NONE", "LOST"}
    BY <2>3, <2>6
  <2> QED BY <1>1, <1>6, <2>6, <2>7, <2>8, <2>9, DiskTyped, NoCallOK, NoCallTyped, CallInvFrom
<1>9. ASSUME Return(k), cset' = cset PROVE CallInv'
  BY <1>1, <1>9, ReturnTyped
<1> QED BY <1>7, <1>8, <1>9 DEF ProposeRead

\* The ways an apply pass or a rollback goes on, for the lemmas below.
LEMMA RestoreUptoTyped ==
    ASSUME CallInv, NEW k \in Caller, call[k].at \in AtFile,
           NEW m \in Nat, m <= Len(FilesOf[call[k].cs]), RestoreUpto(k, m),
           disk' \in [File -> Content], spoiled' \in BOOLEAN, Uncounted,
           cset' = cset \/ SetStatus(k, "CONFLICT")
    PROVE  CallInv'
<1> DEFINE r == [call[k] EXCEPT !.at = "restoring", !.n = 1, !.upto = m]
<1>1. CallOK(r) /\ r.cs = call[k].cs
  BY RestoreOK
<1>2. call' = [call EXCEPT ![k] = r]
  BY DEF RestoreUpto
<1> HIDE DEF r
<1>3. edits' = edits /\ crashes' = crashes /\ passes' = passes /\ applied' = applied
  BY DEF Uncounted, Quiet
<1>4. cset[call[k].cs].status \notin {"NONE", "LOST"}
  BY DEF CallInv
<1>5. CASE cset' = cset
  BY <1>1, <1>2, <1>3, <1>4, <1>5, CallInvMove
<1>6. CASE SetStatus(k, "CONFLICT")
  <2>1. "CONFLICT" \in ChangesetStatus
    BY DEF ChangesetStatus
  <2> QED BY <1>1, <1>2, <1>3, <1>6, <2>1, DiskTyped, CallInvStatus
<1> QED BY <1>5, <1>6

\* A call moves on with the same file.
LEMMA GotoTyped ==
    ASSUME CallInv, NEW k \in Caller, call[k].at \in AtFile, call[k].at # "restoring",
           NEW at \in {"reading", "writing", "verifying", "unwriting"}, Goto(k, at),
           disk' \in [File -> Content], spoiled' \in BOOLEAN, Uncounted, cset' = cset
    PROVE  CallInv'
<1>0. call[k].n <= Len(FilesOf[call[k].cs])
  BY CallInvCalls DEF CallOK
<1> DEFINE r == [call[k] EXCEPT !.at = at]
<1>1. CallOK(r) /\ r.cs = call[k].cs
  BY <1>0, GotoOK
<1>2. call' = [call EXCEPT ![k] = r]
  BY DEF Goto
<1> HIDE DEF r
<1>3. edits' = edits /\ crashes' = crashes /\ passes' = passes /\ applied' = applied
  BY DEF Uncounted, Quiet
<1>4. cset[call[k].cs].status \notin {"NONE", "LOST"}
  BY DEF CallInv
<1> QED BY <1>1, <1>2, <1>3, <1>4, CallInvMove

\* A call moves on to the next file.
LEMMA NextFileTyped ==
    ASSUME CallInv, NEW k \in Caller, call[k].at \in AtFile,
           NEW at \in {"reading", "restoring"}, NextFile(k, at),
           at # "restoring" => call[k].n < Len(FilesOf[call[k].cs]),
           at = "restoring" => call[k].n <= call[k].upto,
           disk' \in [File -> Content], spoiled' \in BOOLEAN, Uncounted, cset' = cset
    PROVE  CallInv'
<1> DEFINE r == [call[k] EXCEPT !.at = at, !.n = call[k].n + 1]
<1>1. CallOK(r) /\ r.cs = call[k].cs
  BY NextFileOK
<1>2. call' = [call EXCEPT ![k] = r]
  BY DEF NextFile
<1> HIDE DEF r
<1>3. edits' = edits /\ crashes' = crashes /\ passes' = passes /\ applied' = applied
  BY DEF Uncounted, Quiet
<1>4. cset[call[k].cs].status \notin {"NONE", "LOST"}
  BY DEF CallInv
<1> QED BY <1>1, <1>2, <1>3, <1>4, CallInvMove

\* A rollback leaves a file behind it.
LEMMA UnrolledTyped ==
    ASSUME CallInv, NEW k \in Caller, call[k].at \in {"unreading", "unwriting"},
           NEW b \in BOOLEAN, Unrolled(k, b),
           disk' \in [File -> Content], spoiled' \in BOOLEAN, Uncounted
    PROVE  CallInv'
<1>0. /\ call[k].at \in AtFile /\ "idle" \notin AtFile
      /\ edits' = edits /\ crashes' = crashes /\ passes' = passes /\ applied' = applied
  BY DEF AtFile, Uncounted, Quiet
<1>1. CASE ~Last(k)
  <2> DEFINE r == [call[k] EXCEPT !.at = "unreading", !.n = call[k].n + 1, !.blocked = b]
  <2>1. call[k].n < Len(FilesOf[call[k].cs])
    BY <1>0, <1>1, CallInvCalls, FilesLength DEF Last, CallOK, AtFile
  <2>2. CallOK(r) /\ r.cs = call[k].cs
    BY <2>1, UnrollOK
  <2>3. call' = [call EXCEPT ![k] = r] /\ cset' = cset
    BY <1>1 DEF Unrolled
  <2> HIDE DEF r
  <2>4. cset[call[k].cs].status \notin {"NONE", "LOST"}
    BY <1>0 DEF CallInv
  <2> QED BY <1>0, <2>2, <2>3, <2>4, CallInvMove
<1>2. CASE Last(k)
  <2>1. call' = [call EXCEPT ![k] = NoCall]
        /\ (cset' = cset \/ SetStatus(k, "ROLLED_BACK"))
    BY <1>2 DEF Unrolled, Return
  <2>2. "ROLLED_BACK" \in ChangesetStatus
    BY DEF ChangesetStatus
  <2>3. CASE cset' = cset
    BY <1>0, <2>1, <2>3, NoCallOK, NoCallTyped, CallInvMove
  <2>4. CASE SetStatus(k, "ROLLED_BACK")
    BY <1>0, <2>1, <2>2, <2>4, NoCallOK, NoCallTyped, DiskTyped, CallInvStatus
  <2> QED BY <2>1, <2>3, <2>4
<1> QED BY <1>1, <1>2

\* Every step of a call keeps the calls and changesets typed.
LEMMA CallStepTyped ==
    ASSUME CallInv, NEW k \in Caller, CallStep(k)
    PROVE  CallInv'
<1> DEFINE c == call[k].cs
<1>1. /\ CallOK(call[k]) /\ c \in Cs /\ call[k].n \in Nat /\ call[k].n >= 1
      /\ call[k].upto \in Nat /\ call[k].upto <= Len(FilesOf[c])
      /\ call[k].blocked \in BOOLEAN /\ Len(FilesOf[c]) \in Nat
  BY CallInvCalls, FilesLength DEF CallOK, Call
<1>2. call[k].at # "restoring" => call[k].n <= Len(FilesOf[c])
  BY <1>1 DEF CallOK
<1>3. /\ disk \in [File -> Content] /\ spoiled \in BOOLEAN
      /\ passes \in [Cs -> Seq(Id)] /\ applied \in [Cs -> Nat]
  BY DiskTyped
<1>4. call[k].n - 1 \in Nat /\ (call[k].at # "restoring" => call[k].n - 1 <= Len(FilesOf[c]))
  BY <1>1, <1>2
<1>5. CASE ProposeRead(k)
  BY <1>5, ProposeReadTyped
<1>6. CASE ApplyStart(k)
  <2>1. /\ call[k].at = "gitStatus" /\ call[k].at \in AtFile /\ Quiet /\ NoWrite
        /\ applied' = applied /\ disk' = disk /\ spoiled' = spoiled
        /\ edits' = edits /\ crashes' = crashes
    BY <1>6 DEF ApplyStart, AtFile, Quiet, NoWrite
  <2>2. CASE MayApply(cset[c].status)
    <3> DEFINE r == [call[k] EXCEPT !.at = "reading"]
    <3>1. CallOK(r) /\ r.cs = c
      BY <1>2, <2>1, GotoOK
    <3>2. call' = [call EXCEPT ![k] = r] /\ SetStatus(k, "APPLYING")
      BY <1>6, <2>2 DEF ApplyStart, Goto
    <3> HIDE DEF r
    <3>3. passes' \in [Cs -> Seq(Id)]
      <4>1. call[k].id \in Id
        BY CallInvCalls
      <4>2. passes' = IF c \in Gated THEN [passes EXCEPT ![c] = Append(@, call[k].id)] ELSE passes
        BY <1>6, <2>2 DEF ApplyStart
      <4> QED BY <1>1, <1>3, <4>1, <4>2
    <3>4. "APPLYING" \in ChangesetStatus
      BY DEF ChangesetStatus
    <3> QED BY <1>3, <2>1, <3>1, <3>2, <3>3, <3>4, CallInvStatus
  <2>3. CASE ~MayApply(cset[c].status)
    <3>1. Return(k) /\ cset' = cset /\ passes' = passes
      BY <1>6, <2>3 DEF ApplyStart
    <3> QED BY <2>1, <3>1, ReturnTyped DEF Uncounted
  <2> QED BY <2>2, <2>3
<1>7. CASE ApplyRead(k)
  <2>1. /\ call[k].at = "reading" /\ call[k].at \in AtFile /\ Uncounted
        /\ disk' = disk /\ spoiled' = spoiled
    BY <1>7 DEF ApplyRead, AtFile, NoWrite
  <2>2. \/ Goto(k, "writing") /\ cset' = cset
        \/ RestoreUpto(k, call[k].n - 1) /\ (cset' = cset \/ SetStatus(k, "CONFLICT"))
    BY <1>7 DEF ApplyRead
  <2>3. CASE Goto(k, "writing") /\ cset' = cset
    BY <1>3, <2>1, <2>3, GotoTyped
  <2>4. CASE RestoreUpto(k, call[k].n - 1) /\ (cset' = cset \/ SetStatus(k, "CONFLICT"))
    BY <1>3, <1>4, <2>1, <2>4, RestoreUptoTyped
  <2> QED BY <2>2, <2>3, <2>4
<1>8. CASE ApplyWrite(k)
  <2>1. /\ call[k].at = "writing" /\ call[k].at \in AtFile /\ Uncounted /\ cset' = cset
    BY <1>8 DEF ApplyWrite, AtFile
  <2>2. CASE Put(k, After(k), {Before(k)}) /\ Goto(k, "verifying")
    <3>1. After(k) \in Content
      BY <1>2, <2>1, AtHand
    <3>2. disk' \in [File -> Content] /\ spoiled' \in BOOLEAN
      BY <2>2, <3>1, PutTyped
    <3> QED BY <2>1, <2>2, <3>2, GotoTyped
  <2>3. CASE RestoreUpto(k, call[k].n) /\ NoWrite
    <3>1. disk' \in [File -> Content] /\ spoiled' \in BOOLEAN
      BY <1>3, <2>3 DEF NoWrite
    <3> QED BY <1>1, <1>2, <2>1, <2>3, <3>1, RestoreUptoTyped
  <2> QED BY <1>8, <2>2, <2>3 DEF ApplyWrite
<1>9. CASE ApplyVerify(k)
  <2>1. /\ call[k].at = "verifying" /\ call[k].at \in AtFile /\ Quiet /\ passes' = passes
        /\ disk' = disk /\ spoiled' = spoiled /\ edits' = edits /\ crashes' = crashes
    BY <1>9 DEF ApplyVerify, AtFile, NoWrite, Quiet
  <2>2. CASE ~Last(k) /\ NextFile(k, "reading") /\ cset' = cset /\ applied' = applied
    <3>1. call[k].n < Len(FilesOf[c])
      BY <1>1, <1>2, <2>1, <2>2 DEF Last
    <3> QED BY <1>3, <2>1, <2>2, <3>1, NextFileTyped DEF Uncounted
  <2>3. CASE /\ SetStatus(k, "APPLIED") /\ Return(k)
             /\ applied' = [applied EXCEPT ![c] = @ + 1]
    <3>1. applied' \in [Cs -> Nat]
      BY <1>1, <1>3, <2>3
    <3>2. "APPLIED" \in ChangesetStatus /\ "idle" \notin AtFile
      BY DEF ChangesetStatus, AtFile
    <3>3. call' = [call EXCEPT ![k] = NoCall]
      BY <2>3 DEF Return
    <3> QED BY <1>3, <2>1, <2>3, <3>1, <3>2, <3>3, NoCallOK, NoCallTyped, CallInvStatus
  <2>4. CASE RestoreUpto(k, call[k].n) /\ cset' = cset /\ applied' = applied
    BY <1>1, <1>2, <1>3, <2>1, <2>4, RestoreUptoTyped DEF Uncounted
  <2> QED BY <1>9, <2>2, <2>3, <2>4 DEF ApplyVerify
<1>10. CASE Restore(k)
  <2>1. /\ call[k].at = "restoring" /\ call[k].at \in AtFile /\ Uncounted /\ cset' = cset
        /\ call[k].n <= call[k].upto /\ NextFile(k, "restoring")
    BY <1>10 DEF Restore, AtFile
  <2>2. disk' \in [File -> Content] /\ spoiled' \in BOOLEAN
    <3>1. CASE Put(k, Before(k), {Before(k), After(k)})
      <4>1. call[k].n <= Len(FilesOf[c])
        BY <1>1, <2>1
      <4>2. Before(k) \in Content
        BY <2>1, <4>1, AtHand
      <4> QED BY <3>1, <4>2, PutTyped
    <3>2. CASE spoiled' = TRUE /\ disk' = disk
      BY <1>3, <3>2
    <3> QED BY <1>10, <3>1, <3>2 DEF Restore
  <2> QED BY <2>1, <2>2, NextFileTyped
<1>11. CASE RestoreDone(k)
  <2>1. /\ call[k].at = "restoring" /\ call[k].at \in AtFile /\ Uncounted /\ NoWrite
        /\ disk' = disk /\ spoiled' = spoiled /\ Return(k)
        /\ edits' = edits /\ crashes' = crashes /\ passes' = passes /\ applied' = applied
    BY <1>11 DEF RestoreDone, AtFile, NoWrite, Uncounted, Quiet
  <2>2. CASE cset' = cset
    BY <2>1, <2>2, ReturnTyped
  <2>3. CASE SetStatus(k, "FAILED")
    <3>1. "FAILED" \in ChangesetStatus /\ "idle" \notin AtFile
      BY DEF ChangesetStatus, AtFile
    <3>2. call' = [call EXCEPT ![k] = NoCall]
      BY <2>1 DEF Return
    <3> QED BY <1>3, <2>1, <2>3, <3>1, <3>2, NoCallOK, NoCallTyped, CallInvStatus
  <2> QED BY <1>11, <2>2, <2>3 DEF RestoreDone
<1>12. CASE RollbackRead(k)
  <2>1. /\ call[k].at = "unreading" /\ call[k].at \in AtFile /\ Uncounted /\ NoWrite
        /\ disk' = disk /\ spoiled' = spoiled
    BY <1>12 DEF RollbackRead, AtFile, NoWrite
  <2>2. CASE Unrolled(k, TRUE) \/ Unrolled(k, call[k].blocked)
    BY <1>1, <1>3, <2>1, <2>2, UnrolledTyped
  <2>3. CASE Goto(k, "unwriting") /\ cset' = cset
    BY <1>3, <2>1, <2>3, GotoTyped
  <2>4. CASE Return(k) /\ cset' = cset
    BY <2>1, <2>4, ReturnTyped
  <2> QED BY <1>12, <2>2, <2>3, <2>4 DEF RollbackRead
<1>13. CASE RollbackWrite(k)
  <2>1. /\ call[k].at = "unwriting" /\ call[k].at \in AtFile /\ Uncounted
    BY <1>13 DEF RollbackWrite, AtFile
  <2>2. CASE Put(k, Before(k), {After(k)}) /\ Unrolled(k, call[k].blocked)
    <3>1. Before(k) \in Content
      BY <1>2, <2>1, AtHand
    <3>2. disk' \in [File -> Content] /\ spoiled' \in BOOLEAN
      BY <2>2, <3>1, PutTyped
    <3> QED BY <1>1, <2>1, <2>2, <3>2, UnrolledTyped
  <2>3. CASE Return(k) /\ NoWrite /\ cset' = cset
    BY <2>1, <2>3, ReturnTyped
  <2> QED BY <1>13, <2>2, <2>3 DEF RollbackWrite
<1> QED BY <1>5, <1>6, <1>7, <1>8, <1>9, <1>10, <1>11, <1>12, <1>13 DEF CallStep

-----------------------------------------------------------------------------
(* The approvals that requests hold and have spent.                        *)

\* A request that waits for git status with an approval it has just used up.
Paid(k) == call[k].at = "gitStatus" /\ call[k].cs \in Gated

PassInv ==
    /\ \A k \in Caller : Paid(k) =>
         /\ used[call[k].id] # <<>>
         /\ <<call[k].id, ActionOf[call[k].cs]>> \in granted
         /\ \A c \in Gated : \A n \in 1..Len(passes[c]) : passes[c][n] # call[k].id
    /\ \A k, j \in Caller : Paid(k) /\ Paid(j) /\ k # j => call[k].id # call[j].id
    /\ \A c \in Gated : \A n \in 1..Len(passes[c]) : used[passes[c][n]] # <<>>
    /\ EveryPassApproved

\* Nobody new has paid, and no pass begins.
LEMMA KeepsPassInv ==
    ASSUME CallInv, PassInv, ApprGrows, passes' = passes,
           \A k \in Caller : Paid(k)' => Paid(k) /\ call'[k] = call[k]
    PROVE  PassInv'
<1>1. \A c \in Gated : \A n \in 1..Len(passes[c]) : passes[c][n] \in Id
  <2>1. \A c \in Gated : passes[c] \in Seq(Id)
    BY DiskTyped, ChangesetsAssumption
  <2> QED BY <2>1
<1>2. \A k \in Caller : call[k].id \in Id
  BY CallInvCalls
<1>3. \A k \in Caller : Paid(k)' =>
         /\ used'[call'[k].id] # <<>>
         /\ <<call'[k].id, ActionOf[call'[k].cs]>> \in granted'
         /\ \A c \in Gated : \A n \in 1..Len(passes'[c]) : passes'[c][n] # call'[k].id
  BY <1>2 DEF PassInv, ApprGrows
<1>4. \A k, j \in Caller : Paid(k)' /\ Paid(j)' /\ k # j => call'[k].id # call'[j].id
  BY DEF PassInv
<1>5. \A c \in Gated : \A n \in 1..Len(passes'[c]) : used'[passes'[c][n]] # <<>>
  BY <1>1 DEF PassInv, ApprGrows
<1>6. EveryPassApproved'
  BY DEF PassInv, EveryPassApproved, ApprGrows
<1> QED BY <1>3, <1>4, <1>5, <1>6 DEF PassInv

\* A request that has begun never waits at the gate again.
LEMMA CallShape ==
    ASSUME CallInv, NEW k \in Caller, CallStep(k)
    PROVE  /\ UNCHANGED apprVars
           /\ \A j \in Caller : j # k => call'[j] = call[j]
           /\ call'[k].at # "gitStatus"
<1>1. UNCHANGED apprVars
  BY DEF CallStep, ProposeRead, ApplyStart, ApplyRead, ApplyWrite, ApplyVerify, Restore,
         RestoreDone, RollbackRead, RollbackWrite, Uncounted, Quiet
<1>2. call \in [Caller -> Call] /\ call[k] \in Call
  BY DEF CallInv, CsTypeOK
<1> DEFINE Moved == (\A j \in Caller : j # k => call'[j] = call[j]) /\ call'[k].at # "gitStatus"
<1>3. ASSUME NEW r, call' = [call EXCEPT ![k] = r], r.at # "gitStatus" PROVE Moved
  BY <1>2, <1>3
<1>4. ASSUME Return(k) PROVE Moved
  <2>1. NoCall.at # "gitStatus"
    BY NoCallTyped
  <2> QED BY <1>3, <1>4, <2>1 DEF Return
<1>5. ASSUME NEW at \in {"reading", "writing", "verifying", "unwriting"}, Goto(k, at) PROVE Moved
  <2>1. [call[k] EXCEPT !.at = at].at = at
    BY <1>2 DEF Call
  <2> QED BY <1>3, <1>5, <2>1 DEF Goto
<1>6. ASSUME NEW at \in {"reading", "restoring"}, NextFile(k, at) PROVE Moved
  <2>1. [call[k] EXCEPT !.at = at, !.n = call[k].n + 1].at = at
    BY <1>2 DEF Call
  <2> QED BY <1>3, <1>6, <2>1 DEF NextFile
<1>7. ASSUME NEW m, RestoreUpto(k, m) PROVE Moved
  <2>1. [call[k] EXCEPT !.at = "restoring", !.n = 1, !.upto = m].at = "restoring"
    BY <1>2 DEF Call
  <2> QED BY <1>3, <1>7, <2>1 DEF RestoreUpto
<1>8. ASSUME NEW b, Unrolled(k, b) PROVE Moved
  <2>1. [call[k] EXCEPT !.at = "unreading", !.n = call[k].n + 1, !.blocked = b].at = "unreading"
    BY <1>2 DEF Call
  <2>2. CASE call' = [call EXCEPT ![k] = [call[k] EXCEPT !.at = "unreading", !.n = call[k].n + 1,
                                                         !.blocked = b]]
    BY <1>3, <2>1, <2>2
  <2> QED BY <1>4, <1>8, <2>2 DEF Unrolled
<1>9. ASSUME ProposeRead(k) PROVE Moved
  <2> DEFINE r == [call[k] EXCEPT !.n = call[k].n + 1,
                                  !.seen = Append(call[k].seen, disk[TheFile(k)])]
  <2>1. r.at = "proposing"
    BY <1>2, <1>9 DEF ProposeRead, Call
  <2>2. CASE call' = [call EXCEPT ![k] = r]
    BY <1>3, <2>1, <2>2
  <2> QED BY <1>4, <1>9, <2>2 DEF ProposeRead
<1> HIDE DEF Moved
<1>10. Moved
  BY <1>4, <1>5, <1>6, <1>7, <1>8, <1>9
  DEF CallStep, ApplyStart, ApplyRead, ApplyWrite, ApplyVerify, Restore, RestoreDone,
      RollbackRead, RollbackWrite
<1> QED BY <1>1, <1>10 DEF Moved

\* The gate: an approval that passes has not been used before, so nobody else
\* holds it or has spent it.
LEMMA ApplyPays ==
    ASSUME CallInv, ApprInv, PassInv, NEW k \in Caller, NEW c \in Cs, Apply(k, c)
    PROVE  ApprInv' /\ PassInv'
<1>1. passes' = passes /\ Idle(k)
  BY DEF Apply
<1>2. call \in [Caller -> Call]
  BY DEF CallInv, CsTypeOK
<1>3. CASE c \notin Gated /\ UNCHANGED apprVars /\ Begin(k, c, "gitStatus")
  <2> DEFINE r == [NoCall EXCEPT !.at = "gitStatus", !.cs = c]
  <2>1. r.cs = c
    BY BeginOK
  <2>2. call' = [call EXCEPT ![k] = r]
    BY <1>3 DEF Begin
  <2> HIDE DEF r
  <2>3. call'[k] = r /\ \A j \in Caller : j # k => call'[j] = call[j]
    BY <1>2, <2>2
  <2>4. \A j \in Caller : Paid(j)' => Paid(j) /\ call'[j] = call[j]
    BY <1>3, <2>1, <2>3 DEF Paid
  <2>5. PassInv'
    BY <1>1, <1>3, <2>4, StillGrows, KeepsPassInv
  <2>6. ApprInv'
    BY <1>3 DEF ApprInv, SingleUse, apprVars
  <2> QED BY <2>5, <2>6
<1>4. ASSUME c \in Gated, NEW i \in Id, Consume(i, ActionOf[c]), BeginWith(k, c, i)
      PROVE  ApprInv' /\ PassInv'
  <2> DEFINE r == [NoCall EXCEPT !.at = "gitStatus", !.cs = c, !.id = i]
             a == ActionOf[c]
  <2>1. r.at = "gitStatus" /\ r.cs = c /\ r.id = i
    BY BeginWithOK
  <2>2. call' = [call EXCEPT ![k] = r]
    BY <1>4 DEF BeginWith
  <2> HIDE DEF r
  <2>3. call'[k] = r /\ \A j \in Caller : j # k => call'[j] = call[j]
    BY <1>2, <2>2
  <2>4. a \in Action
    BY ChangesetsAssumption
  <2>5. /\ ApprInv' /\ used[i] = <<>> /\ used'[i] = <<a>> /\ <<i, a>> \in granted
        /\ \A j \in Id : j # i => used'[j] = used[j]
    BY <1>4, <2>4, ConsumeKeeps
  <2>6. granted' = granted
    BY <1>4 DEF Consume
  <2>7. \A d \in Gated : \A n \in 1..Len(passes[d]) : passes[d][n] \in Id /\ passes[d][n] # i
    <3>1. \A d \in Gated : passes[d] \in Seq(Id)
      BY DiskTyped, ChangesetsAssumption
    <3> QED BY <2>5, <3>1 DEF PassInv
  <2>8. \A j \in Caller : Paid(j) => call[j].id # i /\ call[j].id \in Id
    BY <2>5, CallInvCalls DEF PassInv
  <2>9. <<a>> # <<>>
    OBVIOUS
  <2>10. \A j \in Caller : j # k => Paid(j)' = Paid(j)
    BY <2>3 DEF Paid
  <2>11. ASSUME NEW j \in Caller, Paid(j)'
         PROVE  /\ used'[call'[j].id] # <<>>
                /\ <<call'[j].id, ActionOf[call'[j].cs]>> \in granted'
                /\ \A d \in Gated : \A n \in 1..Len(passes'[d]) : passes'[d][n] # call'[j].id
    <3>1. CASE j = k
      BY <1>1, <2>1, <2>3, <2>5, <2>6, <2>7, <2>9, <3>1
    <3>2. CASE j # k
      BY <1>1, <2>3, <2>5, <2>6, <2>8, <2>10, <2>11, <3>2 DEF PassInv
    <3> QED BY <3>1, <3>2
  <2>12. \A j, l \in Caller : Paid(j)' /\ Paid(l)' /\ j # l => call'[j].id # call'[l].id
    BY <2>1, <2>3, <2>8, <2>10 DEF PassInv
  <2>13. \A d \in Gated : \A n \in 1..Len(passes'[d]) : used'[passes'[d][n]] # <<>>
    BY <1>1, <2>5, <2>7 DEF PassInv
  <2>14. EveryPassApproved'
    BY <1>1, <2>6 DEF PassInv, EveryPassApproved
  <2> QED BY <2>5, <2>11, <2>12, <2>13, <2>14 DEF PassInv
<1> QED BY <1>3, <1>4 DEF Apply

\* The start of apply counts the approval that it used up.
LEMMA ApplyStartSpends ==
    ASSUME CallInv, PassInv, NEW k \in Caller, ApplyStart(k)
    PROVE  PassInv'
<1>1. /\ call[k].at = "gitStatus" /\ granted' = granted /\ used' = used
      /\ UNCHANGED apprVars
  BY DEF ApplyStart, Quiet, apprVars
<1>2. /\ \A j \in Caller : j # k => call'[j] = call[j]
      /\ call'[k].at # "gitStatus"
  BY CallShape DEF CallStep
<1>3. \A j \in Caller : Paid(j)' => j # k /\ Paid(j) /\ call'[j] = call[j]
  BY <1>2 DEF Paid
<1>4. CASE passes' = passes
  BY <1>1, <1>3, <1>4, StillGrows, KeepsPassInv
<1>5. CASE passes' # passes
  <2> DEFINE c == call[k].cs
             i == call[k].id
  <2>1. c \in Gated /\ passes' = [passes EXCEPT ![c] = Append(@, i)]
    BY <1>5 DEF ApplyStart
  <2>2. Paid(k) /\ i \in Id
    BY <1>1, <2>1, CallInvCalls DEF Paid
  <2>3. /\ used[i] # <<>> /\ <<i, ActionOf[c]>> \in granted
        /\ \A d \in Gated : \A n \in 1..Len(passes[d]) : passes[d][n] # i
    BY <2>2 DEF PassInv
  <2>4. \A d \in Gated : d \in Cs /\ passes[d] \in Seq(Id)
    BY DiskTyped, ChangesetsAssumption
  <2>5. /\ passes'[c] = Append(passes[c], i)
        /\ \A d \in Gated : d # c => passes'[d] = passes[d]
    BY <2>1, <2>4, DiskTyped
  <2>6. /\ Len(passes'[c]) = Len(passes[c]) + 1 /\ passes'[c][Len(passes[c]) + 1] = i
        /\ \A n \in 1..Len(passes[c]) : passes'[c][n] = passes[c][n]
        /\ Len(passes[c]) \in Nat
    BY <2>1, <2>2, <2>4, <2>5
  <2>7. \A d \in Gated : \A n \in 1..Len(passes'[d]) :
            (d = c /\ n = Len(passes[c]) + 1 /\ passes'[d][n] = i)
            \/ (n \in 1..Len(passes[d]) /\ passes'[d][n] = passes[d][n])
    <3>1. SUFFICES ASSUME NEW d \in Gated, NEW n \in 1..Len(passes'[d])
                   PROVE  \/ d = c /\ n = Len(passes[c]) + 1 /\ passes'[d][n] = i
                          \/ n \in 1..Len(passes[d]) /\ passes'[d][n] = passes[d][n]
      OBVIOUS
    <3>2. CASE d = c
      <4>1. n \in 1..(Len(passes[c]) + 1)
        BY <2>6, <3>2
      <4>2. n = Len(passes[c]) + 1 \/ n \in 1..Len(passes[c])
        BY <2>6, <4>1
      <4> QED BY <2>6, <3>2, <4>2
    <3>3. CASE d # c
      BY <2>5, <3>3
    <3> QED BY <3>2, <3>3
  <2>8. ASSUME NEW j \in Caller, Paid(j)'
        PROVE  /\ used'[call'[j].id] # <<>>
               /\ <<call'[j].id, ActionOf[call'[j].cs]>> \in granted'
               /\ \A d \in Gated : \A n \in 1..Len(passes'[d]) : passes'[d][n] # call'[j].id
    <3>1. j # k /\ Paid(j) /\ call'[j] = call[j]
      BY <1>3, <2>8
    <3>2. call[j].id # i
      BY <2>2, <3>1 DEF PassInv
    <3>3. \A d \in Gated : \A n \in 1..Len(passes[d]) : passes[d][n] # call[j].id
      BY <3>1 DEF PassInv
    <3>4. \A d \in Gated : \A n \in 1..Len(passes'[d]) : passes'[d][n] # call'[j].id
      BY <2>7, <3>1, <3>2, <3>3
    <3> QED BY <1>1, <3>1, <3>4 DEF PassInv
  <2>9. \A j, l \in Caller : Paid(j)' /\ Paid(l)' /\ j # l => call'[j].id # call'[l].id
    BY <1>3 DEF PassInv
  <2>10. \A d \in Gated : \A n \in 1..Len(passes'[d]) : used'[passes'[d][n]] # <<>>
    <3>1. \A d \in Gated : \A n \in 1..Len(passes[d]) : used[passes[d][n]] # <<>>
      BY DEF PassInv
    <3>2. used' = used
      BY <1>1
    <3> QED BY <2>3, <2>7, <3>1, <3>2
  <2>11. EveryPassApproved'
    <3>1. SUFFICES ASSUME NEW d \in Gated, NEW n \in 1..Len(passes'[d])
                   PROVE  /\ <<passes'[d][n], ActionOf[d]>> \in granted'
                          /\ \A m \in 1..(n - 1) : passes'[d][m] # passes'[d][n]
      BY DEF EveryPassApproved
    <3>2. CASE d = c /\ n = Len(passes[c]) + 1 /\ passes'[d][n] = i
      <4>1. \A m \in 1..(n - 1) : passes'[d][m] = passes[d][m] /\ passes[d][m] # i
        BY <2>1, <2>3, <2>6, <3>2
      <4> QED BY <1>1, <2>3, <3>2, <4>1
    <3>3. CASE n \in 1..Len(passes[d]) /\ passes'[d][n] = passes[d][n]
      <4>1. <<passes[d][n], ActionOf[d]>> \in granted
            /\ \A m \in 1..(n - 1) : passes[d][m] # passes[d][n]
        BY <3>3 DEF PassInv, EveryPassApproved
      <4>2. Len(passes[d]) \in Nat
        BY <2>4
      <4>3. \A m \in 1..(n - 1) : m \in 1..Len(passes[d])
        BY <3>3, <4>2
      <4>4. \A m \in 1..(n - 1) : passes'[d][m] = passes[d][m]
        BY <2>5, <2>6, <4>3
      <4> QED BY <1>1, <3>3, <4>1, <4>4
    <3> QED BY <2>7, <3>2, <3>3
  <2> QED BY <2>8, <2>9, <2>10, <2>11 DEF PassInv
<1> QED BY <1>4, <1>5

-----------------------------------------------------------------------------
(* One pass at a time: the status is the lock of a changeset.              *)

BusyAt == {"reading", "writing", "verifying", "restoring"}
OwnAt == BusyAt \cup {"proposing"}
UndoAt == {"unreading", "unwriting"}

\* The status a changeset has while a request is at a place.
StatusFits(at, status) ==
    /\ at = "proposing" => status = "NONE"
    /\ at \in BusyAt => status = "APPLYING" \/ (at = "restoring" /\ status = "CONFLICT")
    /\ at \in UndoAt => status \in {"APPLIED", "ROLLED_BACK"}

AppliedFits(n, status) == n = 0 \/ (n = 1 /\ status \in {"APPLIED", "ROLLED_BACK", "LOST"})

ApplyInv ==
    /\ \A k \in Caller : StatusFits(call[k].at, cset[call[k].cs].status)
    /\ \A k, j \in Caller : k # j /\ call[k].at \in OwnAt /\ call[j].at \in OwnAt
                               => call[k].cs # call[j].cs
    /\ \A c \in Cs : AppliedFits(applied[c], cset[c].status)

\* Whoever owns a changeset has it for itself: others may only wait at the gate.
LEMMA Alone ==
    ASSUME CallInv, ApplyInv, NEW k \in Caller, call[k].at \in OwnAt,
           NEW j \in Caller, j # k, call[j].cs = call[k].cs
    PROVE  call[j].at \in {"idle", "gitStatus"}
<1>1. call[j].at \notin OwnAt
  BY DEF ApplyInv
<1>2. call[j].at \notin UndoAt
  BY DEF ApplyInv, StatusFits, OwnAt, BusyAt, UndoAt
<1>3. call[j] \in Call
  BY CallInvCalls DEF CallOK
<1> QED BY <1>1, <1>2, <1>3 DEF Call, OwnAt, BusyAt, UndoAt

\* A step of one request and of the status of one changeset.
LEMMA ApplyInvFrom ==
    ASSUME CallInv, ApplyInv, NEW k \in Caller, NEW c \in Cs,
           \A j \in Caller : j # k => call'[j] = call[j],
           \A d \in Cs : d # c => cset'[d].status = cset[d].status /\ applied'[d] = applied[d],
           StatusFits(call'[k].at, cset'[call'[k].cs].status),
           \A j \in Caller : j # k /\ call[j].cs = c => StatusFits(call[j].at, cset'[c].status),
           \A j \in Caller : j # k /\ call'[k].at \in OwnAt /\ call[j].at \in OwnAt
                             => call[j].cs # call'[k].cs,
           AppliedFits(applied'[c], cset'[c].status)
    PROVE  ApplyInv'
<1>1. ASSUME NEW j \in Caller PROVE StatusFits(call'[j].at, cset'[call'[j].cs].status)
  <2>1. CASE j = k
    BY <2>1
  <2>2. CASE j # k /\ call[j].cs = c
    BY <2>2
  <2>3. CASE j # k /\ call[j].cs # c
    <3>1. call[j].cs \in Cs
      BY CallInvCalls
    <3>2. StatusFits(call[j].at, cset[call[j].cs].status)
      BY DEF ApplyInv
    <3> QED BY <2>3, <3>1, <3>2
  <2> QED BY <2>1, <2>2, <2>3
<1>2. \A i, j \in Caller : i # j /\ call'[i].at \in OwnAt /\ call'[j].at \in OwnAt
                           => call'[i].cs # call'[j].cs
  BY DEF ApplyInv
<1>3. \A d \in Cs : AppliedFits(applied'[d], cset'[d].status)
  BY DEF ApplyInv
<1> QED BY <1>1, <1>2, <1>3 DEF ApplyInv

\* A request moves on and no status changes.
LEMMA ApplyInvMove ==
    ASSUME CallInv, ApplyInv, NEW k \in Caller, NEW r, call' = [call EXCEPT ![k] = r],
           cset' = cset, applied' = applied,
           \/ r.at \in {"idle", "gitStatus"}
           \/ /\ r.cs = call[k].cs
              /\ \/ call[k].at \in BusyAt /\ r.at \in BusyAt
                    /\ (call[k].at = "restoring" => r.at = "restoring")
                 \/ call[k].at \in UndoAt /\ r.at \in UndoAt
                 \/ call[k].at = "proposing" /\ r.at = "proposing"
           \/ r.at = "unreading" /\ cset[r.cs].status = "APPLIED"
           \/ /\ r.at = "proposing" /\ cset[r.cs].status = "NONE"
              /\ \A j \in Caller : Idle(j) \/ call[j].cs # r.cs
    PROVE  ApplyInv'
<1> DEFINE c == call[k].cs
<1>1. c \in Cs /\ call'[k] = r /\ \A j \in Caller : j # k => call'[j] = call[j]
  BY CallInvCalls DEF CallInv, CsTypeOK
<1>2. StatusFits(r.at, cset[r.cs].status)
  <2>1. StatusFits(call[k].at, cset[call[k].cs].status)
    BY DEF ApplyInv
  <2> QED BY <2>1 DEF StatusFits, BusyAt, UndoAt
<1>3. \A j \in Caller : j # k /\ r.at \in OwnAt /\ call[j].at \in OwnAt => call[j].cs # r.cs
  BY DEF ApplyInv, OwnAt, BusyAt, UndoAt, Idle
<1>4. \A j \in Caller : StatusFits(call[j].at, cset[call[j].cs].status)
  BY DEF ApplyInv
<1>5. AppliedFits(applied[c], cset[c].status)
  BY <1>1 DEF ApplyInv
<1> QED BY <1>1, <1>2, <1>3, <1>4, <1>5, ApplyInvFrom

\* A request sets the status of its changeset to one that fits the others.
LEMMA ApplyInvStatus ==
    ASSUME CallInv, ApplyInv, NEW k \in Caller, call[k].at \in AtFile,
           NEW r, call' = [call EXCEPT ![k] = r], r.at = "idle" \/ r.cs = call[k].cs,
           NEW st \in ChangesetStatus, SetStatus(k, st), StatusFits(r.at, st),
           \A j \in Caller : j # k /\ call[j].cs = call[k].cs =>
               call[j].at \in {"idle", "gitStatus"}
               \/ (call[j].at \in UndoAt /\ st \in {"APPLIED", "ROLLED_BACK"}),
           \A d \in Cs : d # call[k].cs => applied'[d] = applied[d],
           AppliedFits(applied'[call[k].cs], st)
    PROVE  ApplyInv'
<1> DEFINE c == call[k].cs
<1>1. c \in Cs /\ call'[k] = r /\ \A j \in Caller : j # k => call'[j] = call[j]
  BY CallInvCalls DEF CallInv, CsTypeOK
<1>2. cset[c].status \notin {"NONE", "LOST"}
  BY DEF CallInv
<1>3. cset'[c].status = st /\ \A d \in Cs : d # c => cset'[d] = cset[d]
  BY <1>1, <1>2, CsetStatusTyped DEF SetStatus
<1>4. StatusFits(r.at, cset'[r.cs].status)
  BY <1>3 DEF StatusFits, BusyAt, UndoAt
<1>5. \A j \in Caller : j # k /\ call[j].cs = c => StatusFits(call[j].at, cset'[c].status)
  BY <1>3 DEF StatusFits, BusyAt, UndoAt
<1>6. \A j \in Caller : j # k /\ r.at \in OwnAt /\ call[j].at \in OwnAt => call[j].cs # r.cs
  BY DEF OwnAt, BusyAt, UndoAt
<1> QED BY <1>1, <1>3, <1>4, <1>5, <1>6, ApplyInvFrom

\* The call that owns a changeset decides what becomes of it.
LEMMA OwnerSetsStatus ==
    ASSUME CallInv, ApplyInv, NEW k \in Caller, call[k].at \in BusyAt,
           NEW r, call' = [call EXCEPT ![k] = r],
           NEW st \in ChangesetStatus, SetStatus(k, st),
           r.at = "idle" \/ (r.at = "restoring" /\ r.cs = call[k].cs /\ st = "CONFLICT"),
           \A d \in Cs : d # call[k].cs => applied'[d] = applied[d],
           AppliedFits(applied'[call[k].cs], st)
    PROVE  ApplyInv'
<1>1. call[k].at \in AtFile /\ call[k].at \in OwnAt
  BY DEF AtFile, BusyAt, OwnAt
<1>2. StatusFits(r.at, st)
  BY DEF StatusFits, BusyAt, UndoAt
<1>3. \A j \in Caller : j # k /\ call[j].cs = call[k].cs => call[j].at \in {"idle", "gitStatus"}
  BY <1>1, Alone
<1> QED BY <1>1, <1>2, <1>3, ApplyInvStatus

\* Nobody counted a changeset as applied while a call owns it.
LEMMA OwnerNotApplied ==
    ASSUME CallInv, ApplyInv, NEW k \in Caller, call[k].at \in OwnAt
    PROVE  applied[call[k].cs] = 0
  BY CallInvCalls DEF ApplyInv, AppliedFits, StatusFits, OwnAt, BusyAt

\* apply turns back: it still owns the changeset while it restores.
LEMMA RestoreUptoOwns ==
    ASSUME CallInv, ApplyInv, NEW k \in Caller, call[k].at \in BusyAt,
           NEW m \in Nat, m <= Len(FilesOf[call[k].cs]), RestoreUpto(k, m), applied' = applied,
           cset' = cset \/ SetStatus(k, "CONFLICT")
    PROVE  ApplyInv'
<1> DEFINE r == [call[k] EXCEPT !.at = "restoring", !.n = 1, !.upto = m]
<1>1. r.at = "restoring" /\ r.cs = call[k].cs
  BY RestoreOK
<1>2. call' = [call EXCEPT ![k] = r]
  BY DEF RestoreUpto
<1> HIDE DEF r
<1>3. CASE cset' = cset
  <2>1. r.at \in BusyAt
    BY <1>1 DEF BusyAt
  <2> QED BY <1>1, <1>2, <1>3, <2>1, ApplyInvMove
<1>4. CASE SetStatus(k, "CONFLICT")
  <2>1. applied[call[k].cs] = 0
    BY OwnerNotApplied DEF OwnAt
  <2>2. "CONFLICT" \in ChangesetStatus /\ AppliedFits(applied'[call[k].cs], "CONFLICT")
    BY <2>1 DEF ChangesetStatus, AppliedFits
  <2> QED BY <1>1, <1>2, <1>4, <2>2, OwnerSetsStatus
<1> QED BY <1>3, <1>4

\* A call that returns owns nothing any more.
LEMMA ReturnOwns ==
    ASSUME CallInv, ApplyInv, NEW k \in Caller, Return(k), applied' = applied, cset' = cset
    PROVE  ApplyInv'
  BY NoCallTyped, ApplyInvMove DEF Return

\* A call that moves on keeps what it owns.
LEMMA GotoOwns ==
    ASSUME CallInv, ApplyInv, NEW k \in Caller, cset' = cset, applied' = applied,
           NEW at \in {"writing", "verifying", "unwriting"}, Goto(k, at),
           \/ call[k].at \in BusyAt /\ call[k].at # "restoring" /\ at \in BusyAt
           \/ call[k].at \in UndoAt /\ at \in UndoAt
    PROVE  ApplyInv'
<1> DEFINE r == [call[k] EXCEPT !.at = at]
<1>1. call[k].n <= Len(FilesOf[call[k].cs])
  BY CallInvCalls DEF CallOK, UndoAt
<1>2. r.at = at /\ r.cs = call[k].cs
  BY <1>1, GotoOK
<1>3. call' = [call EXCEPT ![k] = r]
  BY DEF Goto
<1> HIDE DEF r
<1> QED BY <1>2, <1>3, ApplyInvMove

\* A rollback that leaves a file behind it owns its changeset until the last.
LEMMA UnrolledOwns ==
    ASSUME CallInv, ApplyInv, NEW k \in Caller, call[k].at \in UndoAt,
           NEW b \in BOOLEAN, Unrolled(k, b), applied' = applied
    PROVE  ApplyInv'
<1>0. call[k].at \in AtFile
  BY DEF AtFile, UndoAt
<1>1. CASE ~Last(k)
  <2> DEFINE r == [call[k] EXCEPT !.at = "unreading", !.n = call[k].n + 1, !.blocked = b]
  <2>1. call[k].n < Len(FilesOf[call[k].cs])
    BY <1>1, CallInvCalls, FilesLength DEF Last, CallOK, UndoAt
  <2>2. r.at = "unreading" /\ r.cs = call[k].cs
    BY <2>1, UnrollOK
  <2>3. call' = [call EXCEPT ![k] = r] /\ cset' = cset
    BY <1>1 DEF Unrolled
  <2> HIDE DEF r
  <2>4. r.at \in UndoAt
    BY <2>2 DEF UndoAt
  <2> QED BY <2>2, <2>3, <2>4, ApplyInvMove
<1>2. CASE Last(k)
  <2>1. Return(k) /\ (cset' = cset \/ SetStatus(k, "ROLLED_BACK"))
    BY <1>2 DEF Unrolled
  <2>2. CASE cset' = cset
    BY <2>1, <2>2, ReturnOwns
  <2>3. CASE SetStatus(k, "ROLLED_BACK")
    <3> DEFINE c == call[k].cs
    <3>1. c \in Cs /\ cset[c].status \in {"APPLIED", "ROLLED_BACK"}
      BY CallInvCalls DEF ApplyInv, StatusFits
    <3>2. \A j \in Caller : j # k /\ call[j].cs = c =>
             call[j].at \in {"idle", "gitStatus"} \/ call[j].at \in UndoAt
      <4>1. \A j \in Caller : StatusFits(call[j].at, cset[call[j].cs].status) /\ call[j] \in Call
        BY CallInvCalls DEF ApplyInv, CallOK
      <4> QED BY <3>1, <4>1 DEF StatusFits, BusyAt, UndoAt, Call
    <3>3. AppliedFits(applied'[c], "ROLLED_BACK")
      BY <3>1 DEF ApplyInv, AppliedFits
    <3>4. "ROLLED_BACK" \in ChangesetStatus /\ StatusFits(NoCall.at, "ROLLED_BACK")
      BY NoCallTyped DEF ChangesetStatus, StatusFits, BusyAt, UndoAt
    <3>5. call' = [call EXCEPT ![k] = NoCall]
      BY <2>1 DEF Return
    <3> QED BY <1>0, <2>3, <3>2, <3>3, <3>4, <3>5, NoCallTyped, ApplyInvStatus
  <2> QED BY <2>1, <2>2, <2>3
<1> QED BY <1>1, <1>2

\* Every step of a call keeps one owner for each changeset.
LEMMA CallStepOwns ==
    ASSUME CallInv, ApplyInv, NEW k \in Caller, CallStep(k)
    PROVE  ApplyInv'
<1> DEFINE c == call[k].cs
<1>1. /\ call[k] \in Call /\ c \in Cs /\ call[k].n \in Nat /\ call[k].n >= 1
      /\ Len(FilesOf[c]) \in Nat /\ call[k].blocked \in BOOLEAN
      /\ call[k].at # "restoring" => call[k].n <= Len(FilesOf[c])
  BY CallInvCalls, FilesLength DEF CallOK, Call
<1>2. call[k].n - 1 \in Nat /\ (call[k].at # "restoring" => call[k].n - 1 <= Len(FilesOf[c]))
  BY <1>1
<1>3. NoCall.at = "idle"
  BY NoCallTyped
<1>4. CASE ProposeRead(k)
  <2>1. call[k].at = "proposing" /\ call[k].at \in OwnAt /\ applied' = applied
    BY <1>4 DEF ProposeRead, Uncounted, OwnAt
  <2>2. CASE Return(k) /\ cset' = cset
    BY <2>1, <2>2, ReturnOwns
  <2>3. ASSUME cset' = cset,
               call' = [call EXCEPT ![k] = [@ EXCEPT !.n = call[k].n + 1,
                          !.seen = Append(call[k].seen, disk[TheFile(k)])]]
        PROVE  ApplyInv'
    <3> DEFINE r == [call[k] EXCEPT !.n = call[k].n + 1,
                                    !.seen = Append(call[k].seen, disk[TheFile(k)])]
    <3>1. r.at = "proposing" /\ r.cs = c
      BY <1>1, <2>1 DEF Call
    <3>2. call' = [call EXCEPT ![k] = r]
      BY <2>3
    <3> HIDE DEF r
    <3> QED BY <2>1, <2>3, <3>1, <3>2, ApplyInvMove
  <2>4. ASSUME Return(k), NEW exact \in BOOLEAN,
               cset' = [cset EXCEPT ![c] =
                           [status |-> "PROPOSED", exact |-> exact,
                            before |-> Append(call[k].seen, disk[TheFile(k)])]]
        PROVE  ApplyInv'
    <3>1. cset \in [Cs -> Changeset] /\ call \in [Caller -> Call]
      BY DEF CallInv, CsTypeOK
    <3>2. cset'[c].status = "PROPOSED" /\ \A d \in Cs : d # c => cset'[d] = cset[d]
      BY <1>1, <2>4, <3>1
    <3>3. call'[k] = NoCall /\ \A j \in Caller : j # k => call'[j] = call[j]
      BY <2>4, <3>1 DEF Return
    <3>4. \A j \in Caller : j # k /\ call[j].cs = c => call[j].at \in {"idle", "gitStatus"}
      BY <2>1, Alone
    <3>5. \A j \in Caller : j # k /\ call[j].cs = c => StatusFits(call[j].at, cset'[c].status)
      BY <3>4 DEF StatusFits, BusyAt, UndoAt
    <3>6. StatusFits(call'[k].at, cset'[call'[k].cs].status) /\ call'[k].at \notin OwnAt
      BY <1>3, <3>3 DEF StatusFits, BusyAt, UndoAt, OwnAt
    <3>7. AppliedFits(applied'[c], cset'[c].status)
      BY <2>1, OwnerNotApplied DEF AppliedFits
    <3> QED BY <1>1, <2>1, <3>2, <3>3, <3>5, <3>6, <3>7, ApplyInvFrom
  <2> QED BY <1>4, <2>2, <2>3, <2>4 DEF ProposeRead
<1>5. CASE ApplyStart(k)
  <2>1. /\ call[k].at = "gitStatus" /\ call[k].at \in AtFile /\ applied' = applied
    BY <1>5 DEF ApplyStart, AtFile
  <2>2. CASE ~MayApply(cset[c].status)
    BY <1>5, <2>1, <2>2, ReturnOwns DEF ApplyStart
  <2>3. CASE MayApply(cset[c].status)
    <3> DEFINE r == [call[k] EXCEPT !.at = "reading"]
    <3>1. r.at = "reading" /\ r.cs = c
      BY <1>1, <2>1, GotoOK
    <3>2. call' = [call EXCEPT ![k] = r] /\ SetStatus(k, "APPLYING")
      BY <1>5, <2>3 DEF ApplyStart, Goto
    <3> HIDE DEF r
    <3>3. \A j \in Caller : j # k /\ call[j].cs = c => call[j].at \in {"idle", "gitStatus"}
      <4>1. \A j \in Caller : StatusFits(call[j].at, cset[call[j].cs].status) /\ call[j] \in Call
        BY CallInvCalls DEF ApplyInv, CallOK
      <4> QED BY <2>3, <4>1 DEF MayApply, StatusFits, BusyAt, UndoAt, Call
    <3>4. AppliedFits(applied'[c], "APPLYING")
      BY <1>1, <2>1, <2>3 DEF ApplyInv, AppliedFits, MayApply
    <3>5. "APPLYING" \in ChangesetStatus /\ StatusFits(r.at, "APPLYING")
      BY <3>1 DEF ChangesetStatus, StatusFits, BusyAt, UndoAt
    <3> QED BY <2>1, <3>1, <3>2, <3>3, <3>4, <3>5, ApplyInvStatus
  <2> QED BY <2>2, <2>3
<1>6. CASE ApplyRead(k)
  <2>1. call[k].at = "reading" /\ call[k].at \in BusyAt /\ applied' = applied /\ "writing" \in BusyAt
    BY <1>6 DEF ApplyRead, Uncounted, BusyAt
  <2>2. \/ Goto(k, "writing") /\ cset' = cset
        \/ RestoreUpto(k, call[k].n - 1) /\ (cset' = cset \/ SetStatus(k, "CONFLICT"))
    BY <1>6 DEF ApplyRead
  <2>3. CASE Goto(k, "writing") /\ cset' = cset
    BY <2>1, <2>3, GotoOwns
  <2>4. CASE RestoreUpto(k, call[k].n - 1) /\ (cset' = cset \/ SetStatus(k, "CONFLICT"))
    BY <1>2, <2>1, <2>4, RestoreUptoOwns
  <2> QED BY <2>2, <2>3, <2>4
<1>7. CASE ApplyWrite(k)
  <2>1. /\ call[k].at = "writing" /\ call[k].at \in BusyAt /\ "verifying" \in BusyAt
        /\ applied' = applied /\ cset' = cset
    BY <1>7 DEF ApplyWrite, Uncounted, BusyAt
  <2>2. CASE Goto(k, "verifying")
    BY <2>1, <2>2, GotoOwns
  <2>3. CASE RestoreUpto(k, call[k].n)
    BY <1>1, <2>1, <2>3, RestoreUptoOwns
  <2> QED BY <1>7, <2>2, <2>3 DEF ApplyWrite
<1>8. CASE ApplyVerify(k)
  <2>1. call[k].at = "verifying" /\ call[k].at \in BusyAt
    BY <1>8 DEF ApplyVerify, BusyAt
  <2>2. CASE ~Last(k) /\ NextFile(k, "reading") /\ cset' = cset /\ applied' = applied
    <3> DEFINE r == [call[k] EXCEPT !.at = "reading", !.n = call[k].n + 1]
    <3>1. call[k].n < Len(FilesOf[c])
      BY <1>1, <2>1, <2>2 DEF Last
    <3>2. r.at = "reading" /\ r.cs = c
      BY <3>1, NextFileOK
    <3>3. call' = [call EXCEPT ![k] = r]
      BY <2>2 DEF NextFile
    <3> HIDE DEF r
    <3>4. r.at \in BusyAt
      BY <3>2 DEF BusyAt
    <3> QED BY <2>1, <2>2, <3>2, <3>3, <3>4, ApplyInvMove
  <2>3. CASE /\ SetStatus(k, "APPLIED") /\ Return(k)
             /\ applied' = [applied EXCEPT ![c] = @ + 1]
    <3>1. applied \in [Cs -> Nat] /\ applied[c] = 0
      BY <2>1, DiskTyped, OwnerNotApplied DEF OwnAt
    <3>2. applied'[c] = 1 /\ \A d \in Cs : d # c => applied'[d] = applied[d]
      BY <1>1, <2>3, <3>1
    <3>3. "APPLIED" \in ChangesetStatus /\ AppliedFits(applied'[c], "APPLIED")
      BY <3>2 DEF ChangesetStatus, AppliedFits
    <3>4. call' = [call EXCEPT ![k] = NoCall]
      BY <2>3 DEF Return
    <3> QED BY <1>3, <2>1, <2>3, <3>2, <3>3, <3>4, OwnerSetsStatus
  <2>4. CASE RestoreUpto(k, call[k].n) /\ cset' = cset /\ applied' = applied
    BY <1>1, <2>1, <2>4, RestoreUptoOwns
  <2> QED BY <1>8, <2>2, <2>3, <2>4 DEF ApplyVerify
<1>9. CASE Restore(k)
  <2>1. /\ call[k].at = "restoring" /\ call[k].at \in BusyAt
        /\ applied' = applied /\ cset' = cset
        /\ call[k].n <= call[k].upto /\ NextFile(k, "restoring")
    BY <1>9 DEF Restore, Uncounted, BusyAt
  <2> DEFINE r == [call[k] EXCEPT !.at = "restoring", !.n = call[k].n + 1]
  <2>2. r.at = "restoring" /\ r.cs = c
    BY <2>1, NextFileOK
  <2>3. call' = [call EXCEPT ![k] = r]
    BY <2>1 DEF NextFile
  <2> HIDE DEF r
  <2>4. r.at \in BusyAt
    BY <2>2 DEF BusyAt
  <2> QED BY <2>1, <2>2, <2>3, <2>4, ApplyInvMove
<1>10. CASE RestoreDone(k)
  <2>1. call[k].at = "restoring" /\ call[k].at \in BusyAt /\ applied' = applied /\ Return(k)
    BY <1>10 DEF RestoreDone, Uncounted, BusyAt
  <2>2. CASE cset' = cset
    BY <2>1, <2>2, ReturnOwns
  <2>3. CASE SetStatus(k, "FAILED")
    <3>1. applied[c] = 0
      BY <2>1, OwnerNotApplied DEF OwnAt
    <3>2. "FAILED" \in ChangesetStatus /\ AppliedFits(applied'[c], "FAILED")
      BY <2>1, <3>1 DEF ChangesetStatus, AppliedFits
    <3>3. call' = [call EXCEPT ![k] = NoCall]
      BY <2>1 DEF Return
    <3> QED BY <1>3, <2>1, <2>3, <3>2, <3>3, OwnerSetsStatus
  <2> QED BY <1>10, <2>2, <2>3 DEF RestoreDone
<1>11. CASE RollbackRead(k)
  <2>1. call[k].at \in UndoAt /\ "unwriting" \in UndoAt /\ applied' = applied
    BY <1>11 DEF RollbackRead, Uncounted, UndoAt
  <2>2. CASE Unrolled(k, TRUE) \/ Unrolled(k, call[k].blocked)
    BY <1>1, <2>1, <2>2, UnrolledOwns
  <2>3. CASE Goto(k, "unwriting") /\ cset' = cset
    BY <2>1, <2>3, GotoOwns
  <2>4. CASE Return(k) /\ cset' = cset
    BY <2>1, <2>4, ReturnOwns
  <2> QED BY <1>11, <2>2, <2>3, <2>4 DEF RollbackRead
<1>12. CASE RollbackWrite(k)
  <2>1. call[k].at \in UndoAt /\ applied' = applied
    BY <1>12 DEF RollbackWrite, Uncounted, UndoAt
  <2>2. CASE Unrolled(k, call[k].blocked)
    BY <1>1, <2>1, <2>2, UnrolledOwns
  <2>3. CASE Return(k) /\ cset' = cset
    BY <2>1, <2>3, ReturnOwns
  <2> QED BY <1>12, <2>2, <2>3 DEF RollbackWrite
<1> QED BY <1>4, <1>5, <1>6, <1>7, <1>8, <1>9, <1>10, <1>11, <1>12 DEF CallStep

-----------------------------------------------------------------------------
(* The whole system.                                                       *)

Inv == ApprInv /\ MapInv /\ CallInv /\ PassInv /\ ApplyInv

\* The invariant holds at first.
LEMMA InvInit == Init => Inv
<1> SUFFICES ASSUME Init PROVE Inv
  OBVIOUS
<1>1. ApprInv /\ MapInv
  BY DEF Init, ApprInit, ApprInv, MapInv, SingleUse
<1>2. /\ call \in [Caller -> Call]
      /\ \A k \in Caller : call[k].at = "idle" /\ CallOK(call[k])
  BY NoCallTyped, NoCallOK DEF Init
<1>3. cset \in [Cs -> Changeset] /\ \A c \in Cs : cset[c].status = "NONE"
  <2>1. NoChangeset \in Changeset /\ NoChangeset.status = "NONE"
    BY DEF NoChangeset, Changeset
  <2> QED BY <2>1 DEF Init
<1>4. disk \in [File -> Content]
  <2>1. [text |-> 1, changes |-> <<>>] \in Content
    BY ChangesetsAssumption DEF Content
  <2> QED BY <2>1 DEF Init
<1>5. /\ edits \in 0..MaxEdits /\ crashes \in 0..MaxCrashes /\ spoiled \in BOOLEAN
      /\ passes \in [Cs -> Seq(Id)] /\ applied \in [Cs -> Nat]
  <2>1. edits \in 0..MaxEdits /\ crashes \in 0..MaxCrashes
    BY ChangesetsAssumption DEF Init
  <2>2. spoiled \in BOOLEAN
    BY DEF Init
  <2>3. passes \in [Cs -> Seq(Id)] /\ applied \in [Cs -> Nat]
    <3>1. <<>> \in Seq(Id) /\ 0 \in Nat
      OBVIOUS
    <3> QED BY <3>1 DEF Init
  <2> QED BY <2>1, <2>2, <2>3
<1>6. CallInv
  BY <1>2, <1>3, <1>4, <1>5 DEF CallInv, CsTypeOK, CallOK, AtFile
<1>7. \A c \in Cs : passes[c] = <<>> /\ applied[c] = 0
  BY DEF Init
<1>8. PassInv
  BY <1>2, <1>7, ChangesetsAssumption DEF PassInv, Paid, EveryPassApproved
<1>9. ApplyInv
  BY <1>2, <1>7 DEF ApplyInv, StatusFits, AppliedFits, BusyAt, UndoAt, OwnAt
<1> QED BY <1>1, <1>6, <1>8, <1>9 DEF Inv

\* Steps that touch neither requests nor changesets.
LEMMA ElsewhereKeeps ==
    ASSUME CallInv, PassInv, ApplyInv, ApprGrows,
           cset' = cset, call' = call, crashes' = crashes, passes' = passes,
           applied' = applied, spoiled' = spoiled, disk' \in [File -> Content],
           edits' \in 0..MaxEdits
    PROVE  CallInv' /\ PassInv' /\ ApplyInv'
<1>1. CallInv'
  BY DEF CallInv, CsTypeOK
<1>2. PassInv'
  BY KeepsPassInv DEF Paid
<1>3. ApplyInv'
  BY DEF ApplyInv
<1> QED BY <1>1, <1>2, <1>3

\* A restart ends the calls and loses the changesets.
LEMMA CrashKeeps ==
    ASSUME CallInv, PassInv, ApplyInv, Crash
    PROVE  CallInv' /\ PassInv' /\ ApplyInv'
<1>1. /\ crashes < MaxCrashes /\ crashes' = crashes + 1 /\ disk' = disk /\ edits' = edits
      /\ passes' = passes /\ applied' = applied /\ spoiled' = spoiled
      /\ granted' = granted /\ used' = used
      /\ call' = [k \in Caller |-> NoCall]
  BY DEF Crash, Forget
<1>2. /\ call' \in [Caller -> Call]
      /\ \A k \in Caller : call'[k].at = "idle" /\ CallOK(call'[k])
  BY <1>1, NoCallTyped, NoCallOK
<1>3. cset' = [c \in Cs |-> IF cset[c].status = "NONE" THEN cset[c]
                             ELSE [NoChangeset EXCEPT !.status = "LOST"]]
  BY DEF Crash
<1>4. /\ [NoChangeset EXCEPT !.status = "LOST"] \in Changeset
      /\ [NoChangeset EXCEPT !.status = "LOST"].status = "LOST"
  <2>1. NoChangeset \in Changeset
    BY DEF NoChangeset, Changeset
  <2> QED BY <2>1 DEF Changeset
<1>5. /\ cset' \in [Cs -> Changeset]
      /\ \A c \in Cs : cset'[c].status = IF cset[c].status = "NONE" THEN "NONE" ELSE "LOST"
  BY <1>3, <1>4 DEF CallInv, CsTypeOK
<1>6. CallInv'
  <2>1. /\ crashes' \in 0..MaxCrashes /\ edits' \in 0..MaxEdits /\ spoiled' \in BOOLEAN
        /\ disk' \in [File -> Content] /\ passes' \in [Cs -> Seq(Id)]
        /\ applied' \in [Cs -> Nat]
    BY <1>1, ChangesetsAssumption DEF CallInv, CsTypeOK
  <2> QED BY <1>2, <1>5, <2>1 DEF CallInv, CsTypeOK, CallOK, AtFile
<1>7. PassInv'
  <2>1. ApprGrows
    BY <1>1 DEF ApprGrows
  <2>2. \A k \in Caller : ~Paid(k)'
    BY <1>2 DEF Paid
  <2> QED BY <1>1, <2>1, <2>2, KeepsPassInv
<1>8. ApplyInv'
  <2>1. \A c \in Cs : AppliedFits(applied'[c], cset'[c].status)
    BY <1>1, <1>5 DEF ApplyInv, AppliedFits
  <2> QED BY <1>2, <2>1 DEF ApplyInv, StatusFits, BusyAt, UndoAt, OwnAt
<1> QED BY <1>6, <1>7, <1>8

\* Every step of the system keeps the invariant.
LEMMA InvNext == Inv /\ [Next]_vars => Inv'
<1> SUFFICES ASSUME Inv, [Next]_vars PROVE Inv'
  OBVIOUS
<1> USE DEF Inv
<1>0. edits \in 0..MaxEdits
  BY DEF CallInv, CsTypeOK
<1>1. ASSUME UNCHANGED apprVars PROVE ApprInv' /\ MapInv' /\ ApprGrows
  <2>1. ApprInv'
    BY <1>1 DEF ApprInv, SingleUse, apprVars
  <2> QED BY <1>1, <2>1, MapStep, StillGrows
<1>2. ASSUME NEW k \in Caller, NEW c \in Cs, Propose(k, c) PROVE Inv'
  <2> DEFINE r == [NoCall EXCEPT !.at = "proposing", !.cs = c]
  <2>1. r.at = "proposing" /\ r.cs = c
    BY BeginOK
  <2>2. /\ call' = [call EXCEPT ![k] = r] /\ UNCHANGED apprVars /\ cset' = cset
        /\ applied' = applied /\ passes' = passes /\ cset[c].status = "NONE"
        /\ \A j \in Caller : Idle(j) \/ call[j].cs # c
    BY <1>2 DEF Propose, Begin, Uncounted, Quiet
  <2> HIDE DEF r
  <2>3. ApplyInv'
    BY <2>1, <2>2, ApplyInvMove
  <2>4. \A j \in Caller : Paid(j)' => Paid(j) /\ call'[j] = call[j]
    BY <2>1, <2>2 DEF Paid, CallInv, CsTypeOK
  <2> QED BY <1>1, <1>2, <2>2, <2>3, <2>4, ProposeTyped, KeepsPassInv
<1>3. ASSUME NEW k \in Caller, NEW c \in Cs, Rollback(k, c) PROVE Inv'
  <2> DEFINE r == [NoCall EXCEPT !.at = "unreading", !.cs = c]
  <2>1. r.at = "unreading" /\ r.cs = c
    BY BeginOK
  <2>2. /\ call' = [call EXCEPT ![k] = r] /\ UNCHANGED apprVars /\ cset' = cset
        /\ applied' = applied /\ passes' = passes /\ cset[c].status = "APPLIED"
    BY <1>3 DEF Rollback, Begin, Uncounted, Quiet
  <2> HIDE DEF r
  <2>3. ApplyInv'
    BY <2>1, <2>2, ApplyInvMove
  <2>4. \A j \in Caller : Paid(j)' => Paid(j) /\ call'[j] = call[j]
    BY <2>1, <2>2 DEF Paid, CallInv, CsTypeOK
  <2> QED BY <1>1, <1>3, <2>2, <2>3, <2>4, RollbackTyped, KeepsPassInv
<1>4. ASSUME NEW k \in Caller, NEW c \in Cs, Apply(k, c) PROVE Inv'
  <2>1. ApplyInv'
    <3>1. cset' = cset /\ applied' = applied
      BY <1>4 DEF Apply
    <3>2. CASE Begin(k, c, "gitStatus")
      <4> DEFINE r == [NoCall EXCEPT !.at = "gitStatus", !.cs = c]
      <4>1. r.at = "gitStatus"
        BY BeginOK
      <4>2. call' = [call EXCEPT ![k] = r]
        BY <3>2 DEF Begin
      <4> HIDE DEF r
      <4> QED BY <3>1, <4>1, <4>2, ApplyInvMove
    <3>3. ASSUME NEW i \in Id, BeginWith(k, c, i) PROVE ApplyInv'
      <4> DEFINE r == [NoCall EXCEPT !.at = "gitStatus", !.cs = c, !.id = i]
      <4>1. r.at = "gitStatus"
        BY BeginWithOK
      <4>2. call' = [call EXCEPT ![k] = r]
        BY <3>3 DEF BeginWith
      <4> HIDE DEF r
      <4> QED BY <3>1, <4>1, <4>2, ApplyInvMove
    <3> QED BY <1>4, <3>2, <3>3 DEF Apply
  <2>2. MapInv'
    <3>1. UNCHANGED apprVars \/ \E i \in Id : Consume(i, ActionOf[c])
      BY <1>4 DEF Apply
    <3>2. ActionOf[c] \in Action
      BY ChangesetsAssumption
    <3> QED BY <3>1, <3>2, MapStep DEF ApprStep
  <2> QED BY <1>4, <2>1, <2>2, ApplyTyped, ApplyPays
<1>5. ASSUME NEW k \in Caller, CallStep(k) PROVE Inv'
  <2>1. UNCHANGED apprVars /\ CallInv' /\ ApplyInv'
    BY <1>5, CallShape, CallStepTyped, CallStepOwns
  <2>2. PassInv'
    <3>1. CASE ApplyStart(k)
      BY <3>1, ApplyStartSpends
    <3>2. CASE ~ApplyStart(k)
      <4>1. passes' = passes
        BY <1>5, <3>2
        DEF CallStep, ProposeRead, ApplyRead, ApplyWrite, ApplyVerify, Restore, RestoreDone,
            RollbackRead, RollbackWrite, Uncounted
      <4>2. \A j \in Caller : Paid(j)' => Paid(j) /\ call'[j] = call[j]
        BY <1>5, CallShape DEF Paid
      <4> QED BY <1>1, <2>1, <4>1, <4>2, KeepsPassInv
    <3> QED BY <3>1, <3>2
  <2> QED BY <1>1, <2>1, <2>2
<1>6. ASSUME ApprStep, UNCHANGED csVars PROVE Inv'
  <2>1. ApprInv' /\ ApprGrows /\ MapInv'
    BY <1>6, ApprStepKeeps, MapStep
  <2> QED BY <1>0, <1>6, <2>1, DiskTyped, ElsewhereKeeps DEF csVars
<1>7. ASSUME NEW c \in Cs, AskApproval(c) PROVE Inv'
  <2>1. ActionOf[c] \in Action
    BY ChangesetsAssumption
  <2>2. ApprStep /\ UNCHANGED csVars
    BY <1>7, <2>1 DEF AskApproval, ApprStep
  <2> QED BY <1>6, <2>2
<1>8. ASSUME NEW f \in File, NEW v \in 0..MaxVersion, UserEdit(f, v) PROVE Inv'
  <2>1. /\ UNCHANGED apprVars /\ cset' = cset /\ call' = call /\ crashes' = crashes
        /\ passes' = passes /\ applied' = applied /\ spoiled' = spoiled
        /\ edits < MaxEdits /\ edits' = edits + 1
        /\ disk' = [disk EXCEPT ![f] = [text |-> v, changes |-> <<>>]]
    BY <1>8 DEF UserEdit
  <2>2. [text |-> v, changes |-> <<>>] \in Content
    BY DEF Content
  <2>3. disk' \in [File -> Content]
    BY <2>1, <2>2, DiskTyped
  <2>4. edits' \in 0..MaxEdits
    BY <1>0, <2>1, ChangesetsAssumption
  <2> QED BY <1>1, <2>1, <2>3, <2>4, ElsewhereKeeps
<1>9. ASSUME Crash PROVE Inv'
  <2>1. Forget
    BY <1>9 DEF Crash
  <2> QED BY <1>9, <2>1, ForgetKeeps, MapStep, CrashKeeps
<1>10. ASSUME UNCHANGED vars PROVE Inv'
  BY <1>0, <1>1, <1>10, DiskTyped, ElsewhereKeeps DEF vars, csVars
<1> QED BY <1>2, <1>3, <1>4, <1>5, <1>6, <1>7, <1>8, <1>9, <1>10 DEF Next

\* So it holds always.
LEMMA InvAlways == Spec => []Inv
  BY InvInit, InvNext, PTL DEF Spec

\* Every variable of the approval store and of the changesets keeps its type,
\* and no request reads a file or an image beyond those of its changeset, for
\* any number of requests, files, changesets, edits and restarts (the loops of
\* propose, apply, _restore and rollback, changesets.js 84-251).
THEOREM TypeCorrect == Spec => []TypeOK
<1>1. Inv => TypeOK
  <2> SUFFICES ASSUME Inv PROVE TypeOK
    OBVIOUS
  <2>1. appr \in [DOMAIN appr -> Approval]
    BY DEF Inv, ApprInv, MapInv
  <2> QED BY <2>1 DEF Inv, ApprInv, MapInv, CallInv, TypeOK, ApprTypeOK
<1> QED BY <1>1, InvAlways, PTL

\* An approval lets at most one action pass, the one a user approved, whatever
\* the order of requests, decisions, expiry and restarts (approvals.js 110-224).
THEOREM ApprovalsSingleUse == Spec => []SingleUse
<1>1. Inv => SingleUse
  BY DEF Inv, ApprInv
<1> QED BY <1>1, InvAlways, PTL

\* No two passes of apply over gated changesets share an approval, and each has
\* one a user gave to that changeset (controller.js 472-497).
THEOREM PassesApproved == Spec => []EveryPassApproved
<1>1. Inv => EveryPassApproved
  BY DEF Inv, PassInv
<1> QED BY <1>1, InvAlways, PTL

\* The status a pass takes before its first await keeps every other pass out:
\* a changeset is applied at most once (changesets.js 166-171, 197).
THEOREM AppliedAtMostOnce == Spec => []AppliedOnce
<1>1. Inv => AppliedOnce
  BY DEF Inv, ApplyInv, AppliedFits, AppliedOnce
<1> QED BY <1>1, InvAlways, PTL

-----------------------------------------------------------------------------
(* All or nothing: where the edits of a changeset can be.                  *)

\* A changeset is in a file.
Dirty(x, c) == \E m \in 1..Len(disk[x].changes) : disk[x].changes[m] = c

\* Every file a changeset is in is one of its files number a to b.
DirtIn(c, a, b) ==
    \A x \in File : Dirty(x, c) =>
        \E m \in 1..Len(FilesOf[c]) : a <= m /\ m <= b /\ FilesOf[c][m] = x

Clean(c) == \A x \in File : ~Dirty(x, c)

\* A content is free of a changeset.
Free(x, c) == \A m \in 1..Len(x.changes) : x.changes[m] # c

\* What the status of a changeset says of the files.
StatusTrue(c) ==
    /\ DirtIn(c, 1, Len(FilesOf[c]))
    /\ cset[c].status \notin {"NONE", "LOST"} =>
         \A n \in 1..Len(cset[c].before) : Free(cset[c].before[n], c)
    /\ cset[c].status \notin {"APPLYING", "APPLIED", "CONFLICT", "LOST"} => Clean(c)
    /\ cset[c].status = "CONFLICT" =>
         Clean(c) \/ \E k \in Caller : call[k].at = "restoring" /\ call[k].cs = c

\* What the place of a request says of the files of its changeset.
PlaceTrue(k) ==
    LET c == call[k].cs  n == call[k].n IN
    /\ call[k].at = "proposing" => \A m \in 1..Len(call[k].seen) : Free(call[k].seen[m], c)
    /\ call[k].at \in {"reading", "writing"} => DirtIn(c, 1, n - 1)
    /\ call[k].at = "verifying" => DirtIn(c, 1, n)
    /\ call[k].at = "restoring" => DirtIn(c, n, call[k].upto)
    /\ call[k].at \in {"unreading", "unwriting"} /\ ~call[k].blocked
         => DirtIn(c, n, Len(FilesOf[c]))

CleanInv == ~spoiled => /\ \A c \in Cs : StatusTrue(c)
                        /\ \A k \in Caller : PlaceTrue(k)

\* A file is dirty for a changeset when the edit is in it.
LEMMA DirtyIsNotFree ==
    ASSUME NEW x \in File, NEW c \in Cs
    PROVE  Dirty(x, c) <=> ~Free(disk[x], c)
  BY DEF Dirty, Free

\* The edits of one changeset say nothing of another.
LEMMA FreeEdited ==
    ASSUME NEW x \in Content, NEW c \in Cs, NEW d \in Cs, d # c
    PROVE  Free(Edited(x, c), d) <=> Free(x, d)
<1>1. x.changes \in Seq(Cs) /\ Len(x.changes) \in Nat
  BY DEF Content
<1>2. /\ Edited(x, c).changes = Append(x.changes, c)
      /\ Len(Edited(x, c).changes) = Len(x.changes) + 1
      /\ Edited(x, c).changes[Len(x.changes) + 1] = c
      /\ \A m \in 1..Len(x.changes) : Edited(x, c).changes[m] = x.changes[m]
  BY <1>1 DEF Edited, Content
<1> QED BY <1>1, <1>2 DEF Free

\* No file gets edits of c it did not have.
Falls(c) == \A x \in File : Dirty(x, c)' => Dirty(x, c)

\* When no edit is put in, a bound on the dirty files stays one.
LEMMA DirtInFalls ==
    ASSUME NEW c, NEW a, NEW b, Falls(c), DirtIn(c, a, b)
    PROVE  DirtIn(c, a, b)'
  BY DEF Falls, DirtIn

\* And a clean changeset stays clean.
LEMMA CleanFalls ==
    ASSUME NEW c, Falls(c), Clean(c)
    PROVE  Clean(c)'
  BY DEF Falls, Clean

\* A bound on the dirty files may be widened.
LEMMA WiderDirt ==
    ASSUME NEW c \in Cs, NEW a \in Nat, NEW b \in Nat, NEW e \in Nat, b <= e, DirtIn(c, a, b)
    PROVE  DirtIn(c, a, e)
<1>1. Len(FilesOf[c]) \in Nat
  BY FilesLength
<1> QED BY <1>1 DEF DirtIn

\* A file that is clean after a step leaves the range of places.
LEMMA NarrowDirt ==
    ASSUME NEW c \in Cs, NEW n \in Nat, NEW b \in Nat, DirtIn(c, n, b)',
           n \in 1..Len(FilesOf[c]), ~Dirty(FilesOf[c][n], c)'
    PROVE  DirtIn(c, n + 1, b)'
<1>1. Len(FilesOf[c]) \in Nat
  BY FilesLength
<1>2. ASSUME NEW x \in File, Dirty(x, c)'
      PROVE  \E m \in 1..Len(FilesOf[c]) : n + 1 <= m /\ m <= b /\ FilesOf[c][m] = x
  <2>1. PICK m \in 1..Len(FilesOf[c]) : n <= m /\ m <= b /\ FilesOf[c][m] = x
    BY <1>2 DEF DirtIn
  <2>2. m # n
    BY <1>2, <2>1
  <2> QED BY <1>1, <2>1, <2>2
<1> QED BY <1>2 DEF DirtIn

\* An empty range of dirty files means that none is.
LEMMA NoDirtIsClean ==
    ASSUME NEW c \in Cs, NEW n \in Nat, NEW b \in Nat, DirtIn(c, n, b)', n > b
    PROVE  Clean(c)'
<1>1. Len(FilesOf[c]) \in Nat
  BY FilesLength
<1> QED BY <1>1 DEF DirtIn, Clean

\* A clean changeset has its dirty files in every range.
LEMMA CleanIsAnywhere ==
    ASSUME NEW c, NEW a, NEW b, Clean(c)
    PROVE  DirtIn(c, a, b)
  BY DEF DirtIn, Clean

\* What one write does: only the file at hand changes, and unless the write
\* hit an unseen content, other changesets stay where they were.
LEMMA PutDirt ==
    ASSUME CallInv, NEW k \in Caller, call[k].at \in AtFile,
           call[k].n <= Len(FilesOf[call[k].cs]),
           NEW x \in {Before(k), After(k)}, NEW seen, seen \subseteq {Before(k), After(k)},
           Put(k, x, seen), ~spoiled'
    PROVE  /\ ~spoiled /\ TheFile(k) \in File
           /\ disk'[TheFile(k)] = x
           /\ \A y \in File : y # TheFile(k) => disk'[y] = disk[y]
           /\ \A d \in Cs : d # call[k].cs => Falls(d)
<1>1. /\ TheFile(k) \in File /\ Before(k) \in Content /\ After(k) \in Content
      /\ call[k].cs \in Cs /\ disk \in [File -> Content]
  BY AtHand, CallInvCalls, DiskTyped
<1>2. ~spoiled /\ disk[TheFile(k)] \in {Before(k), After(k)}
  BY DEF Put
<1>3. disk'[TheFile(k)] = x /\ \A y \in File : y # TheFile(k) => disk'[y] = disk[y]
  BY <1>1 DEF Put
<1>4. ASSUME NEW d \in Cs, d # call[k].cs, NEW y \in File, Dirty(y, d)'
      PROVE  Dirty(y, d)
  <2>1. CASE y # TheFile(k)
    BY <1>3, <1>4, <2>1 DEF Dirty
  <2>2. CASE y = TheFile(k)
    <3>1. Free(After(k), d) <=> Free(Before(k), d)
      BY <1>1, <1>4, FreeEdited DEF After
    <3>2. ~Free(x, d)
      BY <1>3, <1>4, <2>2 DEF Dirty, Free
    <3>3. ~Free(disk[y], d)
      BY <1>2, <2>2, <3>1, <3>2
    <3> QED BY <1>4, <3>3, DirtyIsNotFree
  <2> QED BY <2>1, <2>2
<1> QED BY <1>1, <1>2, <1>3, <1>4 DEF Falls

\* A step that writes no file dirties none.
LEMMA NoWriteFalls == ASSUME NoWrite, NEW c PROVE Falls(c) /\ (~spoiled' => ~spoiled)
  BY DEF NoWrite, Falls, Dirty

\* A request that does not move keeps what its place says.
LEMMA PlaceStays ==
    ASSUME NEW j \in Caller, call'[j] = call[j], PlaceTrue(j), NEW c, c = call[j].cs,
           Falls(c) \/ call[j].at \in {"idle", "gitStatus"}
    PROVE  PlaceTrue(j)'
<1> DEFINE n == call[j].n
           up == call[j].upto
           l == Len(FilesOf[c])
<1>1. CASE call[j].at \in {"idle", "gitStatus"}
  BY <1>1 DEF PlaceTrue
<1>2. CASE Falls(c)
  <2>1. /\ call'[j].cs = c /\ call'[j].n = n /\ call'[j].upto = up
        /\ call'[j].at = call[j].at /\ call'[j].seen = call[j].seen
        /\ call'[j].blocked = call[j].blocked
    OBVIOUS
  <2>2. \A y \in File : (\E m \in 1..Len(disk'[y].changes) : disk'[y].changes[m] = c)
                        => Dirty(y, c)
    BY <1>2, <2>1 DEF Falls, Dirty
  <2> DEFINE In(a, b) == \A y \in File :
                 (\E m \in 1..Len(disk'[y].changes) : disk'[y].changes[m] = c) =>
                     \E m \in 1..l : a <= m /\ m <= b /\ FilesOf[c][m] = y
  <2>3. ASSUME NEW a, NEW b, DirtIn(c, a, b) PROVE In(a, b)
    BY <2>2, <2>3 DEF DirtIn
  <2>4. /\ DirtIn(c, 1, n - 1)' <=> In(1, n - 1)
        /\ DirtIn(c, 1, n)' <=> In(1, n)
        /\ DirtIn(c, n, up)' <=> In(n, up)
        /\ DirtIn(c, n, l)' <=> In(n, l)
    BY <2>1 DEF DirtIn, Dirty
  <2> HIDE DEF In
  <2>5. /\ DirtIn(c, 1, n - 1) => DirtIn(c, 1, n - 1)'
        /\ DirtIn(c, 1, n) => DirtIn(c, 1, n)'
        /\ DirtIn(c, n, up) => DirtIn(c, n, up)'
        /\ DirtIn(c, n, l) => DirtIn(c, n, l)'
    BY <2>3, <2>4
  <2> QED BY <2>1, <2>5 DEF PlaceTrue, Free
<1> QED BY <1>1, <1>2

\* A call that is idle or asks git promises nothing of the files.
LEMMA PlaceIdle ==
    ASSUME NEW k \in Caller, call'[k].at \in {"idle", "gitStatus"}
    PROVE  PlaceTrue(k)'
  BY DEF PlaceTrue

\* A request that moves: what its new place has to say.
LEMMA PlaceNext ==
    ASSUME NEW k \in Caller, NEW c, NEW n, NEW up,
           call'[k].cs = c, call'[k].n = n, call'[k].upto = up,
           call'[k].at = "proposing" =>
               \A m \in 1..Len(call'[k].seen) : Free(call'[k].seen[m], c),
           call'[k].at \in {"reading", "writing"} => DirtIn(c, 1, n - 1)',
           call'[k].at = "verifying" => DirtIn(c, 1, n)',
           call'[k].at = "restoring" => DirtIn(c, n, up)',
           call'[k].at \in {"unreading", "unwriting"} /\ ~call'[k].blocked
               => DirtIn(c, n, Len(FilesOf[c]))'
    PROVE  PlaceTrue(k)'
  BY DEF PlaceTrue, DirtIn, Dirty, Free

\* A changeset nobody touches keeps what its status says.
LEMMA StatusStays ==
    ASSUME NEW k \in Caller, NEW c \in Cs, StatusTrue(c), Falls(c), cset'[c] = cset[c],
           \A j \in Caller : j # k => call'[j] = call[j],
           call[k].at = "restoring" => call[k].cs # c
    PROVE  StatusTrue(c)'
<1>1. DirtIn(c, 1, Len(FilesOf[c]))'
  BY DirtInFalls DEF StatusTrue
<1>2. Clean(c) => Clean(c)'
  BY CleanFalls
<1>3. (\E j \in Caller : call[j].at = "restoring" /\ call[j].cs = c)
        => \E j \in Caller : call'[j].at = "restoring" /\ call'[j].cs = c
  OBVIOUS
<1> QED BY <1>1, <1>2, <1>3 DEF StatusTrue, Free

\* One request takes a step: enough to look at it and its changeset.
LEMMA CleanFrom ==
    ASSUME CallInv, CleanInv, NEW k \in Caller, ~spoiled,
           \A j \in Caller : j # k => call'[j] = call[j],
           \A d \in Cs : \/ Falls(d)
                         \/ \A j \in Caller : j # k /\ call[j].cs = d =>
                                call[j].at \in {"idle", "gitStatus"},
           \A d \in Cs : \/ StatusTrue(d)'
                         \/ /\ Falls(d) /\ cset'[d] = cset[d]
                            /\ call[k].at = "restoring" => call[k].cs # d,
           PlaceTrue(k)'
    PROVE  CleanInv'
<1>1. ASSUME NEW j \in Caller PROVE PlaceTrue(j)'
  <2>1. CASE j = k
    BY <2>1
  <2>2. CASE j # k
    <3>1. PICK d \in Cs : d = call[j].cs
      BY CallInvCalls
    <3>2. PlaceTrue(j) /\ call'[j] = call[j]
      BY <2>2 DEF CleanInv
    <3>3. Falls(d) \/ call[j].at \in {"idle", "gitStatus"}
      BY <2>2, <3>1
    <3> QED BY <3>1, <3>2, <3>3, PlaceStays
  <2> QED BY <2>1, <2>2
<1>2. ASSUME NEW d \in Cs PROVE StatusTrue(d)'
  <2>1. StatusTrue(d)
    BY DEF CleanInv
  <2> QED BY <2>1, StatusStays
<1> QED BY <1>1, <1>2 DEF CleanInv

\* A request that writes nothing and sets no status.
LEMMA CleanMove ==
    ASSUME CallInv, CleanInv, NEW k \in Caller, NEW r, call' = [call EXCEPT ![k] = r],
           NoWrite, cset' = cset, call[k].at # "restoring", ~spoiled',
           PlaceTrue(k)'
    PROVE  CleanInv'
<1>1. \A j \in Caller : j # k => call'[j] = call[j]
  BY DEF CallInv, CsTypeOK
<1>2. ~spoiled /\ \A d \in Cs : Falls(d)
  BY NoWriteFalls
<1> QED BY <1>1, <1>2, CleanFrom

\* A request sets the status of its own changeset.
LEMMA CleanStatus ==
    ASSUME CallInv, CleanInv, NEW k \in Caller, NEW r, call' = [call EXCEPT ![k] = r],
           ~spoiled, \A d \in Cs : Falls(d),
           NEW c \in Cs, c = call[k].cs, \A d \in Cs : d # c => cset'[d] = cset[d],
           StatusTrue(c)', PlaceTrue(k)'
    PROVE  CleanInv'
<1>1. \A j \in Caller : j # k => call'[j] = call[j]
  BY DEF CallInv, CsTypeOK
<1> QED BY <1>1, CleanFrom

\* The images of a changeset outlive a change of its status.
LEMMA ImagesStay ==
    ASSUME CallInv, NEW c \in Cs, StatusTrue(c), cset[c].status \notin {"NONE", "LOST"},
           NEW st, cset' = [cset EXCEPT ![c].status = st], DirtIn(c, 1, Len(FilesOf[c]))',
           st \notin {"APPLYING", "APPLIED", "CONFLICT"} => Clean(c)',
           st = "CONFLICT" =>
               Clean(c)' \/ \E k \in Caller : call'[k].at = "restoring" /\ call'[k].cs = c
    PROVE  StatusTrue(c)'
<1>1. cset[c] \in Changeset /\ cset \in [Cs -> Changeset]
  BY DEF CallInv, CsTypeOK
<1>2. cset'[c] = [cset[c] EXCEPT !.status = st]
  BY <1>1
<1>3. cset'[c].status = st /\ cset'[c].before = cset[c].before
  BY <1>1, <1>2 DEF Changeset
<1> QED BY <1>3 DEF StatusTrue, Free

\* The parts of a request at a file.
LEMMA PlaceParts ==
    ASSUME CallInv, NEW k \in Caller
    PROVE  /\ call[k] \in Call /\ call[k].cs \in Cs /\ call[k].n \in Nat /\ call[k].n >= 1
           /\ call[k].upto \in Nat /\ call[k].blocked \in BOOLEAN
           /\ call[k].seen \in Seq(Content)
           /\ Len(FilesOf[call[k].cs]) \in Nat /\ call[k].upto <= Len(FilesOf[call[k].cs])
           /\ call[k].at # "restoring" => call[k].n \in 1..Len(FilesOf[call[k].cs])
           /\ call[k].at \in AtFile => cset[call[k].cs].status \notin {"NONE", "LOST"}
<1>1. CallOK(call[k]) /\ call[k].cs \in Cs
  BY CallInvCalls
<1>2. call[k] \in Call /\ Len(FilesOf[call[k].cs]) \in Nat
  BY <1>1, FilesLength DEF CallOK
<1>3. call[k].at \in AtFile => cset[call[k].cs].status \notin {"NONE", "LOST"}
  BY DEF CallInv
<1> QED BY <1>1, <1>2, <1>3 DEF CallOK, Call

\* The parts of a request that moved.
LEMMA RecParts ==
    ASSUME NEW q \in Call, NEW a, NEW n, NEW u, NEW b
    PROVE  /\ LET r == [q EXCEPT !.at = a] IN
              r.at = a /\ r.cs = q.cs /\ r.n = q.n /\ r.upto = q.upto /\ r.blocked = q.blocked
           /\ LET r == [q EXCEPT !.at = a, !.n = n] IN
              r.at = a /\ r.cs = q.cs /\ r.n = n /\ r.upto = q.upto /\ r.blocked = q.blocked
           /\ LET r == [q EXCEPT !.at = a, !.n = n, !.upto = u] IN
              r.at = a /\ r.cs = q.cs /\ r.n = n /\ r.upto = u /\ r.blocked = q.blocked
           /\ LET r == [q EXCEPT !.at = a, !.n = n, !.blocked = b] IN
              r.at = a /\ r.cs = q.cs /\ r.n = n /\ r.upto = q.upto /\ r.blocked = b
  BY DEF Call

\* A step of one caller is a step of no other.
LEMMA Moved ==
    ASSUME CallInv, NEW k \in Caller, NEW r, call' = [call EXCEPT ![k] = r]
    PROVE  call'[k] = r /\ \A j \in Caller : j # k => call'[j] = call[j]
  BY DEF CallInv, CsTypeOK

\* A call returns without a write.
LEMMA ReturnClean ==
    ASSUME CallInv, CleanInv, NEW k \in Caller, Return(k), NoWrite, cset' = cset,
           call[k].at # "restoring", ~spoiled'
    PROVE  CleanInv'
<1>1. call' = [call EXCEPT ![k] = NoCall] /\ NoCall.at = "idle"
  BY NoCallTyped DEF Return
<1>2. PlaceTrue(k)'
  BY <1>1, Moved, PlaceIdle
<1> QED BY <1>1, <1>2, CleanMove

\* propose reads a file.
LEMMA ProposeReadClean ==
    ASSUME CallInv, ApplyInv, CleanInv, NEW k \in Caller, ProposeRead(k), ~spoiled'
    PROVE  CleanInv'
<1> DEFINE x == disk[TheFile(k)]
           q == call[k]
           s == Append(q.seen, x)
<1>0. PICK c \in Cs : c = q.cs
  BY PlaceParts
<1>1. q.at = "proposing" /\ NoWrite /\ disk' = disk
  BY DEF ProposeRead, Uncounted, NoWrite
<1>2. ~spoiled /\ \A d \in Cs : Falls(d)
  BY <1>1, NoWriteFalls
<1>3. cset[c].status = "NONE" /\ Clean(c) /\ DirtIn(c, 1, Len(FilesOf[c]))
      /\ \A m \in 1..Len(q.seen) : Free(q.seen[m], c)
  BY <1>0, <1>1, <1>2 DEF CleanInv, StatusTrue, PlaceTrue, ApplyInv, StatusFits
<1>4. TheFile(k) \in File /\ x \in Content
  BY <1>1, PlaceParts, FilesLength, DiskTyped DEF TheFile
<1>5. Free(x, c)
  BY <1>3, <1>4, DirtyIsNotFree DEF Clean
<1>6. \A m \in 1..Len(s) : Free(s[m], c)
  <2>1. q.seen \in Seq(Content) /\ Len(q.seen) \in Nat
    BY PlaceParts
  <2>2. /\ Len(s) = Len(q.seen) + 1 /\ s[Len(q.seen) + 1] = x
        /\ \A m \in 1..Len(q.seen) : s[m] = q.seen[m]
    BY <1>4, <2>1
  <2> QED BY <1>3, <1>5, <2>1, <2>2
<1>7. CASE Return(k) /\ cset' = cset
  BY <1>1, <1>7, ReturnClean
<1>8. ASSUME cset' = cset, call' = [call EXCEPT ![k] = [@ EXCEPT !.n = q.n + 1, !.seen = s]]
      PROVE  CleanInv'
  <2> DEFINE r == [q EXCEPT !.n = q.n + 1, !.seen = s]
  <2>1. call' = [call EXCEPT ![k] = r]
    BY <1>8
  <2>2. r.at = "proposing" /\ r.cs = c /\ r.seen = s
    BY <1>0, <1>1, PlaceParts DEF Call
  <2> HIDE DEF r
  <2>3. call'[k].at = "proposing" /\ call'[k].cs = c /\ call'[k].seen = s
    BY <2>1, <2>2, Moved
  <2>4. PlaceTrue(k)'
    BY <1>6, <2>3 DEF PlaceTrue, Free
  <2> QED BY <1>1, <1>8, <2>1, <2>4, CleanMove
<1>9. ASSUME Return(k), NEW exact \in BOOLEAN,
             cset' = [cset EXCEPT ![c] = [status |-> "PROPOSED", exact |-> exact, before |-> s]]
      PROVE  CleanInv'
  <2>1. cset \in [Cs -> Changeset]
    BY DEF CallInv, CsTypeOK
  <2>2. /\ cset'[c].status = "PROPOSED" /\ cset'[c].before = s
        /\ \A d \in Cs : d # c => cset'[d] = cset[d]
    BY <1>9, <2>1
  <2>3. Clean(c)' /\ DirtIn(c, 1, Len(FilesOf[c]))'
    BY <1>2, <1>3, CleanFalls, DirtInFalls
  <2> HIDE DEF s
  <2>4. StatusTrue(c)'
    BY <1>6, <2>2, <2>3 DEF StatusTrue, Free
  <2>5. call' = [call EXCEPT ![k] = NoCall] /\ NoCall.at = "idle"
    BY <1>9, NoCallTyped DEF Return
  <2>6. PlaceTrue(k)'
    BY <2>5, Moved, PlaceIdle
  <2> QED BY <1>0, <1>2, <2>2, <2>4, <2>5, <2>6, CleanStatus
<1> QED BY <1>0, <1>7, <1>8, <1>9 DEF ProposeRead

\* apply starts on a clean changeset.
LEMMA ApplyStartClean ==
    ASSUME CallInv, CleanInv, NEW k \in Caller, ApplyStart(k), ~spoiled'
    PROVE  CleanInv'
<1> DEFINE q == call[k]
<1>0. PICK c \in Cs : c = q.cs
  BY PlaceParts
<1>1. q.at = "gitStatus" /\ q.at \in AtFile /\ NoWrite
  BY DEF ApplyStart, AtFile
<1>2. ~spoiled /\ \A d \in Cs : Falls(d)
  BY <1>1, NoWriteFalls
<1>3. CASE ~MayApply(cset[c].status)
  BY <1>0, <1>1, <1>3, ReturnClean DEF ApplyStart
<1>4. CASE MayApply(cset[c].status)
  <2> DEFINE r == [q EXCEPT !.at = "reading"]
  <2>1. /\ call' = [call EXCEPT ![k] = r]
        /\ cset' = [cset EXCEPT ![c].status = "APPLYING"]
    BY <1>0, <1>4 DEF ApplyStart, Goto, SetStatus
  <2>2. PICK n : n = q.n
    OBVIOUS
  <2>3. r.at = "reading" /\ r.cs = c /\ r.n = n
    BY <1>0, <2>2, PlaceParts, RecParts
  <2> HIDE DEF r
  <2>4. StatusTrue(c)
    BY <1>2 DEF CleanInv
  <2>5. Clean(c) /\ Clean(c)'
    BY <1>2, <1>4, <2>4, CleanFalls DEF StatusTrue, MayApply
  <2>6. DirtIn(c, 1, Len(FilesOf[c]))' /\ DirtIn(c, 1, n - 1)'
    BY <2>5 DEF Clean, DirtIn
  <2>7. StatusTrue(c)'
    <3>1. cset[c].status \notin {"NONE", "LOST"}
      BY <1>0, <1>1, PlaceParts
    <3>2. "APPLYING" \in {"APPLYING", "APPLIED", "CONFLICT"} /\ "APPLYING" # "CONFLICT"
      OBVIOUS
    <3> QED BY <2>1, <2>4, <2>6, <3>1, <3>2, ImagesStay
  <2>8. call'[k] = r
    BY <2>1, Moved
  <2>9. PlaceTrue(k)'
    BY <2>3, <2>6, <2>8, PlaceNext
  <2>10. \A d \in Cs : d # c => cset'[d] = cset[d]
    BY <2>1 DEF CallInv, CsTypeOK
  <2> QED BY <1>0, <1>2, <2>1, <2>7, <2>9, <2>10, CleanStatus
<1> QED BY <1>3, <1>4

\* A pass goes on to restore the files it may have written.
LEMMA RestoreUptoClean ==
    ASSUME CallInv, CleanInv, NEW k \in Caller, call[k].at \in {"reading", "writing", "verifying"},
           NEW m \in Nat, RestoreUpto(k, m), NoWrite, ~spoiled',
           cset' = cset \/ SetStatus(k, "CONFLICT"), DirtIn(call[k].cs, 1, m)
    PROVE  CleanInv'
<1> DEFINE q == call[k]
           r == [q EXCEPT !.at = "restoring", !.n = 1, !.upto = m]
<1>0. PICK c \in Cs : c = q.cs
  BY PlaceParts
<1>1. ~spoiled /\ \A d \in Cs : Falls(d)
  BY NoWriteFalls
<1>2. call' = [call EXCEPT ![k] = r]
  BY DEF RestoreUpto
<1>3. r.at = "restoring" /\ r.cs = c /\ r.n = 1 /\ r.upto = m
  BY <1>0, PlaceParts, RecParts
<1> HIDE DEF r
<1>4. call'[k] = r
  BY <1>2, Moved
<1>5. DirtIn(c, 1, m)'
  BY <1>0, <1>1, DirtInFalls
<1>6. PlaceTrue(k)'
  BY <1>3, <1>4, <1>5, PlaceNext
<1>7. CASE cset' = cset
  BY <1>2, <1>6, <1>7, CleanMove
<1>8. CASE SetStatus(k, "CONFLICT")
  <2>1. cset' = [cset EXCEPT ![c].status = "CONFLICT"]
    BY <1>0, <1>8 DEF SetStatus
  <2>2. StatusTrue(c)
    BY <1>1 DEF CleanInv
  <2>3. DirtIn(c, 1, Len(FilesOf[c]))'
    BY <1>1, <2>2, DirtInFalls DEF StatusTrue
  <2>4. call'[k].at = "restoring" /\ call'[k].cs = c
    BY <1>3, <1>4
  <2>5. cset[c].status \notin {"NONE", "LOST"}
    BY <1>0, PlaceParts DEF AtFile
  <2>6. StatusTrue(c)'
    BY <2>1, <2>2, <2>3, <2>4, <2>5, ImagesStay
  <2>7. \A d \in Cs : d # c => cset'[d] = cset[d]
    BY <2>1 DEF CallInv, CsTypeOK
  <2> QED BY <1>0, <1>1, <1>2, <1>6, <2>6, <2>7, CleanStatus
<1> QED BY <1>7, <1>8

\* Writing a before-image takes the edits out of the file at hand.
LEMMA PutBefore ==
    ASSUME CallInv, CleanInv, NEW k \in Caller, call[k].at \in AtFile,
           call[k].n <= Len(FilesOf[call[k].cs]),
           NEW seen, seen \subseteq {Before(k), After(k)}, Put(k, Before(k), seen), ~spoiled',
           NEW c \in Cs, c = call[k].cs, NEW f, f = TheFile(k)
    PROVE  /\ ~spoiled /\ StatusTrue(c)
           /\ \A d \in Cs : Falls(d)
           /\ ~Dirty(f, c)'
<1>1. /\ ~spoiled /\ f \in File
      /\ disk'[f] = Before(k)
      /\ \A y \in File : y # f => disk'[y] = disk[y]
      /\ \A d \in Cs : d # c => Falls(d)
  BY PutDirt
<1>2. StatusTrue(c)
  BY <1>1 DEF CleanInv
<1>3. Free(Before(k), c)
  <2>1. cset[c].status \notin {"NONE", "LOST"} /\ call[k].n \in Nat /\ call[k].n >= 1
    BY PlaceParts
  <2>2. Len(cset[c].before) = Len(FilesOf[c]) /\ Len(FilesOf[c]) \in Nat
    BY <2>1, FilesLength DEF CallInv, CsTypeOK
  <2>3. call[k].n \in 1..Len(cset[c].before)
    BY <2>1, <2>2
  <2> QED BY <1>2, <2>1, <2>3 DEF StatusTrue, Before
<1>4. ~Dirty(f, c)'
  BY <1>1, <1>3 DEF Dirty, Free
<1>5. Falls(c)
  BY <1>1, <1>4 DEF Falls, Dirty
<1> QED BY <1>1, <1>2, <1>4, <1>5

\* apply reads a file and finds whether it still matches.
LEMMA ApplyReadClean ==
    ASSUME CallInv, CleanInv, NEW k \in Caller, ApplyRead(k), ~spoiled'
    PROVE  CleanInv'
<1> DEFINE q == call[k]
<1>0. PICK c \in Cs : c = q.cs
  BY PlaceParts
<1>1. PICK n \in Nat : n = q.n /\ n - 1 \in Nat
  BY PlaceParts
<1>2. q.at = "reading" /\ NoWrite
  BY DEF ApplyRead
<1>3. ~spoiled /\ \A d \in Cs : Falls(d)
  BY <1>2, NoWriteFalls
<1>4. DirtIn(c, 1, n - 1)
  BY <1>0, <1>1, <1>2, <1>3 DEF CleanInv, PlaceTrue
<1>5. CASE Goto(k, "writing") /\ cset' = cset
  <2> DEFINE r == [q EXCEPT !.at = "writing"]
  <2>1. call' = [call EXCEPT ![k] = r]
    BY <1>5 DEF Goto
  <2>2. r.at = "writing" /\ r.cs = c /\ r.n = n
    BY <1>0, <1>1, PlaceParts, RecParts
  <2> HIDE DEF r
  <2>3. call'[k] = r
    BY <2>1, Moved
  <2>4. DirtIn(c, 1, n - 1)'
    BY <1>3, <1>4, DirtInFalls
  <2>5. PlaceTrue(k)'
    BY <2>2, <2>3, <2>4, PlaceNext
  <2> QED BY <1>2, <1>5, <2>1, <2>5, CleanMove
<1>6. CASE RestoreUpto(k, n - 1) /\ (cset' = cset \/ SetStatus(k, "CONFLICT"))
  BY <1>0, <1>1, <1>2, <1>4, <1>6, RestoreUptoClean
<1> QED BY <1>1, <1>5, <1>6 DEF ApplyRead

\* apply writes a file: the files up to it may be dirty.
LEMMA ApplyWriteClean ==
    ASSUME CallInv, ApplyInv, CleanInv, NEW k \in Caller, ApplyWrite(k), ~spoiled'
    PROVE  CleanInv'
<1> DEFINE q == call[k]
<1>0. PICK c \in Cs : c = q.cs
  BY PlaceParts
<1>1. PICK n \in Nat : n = q.n /\ n - 1 \in Nat /\ n \in 1..Len(FilesOf[c])
  BY <1>0, PlaceParts DEF ApplyWrite
<1>2. q.at = "writing" /\ cset' = cset /\ q.at \in AtFile /\ q.at \in OwnAt
  BY DEF ApplyWrite, AtFile, OwnAt, BusyAt
<1>3. Len(FilesOf[c]) \in Nat
  BY FilesLength
<1>4. ~spoiled
  BY DEF ApplyWrite, Put, NoWrite
<1>5. DirtIn(c, 1, n - 1) /\ StatusTrue(c)
  BY <1>0, <1>1, <1>2, <1>4 DEF CleanInv, PlaceTrue
<1>6. CASE RestoreUpto(k, n) /\ NoWrite
  <2>1. DirtIn(c, 1, n)
    BY <1>1, <1>5, WiderDirt
  <2> QED BY <1>0, <1>1, <1>2, <1>6, <2>1, RestoreUptoClean
<1>7. CASE Put(k, After(k), {Before(k)}) /\ Goto(k, "verifying")
  <2> DEFINE r == [q EXCEPT !.at = "verifying"]
  <2>1. call' = [call EXCEPT ![k] = r]
    BY <1>7 DEF Goto
  <2>2. r.at = "verifying" /\ r.cs = c /\ r.n = n
    BY <1>0, <1>1, PlaceParts, RecParts
  <2> HIDE DEF r
  <2>3. call'[k] = r /\ \A j \in Caller : j # k => call'[j] = call[j]
    BY <2>1, Moved
  <2>4. call[k].n <= Len(FilesOf[call[k].cs]) /\ TheFile(k) = FilesOf[c][n]
    BY <1>0, <1>1, <1>3 DEF TheFile
  <2>5. /\ \A y \in File : y # TheFile(k) => disk'[y] = disk[y]
        /\ \A d \in Cs : d # c => Falls(d)
    BY <1>0, <1>2, <1>7, <2>4, PutDirt
  <2>6. ASSUME NEW x \in File, Dirty(x, c)'
        PROVE  \E m \in 1..Len(FilesOf[c]) : 1 <= m /\ m <= n /\ FilesOf[c][m] = x
    <3>1. CASE x = FilesOf[c][n]
      BY <1>1, <1>3, <3>1
    <3>2. CASE x # FilesOf[c][n]
      <4>1. Dirty(x, c)
        BY <2>4, <2>5, <2>6, <3>2 DEF Dirty
      <4>2. PICK m \in 1..Len(FilesOf[c]) : 1 <= m /\ m <= n - 1 /\ FilesOf[c][m] = x
        BY <1>5, <4>1 DEF DirtIn
      <4> QED BY <1>1, <1>3, <4>2
    <3> QED BY <3>1, <3>2
  <2>7. DirtIn(c, 1, n)'
    BY <2>6 DEF DirtIn
  <2>8. DirtIn(c, 1, Len(FilesOf[c]))'
    <3>1. ASSUME NEW x \in File, Dirty(x, c)'
          PROVE  \E m \in 1..Len(FilesOf[c]) :
                     1 <= m /\ m <= Len(FilesOf[c]) /\ FilesOf[c][m] = x
      BY <1>3, <2>6, <3>1
    <3> QED BY <3>1 DEF DirtIn
  <2>9. cset[c].status = "APPLYING"
    BY <1>0, <1>2 DEF ApplyInv, StatusFits, BusyAt
  <2>10. StatusTrue(c)'
    BY <1>2, <1>5, <2>8, <2>9 DEF StatusTrue, Free
  <2>11. PlaceTrue(k)'
    BY <2>2, <2>3, <2>7, PlaceNext
  <2>12. \A j \in Caller : j # k /\ call[j].cs = c => call[j].at \in {"idle", "gitStatus"}
    BY <1>0, <1>2, Alone
  <2> QED BY <1>2, <1>4, <2>3, <2>5, <2>10, <2>11, <2>12, CleanFrom
<1> QED BY <1>1, <1>6, <1>7 DEF ApplyWrite

\* apply verifies a file: after the last the changeset is applied.
LEMMA ApplyVerifyClean ==
    ASSUME CallInv, CleanInv, NEW k \in Caller, ApplyVerify(k), ~spoiled'
    PROVE  CleanInv'
<1> DEFINE q == call[k]
<1>0. PICK c \in Cs : c = q.cs
  BY PlaceParts
<1>1. PICK n \in Nat : n = q.n /\ (n + 1) - 1 = n
  BY PlaceParts
<1>2. q.at = "verifying" /\ NoWrite
  BY DEF ApplyVerify
<1>3. ~spoiled /\ \A d \in Cs : Falls(d)
  BY <1>2, NoWriteFalls
<1>4. DirtIn(c, 1, n) /\ StatusTrue(c)
  BY <1>0, <1>1, <1>2, <1>3 DEF CleanInv, PlaceTrue
<1>5. CASE NextFile(k, "reading") /\ cset' = cset
  <2> DEFINE r == [q EXCEPT !.at = "reading", !.n = n + 1]
  <2>1. call' = [call EXCEPT ![k] = r]
    BY <1>1, <1>5 DEF NextFile
  <2>2. r.at = "reading" /\ r.cs = c /\ r.n = n + 1
    BY <1>0, PlaceParts, RecParts
  <2> HIDE DEF r
  <2>3. call'[k] = r
    BY <2>1, Moved
  <2>4. PICK u : u = n + 1 /\ u - 1 = n
    BY <1>1
  <2>5. DirtIn(c, 1, n)'
    BY <1>3, <1>4, DirtInFalls
  <2>6. DirtIn(c, 1, u - 1)'
    BY <2>4, <2>5
  <2>7. PlaceTrue(k)'
    BY <2>2, <2>3, <2>4, <2>6, PlaceNext
  <2> QED BY <1>2, <1>5, <2>1, <2>7, CleanMove
<1>6. CASE SetStatus(k, "APPLIED") /\ Return(k)
  <2>1. cset' = [cset EXCEPT ![c].status = "APPLIED"]
    BY <1>0, <1>6 DEF SetStatus
  <2>2. call' = [call EXCEPT ![k] = NoCall] /\ NoCall.at = "idle"
    BY <1>6, NoCallTyped DEF Return
  <2>3. PlaceTrue(k)'
    BY <2>2, Moved, PlaceIdle
  <2>4. DirtIn(c, 1, Len(FilesOf[c]))'
    BY <1>3, <1>4, DirtInFalls DEF StatusTrue
  <2>5. cset[c].status \notin {"NONE", "LOST"}
    BY <1>0, <1>2, PlaceParts DEF AtFile
  <2>6. StatusTrue(c)'
    <3>1. "APPLIED" \in {"APPLYING", "APPLIED", "CONFLICT"} /\ "APPLIED" # "CONFLICT"
      OBVIOUS
    <3> QED BY <1>4, <2>1, <2>4, <2>5, <3>1, ImagesStay
  <2>7. \A d \in Cs : d # c => cset'[d] = cset[d]
    BY <2>1 DEF CallInv, CsTypeOK
  <2> QED BY <1>0, <1>3, <2>2, <2>3, <2>6, <2>7, CleanStatus
<1>7. CASE RestoreUpto(k, n) /\ cset' = cset
  BY <1>0, <1>1, <1>2, <1>4, <1>7, RestoreUptoClean
<1> QED BY <1>1, <1>5, <1>6, <1>7 DEF ApplyVerify

\* apply takes an edit back: the files before it are clean again.
LEMMA RestoreClean ==
    ASSUME CallInv, CleanInv, NEW k \in Caller, Restore(k), ~spoiled'
    PROVE  CleanInv'
<1> DEFINE q == call[k]
<1>0. PICK c \in Cs : c = q.cs
  BY PlaceParts
<1>1. PICK n \in Nat : n = q.n /\ n >= 1
  BY PlaceParts
<1>2. PICK u \in Nat : u = q.upto /\ u <= Len(FilesOf[c]) /\ Len(FilesOf[c]) \in Nat
  BY <1>0, PlaceParts
<1>3. PICK f : f = TheFile(k) /\ f = FilesOf[c][n]
  BY <1>0, <1>1 DEF TheFile
<1>4. /\ q.at = "restoring" /\ q.at \in AtFile /\ n <= u /\ cset' = cset
      /\ Put(k, Before(k), {Before(k), After(k)}) /\ NextFile(k, "restoring")
  BY <1>1, <1>2 DEF Restore, AtFile
<1>5. n \in 1..Len(FilesOf[c]) /\ call[k].n <= Len(FilesOf[call[k].cs])
  BY <1>0, <1>1, <1>2, <1>4
<1>6. ~spoiled /\ StatusTrue(c) /\ (\A d \in Cs : Falls(d)) /\ ~Dirty(f, c)'
  BY <1>0, <1>3, <1>4, <1>5, PutBefore
<1>7. DirtIn(c, n, u)
  BY <1>0, <1>1, <1>2, <1>4, <1>6 DEF CleanInv, PlaceTrue
<1>8. DirtIn(c, n, u)'
  BY <1>6, <1>7, DirtInFalls
<1>9. ~Dirty(FilesOf[c][n], c)'
  BY <1>3, <1>6 DEF Dirty
<1>10. DirtIn(c, n + 1, u)'
  BY <1>5, <1>8, <1>9, NarrowDirt
<1> DEFINE r == [q EXCEPT !.at = "restoring", !.n = n + 1]
<1>11. call' = [call EXCEPT ![k] = r]
  BY <1>1, <1>4 DEF NextFile
<1>12. r.at = "restoring" /\ r.cs = c /\ r.n = n + 1 /\ r.upto = u
  BY <1>0, <1>2, PlaceParts, RecParts
<1> HIDE DEF r
<1>13. call'[k] = r /\ \A j \in Caller : j # k => call'[j] = call[j]
  BY <1>11, Moved
<1>14. PlaceTrue(k)'
  BY <1>10, <1>12, <1>13, PlaceNext
<1>15. StatusTrue(c)'
  <2>1. DirtIn(c, 1, Len(FilesOf[c]))' /\ (Clean(c) => Clean(c)')
    BY <1>6, DirtInFalls, CleanFalls DEF StatusTrue
  <2>2. call'[k].at = "restoring" /\ call'[k].cs = c
    BY <1>12, <1>13
  <2> QED BY <1>4, <1>6, <2>1, <2>2 DEF StatusTrue, Free
<1> QED BY <1>0, <1>4, <1>6, <1>13, <1>14, <1>15, CleanFrom

\* After the last file the changeset left nothing behind.
LEMMA RestoreDoneClean ==
    ASSUME CallInv, CleanInv, NEW k \in Caller, RestoreDone(k), ~spoiled'
    PROVE  CleanInv'
<1> DEFINE q == call[k]
<1>0. PICK c \in Cs : c = q.cs
  BY PlaceParts
<1>1. PICK n \in Nat : n = q.n
  BY PlaceParts
<1>2. PICK u \in Nat : u = q.upto
  BY PlaceParts
<1>3. q.at = "restoring" /\ q.at \in AtFile /\ NoWrite /\ n > u /\ Return(k)
  BY <1>1, <1>2 DEF RestoreDone, AtFile
<1>4. ~spoiled /\ \A d \in Cs : Falls(d)
  BY <1>3, NoWriteFalls
<1>5. DirtIn(c, n, u) /\ StatusTrue(c)
  BY <1>0, <1>1, <1>2, <1>3, <1>4 DEF CleanInv, PlaceTrue
<1>6. DirtIn(c, n, u)' /\ DirtIn(c, 1, Len(FilesOf[c]))'
  BY <1>4, <1>5, DirtInFalls DEF StatusTrue
<1>7. Clean(c)'
  BY <1>3, <1>6, NoDirtIsClean
<1>8. call' = [call EXCEPT ![k] = NoCall] /\ NoCall.at = "idle"
  BY <1>3, NoCallTyped DEF Return
<1>9. PlaceTrue(k)'
  BY <1>8, Moved, PlaceIdle
<1>10. CASE cset' = cset
  <2>1. StatusTrue(c)'
    BY <1>5, <1>6, <1>7, <1>10 DEF StatusTrue, Free
  <2> QED BY <1>0, <1>4, <1>8, <1>9, <1>10, <2>1, CleanStatus
<1>11. CASE SetStatus(k, "FAILED")
  <2>1. cset' = [cset EXCEPT ![c].status = "FAILED"]
    BY <1>0, <1>11 DEF SetStatus
  <2>2. cset[c].status \notin {"NONE", "LOST"}
    BY <1>0, <1>3, PlaceParts
  <2>3. StatusTrue(c)'
    BY <1>5, <1>6, <1>7, <2>1, <2>2, ImagesStay
  <2>4. \A d \in Cs : d # c => cset'[d] = cset[d]
    BY <2>1 DEF CallInv, CsTypeOK
  <2> QED BY <1>0, <1>4, <1>8, <1>9, <2>3, <2>4, CleanStatus
<1> QED BY <1>10, <1>11 DEF RestoreDone

\* One file of a rollback is done: it was found or made clean, or is a conflict.
LEMMA UnrolledClean ==
    ASSUME CallInv, CleanInv, NEW k \in Caller, call[k].at \in UndoAt, NEW b \in BOOLEAN,
           Unrolled(k, b), ~spoiled, \A d \in Cs : Falls(d),
           NEW c \in Cs, c = call[k].cs, NEW n, n = call[k].n,
           b \/ (DirtIn(c, n, Len(FilesOf[c])) /\ ~Dirty(FilesOf[c][n], c)')
    PROVE  CleanInv'
<1> DEFINE q == call[k]
           l == Len(FilesOf[c])
<1>1. n \in Nat /\ l \in Nat /\ n \in 1..l /\ n + 1 \in Nat
  BY PlaceParts DEF UndoAt
<1>2. call[k].at # "restoring" /\ StatusTrue(c)
  BY DEF CleanInv, UndoAt
<1>3. b \/ DirtIn(c, n + 1, l)'
  <2>1. CASE ~b
    <3>1. DirtIn(c, n, l)'
      BY <2>1, DirtInFalls
    <3> QED BY <1>1, <2>1, <3>1, NarrowDirt
  <2> QED BY <2>1
<1>4. ASSUME cset' = cset,
             call' = [call EXCEPT ![k] = [@ EXCEPT !.at = "unreading", !.n = q.n + 1, !.blocked = b]]
      PROVE  CleanInv'
  <2> DEFINE r == [q EXCEPT !.at = "unreading", !.n = n + 1, !.blocked = b]
  <2>1. call' = [call EXCEPT ![k] = r]
    BY <1>4
  <2>2. r.at = "unreading" /\ r.cs = c /\ r.n = n + 1 /\ r.blocked = b
    BY PlaceParts, RecParts
  <2> HIDE DEF r
  <2>3. call'[k] = r /\ \A j \in Caller : j # k => call'[j] = call[j]
    BY <2>1, Moved
  <2>4. PlaceTrue(k)'
    BY <1>3, <2>2, <2>3, PlaceNext
  <2> QED BY <1>2, <1>4, <2>3, <2>4, CleanFrom
<1>5. ASSUME Last(k), Return(k), IF b THEN cset' = cset ELSE SetStatus(k, "ROLLED_BACK")
      PROVE  CleanInv'
  <2>1. call' = [call EXCEPT ![k] = NoCall] /\ NoCall.at = "idle"
    BY <1>5, NoCallTyped DEF Return
  <2>2. PlaceTrue(k)' /\ \A j \in Caller : j # k => call'[j] = call[j]
    BY <2>1, Moved, PlaceIdle
  <2>3. CASE b
    BY <1>2, <1>5, <2>2, <2>3, CleanFrom
  <2>4. CASE ~b
    <3>1. n + 1 > l
      BY <1>1, <1>5 DEF Last
    <3>2. Clean(c)'
      BY <1>1, <1>3, <2>4, <3>1, NoDirtIsClean
    <3>3. DirtIn(c, 1, Len(FilesOf[c]))'
      BY <1>2, DirtInFalls DEF StatusTrue
    <3>4. cset' = [cset EXCEPT ![c].status = "ROLLED_BACK"]
      BY <1>5, <2>4 DEF SetStatus
    <3>5. cset[c].status \notin {"NONE", "LOST"}
      BY PlaceParts DEF UndoAt, AtFile
    <3>6. StatusTrue(c)'
      BY <1>2, <3>2, <3>3, <3>4, <3>5, ImagesStay
    <3>7. \A d \in Cs : d # c => cset'[d] = cset[d]
      BY <3>4 DEF CallInv, CsTypeOK
    <3> QED BY <2>1, <2>2, <3>6, <3>7, CleanStatus
  <2> QED BY <2>3, <2>4
<1> QED BY <1>4, <1>5 DEF Unrolled

\* rollback reads a file and skips one that others edited.
LEMMA RollbackReadClean ==
    ASSUME CallInv, CleanInv, NEW k \in Caller, RollbackRead(k), ~spoiled'
    PROVE  CleanInv'
<1> DEFINE q == call[k]
<1>0. PICK c \in Cs : c = q.cs
  BY PlaceParts
<1>1. PICK n \in Nat : n = q.n /\ n \in 1..Len(FilesOf[c])
  BY <1>0, PlaceParts DEF RollbackRead
<1>2. q.at = "unreading" /\ q.at \in UndoAt /\ q.at \in AtFile /\ q.blocked \in BOOLEAN /\ NoWrite
  BY PlaceParts DEF RollbackRead, UndoAt, AtFile
<1>3. ~spoiled /\ \A d \in Cs : Falls(d)
  BY <1>2, NoWriteFalls
<1>4. StatusTrue(c) /\ (q.blocked \/ DirtIn(c, n, Len(FilesOf[c])))
  BY <1>0, <1>1, <1>2, <1>3 DEF CleanInv, PlaceTrue
<1>5. CASE Unrolled(k, TRUE)
  BY <1>0, <1>1, <1>2, <1>3, <1>5, UnrolledClean
<1>6. CASE disk[TheFile(k)] = Before(k) /\ Unrolled(k, q.blocked)
  <2>1. Free(Before(k), c)
    <3>1. cset[c].status \notin {"NONE", "LOST"}
      BY <1>0, <1>2, PlaceParts
    <3>2. Len(cset[c].before) = Len(FilesOf[c])
      BY <3>1 DEF CallInv, CsTypeOK
    <3> QED BY <1>0, <1>1, <1>4, <3>1, <3>2 DEF StatusTrue, Before
  <2>2. disk'[FilesOf[c][n]] = Before(k)
    BY <1>0, <1>1, <1>2, <1>6 DEF NoWrite, TheFile
  <2>3. ~Dirty(FilesOf[c][n], c)'
    BY <2>1, <2>2 DEF Dirty, Free
  <2> QED BY <1>0, <1>1, <1>2, <1>3, <1>4, <1>6, <2>3, UnrolledClean
<1>7. CASE Goto(k, "unwriting") /\ cset' = cset
  <2> DEFINE r == [q EXCEPT !.at = "unwriting"]
  <2>1. call' = [call EXCEPT ![k] = r]
    BY <1>7 DEF Goto
  <2>2. r.at = "unwriting" /\ r.cs = c /\ r.n = n /\ r.blocked = q.blocked
    BY <1>0, <1>1, PlaceParts, RecParts
  <2> HIDE DEF r
  <2>3. call'[k] = r
    BY <2>1, Moved
  <2>4. q.blocked \/ DirtIn(c, n, Len(FilesOf[c]))'
    BY <1>3, <1>4, DirtInFalls
  <2>5. PlaceTrue(k)'
    BY <2>2, <2>3, <2>4, PlaceNext
  <2> QED BY <1>2, <1>7, <2>1, <2>5, CleanMove
<1>8. CASE Return(k) /\ cset' = cset
  BY <1>2, <1>8, ReturnClean
<1> QED BY <1>5, <1>6, <1>7, <1>8 DEF RollbackRead

\* rollback writes the backup of a file.
LEMMA RollbackWriteClean ==
    ASSUME CallInv, CleanInv, NEW k \in Caller, RollbackWrite(k), ~spoiled'
    PROVE  CleanInv'
<1> DEFINE q == call[k]
<1>0. PICK c \in Cs : c = q.cs
  BY PlaceParts
<1>1. PICK n \in Nat : n = q.n /\ n \in 1..Len(FilesOf[c]) /\ Len(FilesOf[c]) \in Nat
  BY <1>0, PlaceParts DEF RollbackWrite
<1>2. q.at = "unwriting" /\ q.at \in UndoAt /\ q.at \in AtFile /\ q.blocked \in BOOLEAN
  BY PlaceParts DEF RollbackWrite, UndoAt, AtFile
<1>3. PICK f : f = TheFile(k) /\ f = FilesOf[c][n]
  BY <1>0, <1>1 DEF TheFile
<1>4. CASE Put(k, Before(k), {After(k)}) /\ Unrolled(k, q.blocked)
  <2>1. call[k].n <= Len(FilesOf[call[k].cs])
    BY <1>0, <1>1
  <2>2. ~spoiled /\ (\A d \in Cs : Falls(d)) /\ ~Dirty(f, c)'
    BY <1>0, <1>2, <1>3, <1>4, <2>1, PutBefore
  <2>3. ~Dirty(FilesOf[c][n], c)'
    BY <1>3, <2>2 DEF Dirty
  <2>4. q.blocked \/ DirtIn(c, n, Len(FilesOf[c]))
    BY <1>0, <1>1, <1>2, <2>2 DEF CleanInv, PlaceTrue
  <2> QED BY <1>0, <1>1, <1>2, <1>4, <2>2, <2>3, <2>4, UnrolledClean
<1>5. CASE Return(k) /\ NoWrite /\ cset' = cset
  BY <1>2, <1>5, ReturnClean
<1> QED BY <1>4, <1>5 DEF RollbackWrite

\* Every step of a call keeps the record of dirty files true.
LEMMA CallStepClean ==
    ASSUME CallInv, ApplyInv, CleanInv, NEW k \in Caller, CallStep(k), ~spoiled'
    PROVE  CleanInv'
  BY ProposeReadClean, ApplyStartClean, ApplyReadClean, ApplyWriteClean, ApplyVerifyClean,
     RestoreClean, RestoreDoneClean, RollbackReadClean, RollbackWriteClean DEF CallStep

\* A request begins with nothing to answer for, a rollback with all its files.
LEMMA BeginClean ==
    ASSUME CallInv, CleanInv, NEW k \in Caller, NEW c \in Cs, ~spoiled',
           Propose(k, c) \/ Apply(k, c) \/ Rollback(k, c)
    PROVE  CleanInv'
<1>1. call[k].at # "restoring" /\ NoWrite /\ cset' = cset
  BY DEF Propose, Apply, Rollback, Idle, NoWrite
<1>2. ~spoiled /\ \A d \in Cs : Falls(d)
  BY <1>1, NoWriteFalls
<1>3. StatusTrue(c)
  BY <1>2 DEF CleanInv
<1>4. CASE Propose(k, c)
  <2> DEFINE r == [NoCall EXCEPT !.at = "proposing", !.cs = c]
  <2>1. call' = [call EXCEPT ![k] = r]
    BY <1>4 DEF Propose, Begin
  <2>2. r.at = "proposing" /\ r.seen = <<>>
    BY NoCallTyped DEF Call
  <2> HIDE DEF r
  <2>3. call'[k] = r
    BY <2>1, Moved
  <2>4. PlaceTrue(k)'
    BY <2>2, <2>3 DEF PlaceTrue
  <2> QED BY <1>1, <2>1, <2>4, CleanMove
<1>5. CASE Apply(k, c)
  <2>1. ASSUME NEW r, call' = [call EXCEPT ![k] = r], r.at = "gitStatus"
        PROVE  CleanInv'
    <3>1. PlaceTrue(k)'
      BY <2>1, Moved, PlaceIdle
    <3> QED BY <1>1, <2>1, <3>1, CleanMove
  <2>2. CASE Begin(k, c, "gitStatus")
    BY <2>1, <2>2, BeginOK DEF Begin
  <2>3. ASSUME NEW i \in Id, BeginWith(k, c, i) PROVE CleanInv'
    BY <2>1, <2>3, BeginWithOK DEF BeginWith
  <2> QED BY <1>5, <2>2, <2>3 DEF Apply
<1>6. CASE Rollback(k, c)
  <2> DEFINE r == [NoCall EXCEPT !.at = "unreading", !.cs = c]
  <2>1. call' = [call EXCEPT ![k] = r]
    BY <1>6 DEF Rollback, Begin
  <2>2. r.at = "unreading" /\ r.cs = c /\ r.n = 1
    BY NoCallTyped DEF Call
  <2> HIDE DEF r
  <2>3. call'[k] = r
    BY <2>1, Moved
  <2>4. DirtIn(c, 1, Len(FilesOf[c]))'
    BY <1>2, <1>3, DirtInFalls DEF StatusTrue
  <2>5. PlaceTrue(k)'
    BY <2>2, <2>3, <2>4, PlaceNext
  <2> QED BY <1>1, <2>1, <2>5, CleanMove
<1> QED BY <1>4, <1>5, <1>6

\* Steps of others that put no edits anywhere.
LEMMA ElsewhereClean ==
    ASSUME CallInv, CleanInv, \A d \in Cs : Falls(d), cset' = cset, call' = call, spoiled' = spoiled
    PROVE  CleanInv'
<1> SUFFICES ASSUME ~spoiled PROVE (\A d \in Cs : StatusTrue(d)') /\ \A j \in Caller : PlaceTrue(j)'
  BY DEF CleanInv
<1>1. ASSUME NEW d \in Cs PROVE StatusTrue(d)'
  <2>1. StatusTrue(d)
    BY DEF CleanInv
  <2>2. DirtIn(d, 1, Len(FilesOf[d]))' /\ (Clean(d) => Clean(d)')
    BY <2>1, DirtInFalls, CleanFalls DEF StatusTrue
  <2> QED BY <2>1, <2>2 DEF StatusTrue, Free
<1>2. ASSUME NEW j \in Caller PROVE PlaceTrue(j)'
  <2>1. PICK d \in Cs : d = call[j].cs
    BY CallInvCalls
  <2>2. PlaceTrue(j)
    BY DEF CleanInv
  <2> QED BY <2>1, <2>2, PlaceStays
<1> QED BY <1>1, <1>2

\* A restart: no changeset is left that could be wrong about its files.
LEMMA CrashClean == ASSUME CallInv, CleanInv, Crash PROVE CleanInv'
<1> SUFFICES ASSUME ~spoiled PROVE (\A d \in Cs : StatusTrue(d)') /\ \A j \in Caller : PlaceTrue(j)'
  BY DEF CleanInv, Crash
<1>1. disk' = disk /\ call' = [k \in Caller |-> NoCall]
  BY DEF Crash
<1>2. ASSUME NEW j \in Caller PROVE PlaceTrue(j)'
  BY <1>1, NoCallTyped, PlaceIdle
<1>3. ASSUME NEW d \in Cs PROVE StatusTrue(d)'
  <2>1. StatusTrue(d)
    BY DEF CleanInv
  <2>2. DirtIn(d, 1, Len(FilesOf[d]))' /\ (Clean(d) => Clean(d)')
    BY <1>1, <2>1 DEF StatusTrue, DirtIn, Dirty, Clean
  <2>3. \/ cset'[d].status = "NONE" /\ cset[d].status = "NONE"
        \/ cset'[d].status = "LOST"
    <3>1. cset'[d] = IF cset[d].status = "NONE" THEN cset[d]
                     ELSE [NoChangeset EXCEPT !.status = "LOST"]
      BY DEF Crash
    <3>2. [NoChangeset EXCEPT !.status = "LOST"].status = "LOST"
      BY DEF NoChangeset
    <3> QED BY <3>1, <3>2
  <2> QED BY <2>1, <2>2, <2>3 DEF StatusTrue
<1> QED BY <1>2, <1>3

\* The record is true at first.
LEMMA CleanInit == Init => CleanInv
<1> SUFFICES ASSUME Init PROVE (\A d \in Cs : StatusTrue(d)) /\ \A j \in Caller : PlaceTrue(j)
  BY DEF CleanInv
<1>1. ASSUME NEW d PROVE Clean(d)
  BY DEF Init, Clean, Dirty
<1>2. ASSUME NEW d \in Cs PROVE StatusTrue(d)
  <2>1. cset[d].status = "NONE"
    BY DEF Init, NoChangeset
  <2> QED BY <1>1, <2>1, CleanIsAnywhere DEF StatusTrue
<1>3. ASSUME NEW j \in Caller PROVE PlaceTrue(j)
  BY NoCallTyped DEF Init, PlaceTrue
<1> QED BY <1>2, <1>3

\* And it stays true while no file was edited by others in between.
LEMMA CleanNext == Inv /\ CleanInv /\ [Next]_vars => CleanInv'
<1> SUFFICES ASSUME Inv, CleanInv, [Next]_vars, ~spoiled' PROVE CleanInv'
  BY DEF CleanInv
<1>1. CallInv /\ ApplyInv
  BY DEF Inv
<1>2. ASSUME disk' = disk, cset' = cset, call' = call, spoiled' = spoiled PROVE CleanInv'
  <2>1. \A d \in Cs : Falls(d)
    BY <1>2 DEF Falls, Dirty
  <2> QED BY <1>1, <1>2, <2>1, ElsewhereClean
<1>3. ASSUME NEW f \in File, NEW v \in 0..MaxVersion, UserEdit(f, v) PROVE CleanInv'
  <2>1. /\ cset' = cset /\ call' = call /\ spoiled' = spoiled
        /\ disk' = [disk EXCEPT ![f] = [text |-> v, changes |-> <<>>]]
    BY <1>3 DEF UserEdit
  <2>2. disk'[f].changes = <<>> /\ \A y \in File : y # f => disk'[y] = disk[y]
    BY <1>1, <2>1, DiskTyped
  <2>3. \A d \in Cs : Falls(d)
    BY <2>2 DEF Falls, Dirty
  <2> QED BY <1>1, <2>1, <2>3, ElsewhereClean
<1>4. ASSUME NEW k \in Caller, NEW c \in Cs, Propose(k, c) \/ Apply(k, c) \/ Rollback(k, c)
      PROVE CleanInv'
  BY <1>1, <1>4, BeginClean
<1>5. ASSUME NEW k \in Caller, CallStep(k) PROVE CleanInv'
  BY <1>1, <1>5, CallStepClean
<1>6. ASSUME NEW c \in Cs, AskApproval(c) PROVE CleanInv'
  BY <1>2, <1>6 DEF AskApproval, csVars
<1>7. ASSUME UNCHANGED csVars PROVE CleanInv'
  BY <1>2, <1>7 DEF csVars
<1>8. ASSUME Crash PROVE CleanInv'
  BY <1>1, <1>8, CrashClean
<1> QED BY <1>3, <1>4, <1>5, <1>6, <1>7, <1>8 DEF Next, vars

\* "already-written files are restored from in-memory backups so the changeset
\* is all-or-nothing" (changesets.js 162-165): when no request is busy with it,
\* a changeset that failed, met a conflict or was rolled back is in no file,
\* however apply, _restore, rollback, user edits and restarts interleave, unless
\* a write hit a content nobody had looked at or a restore itself failed.
THEOREM NothingLeftBehind == Spec => []AllOrNothing
<1>1. Inv /\ CleanInv => AllOrNothing
  <2> SUFFICES ASSUME Inv, CleanInv, ~spoiled, NEW c \in Cs,
                      cset[c].status \in {"FAILED", "CONFLICT", "ROLLED_BACK"},
                      \A k \in Caller : Idle(k) \/ call[k].cs # c,
                      NEW n \in 1..Len(FilesOf[c])
               PROVE  \A m \in 1..Len(disk[FilesOf[c][n]].changes) :
                          disk[FilesOf[c][n]].changes[m] # c
    BY DEF AllOrNothing
  <2>1. StatusTrue(c)
    BY DEF CleanInv
  <2>2. Clean(c)
    BY <2>1 DEF StatusTrue, Idle
  <2>3. FilesOf[c][n] \in File
    BY FilesLength
  <2> QED BY <2>2, <2>3 DEF Clean, Dirty
<1> QED BY <1>1, InvInit, InvNext, CleanInit, CleanNext, PTL DEF Spec
=============================================================================
