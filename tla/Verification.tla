---------------------------- MODULE Verification ----------------------------
\* Checking a run's changes (controller.js verifyChangeset): a diff and then
\* the tests, each awaited, by verifications that may overlap (after a patch,
\* and on request).  The records live in an array that a verification takes
\* when it starts and appends to; when it ends it publishes a copy of the
\* array's tail, so overlapping verifications append to one array until one of
\* them publishes, and to different ones afterwards.
EXTENDS Integers, Sequences, SequencesExt

CONSTANTS VJobs,   \* verifications
          VKeep    \* records kept (50 in the code)

ASSUME VerificationAssumption == VKeep \in Nat \ {0, 1}

VARIABLES vArrays,     \* every array made: sequences of [job, kind, passed]
          vPublished,  \* index of the array verifications.get(runId) gives
          vJob,        \* [pc, arr, tests, ok, last, met]
          vApplied,    \* changesets applied so far
          vResult      \* results.get(runId): "none" or what buildResult said first
verificationVars == <<vArrays, vPublished, vJob, vApplied, vResult>>

NotStarted == [pc |-> "idle", arr |-> 0, tests |-> FALSE, ok |-> FALSE, last |-> <<>>, met |-> {}]

VerificationInit ==
    /\ vArrays = << <<>> >> /\ vPublished = 1
    /\ vJob = [j \in VJobs |-> NotStarted]
    /\ vApplied = 0 /\ vResult = "none"

Tail2(s) == IF Len(s) <= 2 THEN s ELSE SubSeq(s, Len(s) - 1, Len(s))
Kept50(s) == IF Len(s) <= VKeep THEN s ELSE SubSeq(s, Len(s) - VKeep + 1, Len(s))
Open == {j \in VJobs : vJob[j].pc \in {"diff", "tests"}}
Record(j, kind, passed) == [job |-> j, kind |-> kind, passed |-> passed]

\* An idle verification starts and remembers (history: met) the ones it
\* overlaps with, as they do.
VerifyStarts(j) ==
    /\ vJob[j].pc = "idle"
    /\ vJob' = [k \in VJobs |->
          CASE k = j -> [NotStarted EXCEPT !.pc = "diff", !.arr = vPublished, !.met = Open]
            [] k # j /\ k \in Open -> [vJob[k] EXCEPT !.met = @ \cup {j}]
            [] OTHER -> vJob[k]]
    /\ UNCHANGED <<vArrays, vPublished, vApplied, vResult>>

DiffInspected(j) ==
    /\ vJob[j].pc = "diff"
    /\ \E p \in BOOLEAN :
          vArrays' = [vArrays EXCEPT ![vJob[j].arr] = Append(@, Record(j, "diff", p))]
    /\ vJob' = [vJob EXCEPT ![j].pc = "tests"]
    /\ UNCHANGED <<vPublished, vApplied, vResult>>

\* The tests answer (or throw, or are refused by the gate: not passed), the
\* tail of the array is published and the verdict is its last two records.
BugTestsDone(j) ==
    /\ vJob[j].pc = "tests"
    /\ \E p \in BOOLEAN :
          LET recs == vArrays[vJob[j].arr]
              last == Tail2(recs)
          IN  /\ vArrays' = Append([vArrays EXCEPT ![vJob[j].arr] = Append(recs, Record(j, "tests", p))],
                                   Kept50(Append(recs, Record(j, "tests", p))))
              /\ vPublished' = Len(vArrays) + 1
              /\ vJob' = [vJob EXCEPT ![j] = [@ EXCEPT !.pc = "done", !.tests = p, !.last = last,
                             !.ok = \A i \in DOMAIN last : last[i].passed]]
    /\ UNCHANGED <<vApplied, vResult>>

TestsDone(j) ==
    /\ vJob[j].pc = "tests"
    /\ \E p \in BOOLEAN :
          LET recs == Append(vArrays[vJob[j].arr], Record(j, "tests", p))
              last == Tail2(recs)
          IN  /\ vArrays' = Append([vArrays EXCEPT ![vJob[j].arr] = recs], Kept50(recs))
              /\ vPublished' = Len(vArrays) + 1
              /\ vJob' = [vJob EXCEPT ![j] = [@ EXCEPT !.pc = "done", !.tests = p, !.last = last,
                             !.ok = \A i \in DOMAIN last : last[i].passed]]
    /\ UNCHANGED <<vApplied, vResult>>

ChangeApplied ==
    /\ vApplied = 0 /\ vApplied' = 1
    /\ UNCHANGED <<vArrays, vPublished, vJob, vResult>>

\* agentResult: verification of tests is missing when changes were applied and
\* no record of passing tests is left.
MissingTests ==
    vApplied > 0 /\ ~\E i \in DOMAIN vArrays[vPublished] :
        vArrays[vPublished][i].kind = "tests" /\ vArrays[vPublished][i].passed

\* GET result builds it once and serves that one from then on.
GetResult ==
    /\ vResult = "none"
    /\ vResult' = IF MissingTests THEN "incomplete" ELSE "verified"
    /\ UNCHANGED <<vArrays, vPublished, vJob, vApplied>>

VerificationNext ==
    \/ ChangeApplied \/ GetResult
    \/ \E j \in VJobs : VerifyStarts(j) \/ DiffInspected(j) \/ TestsDone(j)

(******************************* properties *******************************)

\* However verifications overlap: one answers ok only when its own tests
\* passed, and alone (meeting no other) only when its own diff could be read
\* too; and its record of the tests stays among the published ones until newer
\* records push it out, unless one it overlapped published over it.
VerdictSound ==
    \A j \in VJobs : vJob[j].pc = "done" =>
        /\ vJob[j].ok => vJob[j].tests
        /\ vJob[j].ok /\ vJob[j].met = {} => vJob[j].last = <<Record(j, "diff", TRUE), Record(j, "tests", TRUE)>>
        /\ \/ vJob[j].met # {}
           \/ Record(j, "tests", vJob[j].tests) \in ToSet(vArrays[vPublished])
           \/ Len(vArrays[vPublished]) >= VKeep
=============================================================================
