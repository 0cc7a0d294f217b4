-------------------------- MODULE ApprovalsProofs ---------------------------
(***************************************************************************)
(* An approval is single-use, for any number of approvals and actions and  *)
(* any order of the operations of the store.  Its invariants are those of  *)
(* the components whose calls and requests pass the gate.                  *)
(***************************************************************************)
EXTENDS Approvals, TLAPS

\* What the store keeps between its operations: an approval that was used is
\* marked or forgotten, and only a user makes one usable.
ApprInv ==
    /\ DOMAIN appr \subseteq issued /\ issued \subseteq Id
    /\ \A i \in DOMAIN appr : appr[i] \in Approval
    /\ \A i \in DOMAIN appr : appr[i].status = "APPROVED" => <<i, appr[i].act>> \in granted
    /\ used \in [Id -> Seq(Action)]
    /\ \A i \in Id : used[i] # <<>> => i \in issued
    /\ \A i \in Id : i \in DOMAIN appr /\ used[i] # <<>> => appr[i].consumed
    /\ SingleUse

\* The sweep of expired approvals keeps each approval, its action and its use.
LEMMA SweptFacts ==
    ASSUME ApprInv, NEW i \in DOMAIN appr
    PROVE  /\ i \in DOMAIN Swept
           /\ Swept[i] \in Approval
           /\ Swept[i].act = appr[i].act
           /\ Swept[i].consumed = appr[i].consumed
           /\ Swept[i].late = appr[i].late
           /\ Swept[i].status = "APPROVED" => appr[i].status = "APPROVED"
<1>1. appr[i] \in Approval
  BY DEF ApprInv
<1>2. [appr[i] EXCEPT !.status = "EXPIRED"] \in Approval
  BY <1>1 DEF Approval, ApprovalStatus
<1>3. /\ [appr[i] EXCEPT !.status = "EXPIRED"].act = appr[i].act
      /\ [appr[i] EXCEPT !.status = "EXPIRED"].consumed = appr[i].consumed
      /\ [appr[i] EXCEPT !.status = "EXPIRED"].late = appr[i].late
      /\ [appr[i] EXCEPT !.status = "EXPIRED"].status = "EXPIRED"
  BY <1>1 DEF Approval
<1>4. Swept[i] = IF appr[i].late /\ appr[i].status \in {"PENDING", "APPROVED"}
                 THEN [appr[i] EXCEPT !.status = "EXPIRED"] ELSE appr[i]
  BY DEF Swept
<1> QED BY <1>1, <1>2, <1>3, <1>4 DEF Swept

\* The sweep adds and removes no approval.
LEMMA SweptDomain == DOMAIN Swept = DOMAIN appr
  BY DEF Swept

\* A step that leaves the use of approvals alone: sweep, decision, refusal,
\* time, restart.
LEMMA KeepsApprInv ==
    ASSUME ApprInv, issued' = issued, used' = used, granted \subseteq granted',
           DOMAIN appr' \subseteq DOMAIN appr,
           \A i \in DOMAIN appr' :
               /\ appr'[i] \in Approval
               /\ appr'[i].consumed = appr[i].consumed
               /\ appr'[i].status = "APPROVED" => <<i, appr'[i].act>> \in granted'
    PROVE  ApprInv'
  BY DEF ApprInv, SingleUse

\* A listing, which only sweeps (approvals.list).
LEMMA SweepOnlyKeeps == ASSUME ApprInv, SweepOnly PROVE ApprInv'
<1>1. appr' = Swept /\ issued' = issued /\ used' = used /\ granted' = granted
  BY DEF SweepOnly
<1>2. ASSUME NEW i \in DOMAIN appr'
      PROVE /\ appr'[i] \in Approval
            /\ appr'[i].consumed = appr[i].consumed
            /\ appr'[i].status = "APPROVED" => <<i, appr'[i].act>> \in granted'
  <2>1. i \in DOMAIN appr
    BY <1>1, SweptDomain
  <2>2. appr[i].status = "APPROVED" => <<i, appr[i].act>> \in granted
    BY <2>1 DEF ApprInv
  <2> QED BY <1>1, <2>1, <2>2, SweptFacts
<1> QED BY <1>1, <1>2, SweptDomain, KeepsApprInv

\* A new approval, with or without a sweep before it: nothing has used it.
LEMMA RequestKeeps ==
    ASSUME ApprInv, NEW i \in Id, NEW a \in Action, Request(appr, i, a) \/ Request(Swept, i, a)
    PROVE  ApprInv'
<1> DEFINE fresh == [act |-> a, status |-> "PENDING", late |-> FALSE, consumed |-> FALSE]
<1>1. i \in Id \ issued /\ issued' = issued \cup {i} /\ granted' = granted /\ used' = used
  BY DEF Request
<1>2. /\ DOMAIN appr' = DOMAIN appr \cup {i}
      /\ appr'[i] = fresh
      /\ \A j \in DOMAIN appr : j # i => appr'[j] = appr[j] \/ appr'[j] = Swept[j]
  BY SweptDomain DEF Request
<1>3. i \notin DOMAIN appr
  BY <1>1 DEF ApprInv
<1>4. appr'[i] \in Approval /\ appr'[i].status = "PENDING"
  BY <1>2 DEF Approval, ApprovalStatus
<1>5. used[i] = <<>>
  BY <1>1 DEF ApprInv
<1>6. ASSUME NEW j \in DOMAIN appr
      PROVE /\ appr'[j] \in Approval
            /\ appr'[j].consumed = appr[j].consumed
            /\ appr'[j].status = "APPROVED" => <<j, appr'[j].act>> \in granted'
  <2>1. appr'[j] = appr[j] \/ appr'[j] = Swept[j]
    BY <1>2, <1>3
  <2>2. appr[j] \in Approval /\ (appr[j].status = "APPROVED" => <<j, appr[j].act>> \in granted)
    BY DEF ApprInv
  <2> QED BY <1>1, <2>1, <2>2, SweptFacts
<1>7. DOMAIN appr' \subseteq issued' /\ issued' \subseteq Id
  BY <1>1, <1>2 DEF ApprInv
<1>8. \A j \in DOMAIN appr' : appr'[j] \in Approval
  BY <1>2, <1>4, <1>6
<1>9. \A j \in DOMAIN appr' : appr'[j].status = "APPROVED" => <<j, appr'[j].act>> \in granted'
  BY <1>2, <1>4, <1>6
<1>10. \A j \in Id : used'[j] # <<>> => j \in issued'
  BY <1>1 DEF ApprInv
<1>11. \A j \in Id : j \in DOMAIN appr' /\ used'[j] # <<>> => appr'[j].consumed
  BY <1>1, <1>2, <1>5, <1>6 DEF ApprInv
<1>12. used' \in [Id -> Seq(Action)] /\ SingleUse'
  BY <1>1 DEF ApprInv, SingleUse
<1> QED BY <1>7, <1>8, <1>9, <1>10, <1>11, <1>12 DEF ApprInv

\* consume: an approval that was granted and not used yet is used, once.
LEMMA ConsumeKeeps ==
    ASSUME ApprInv, NEW i \in Id, NEW a \in Action, Consume(i, a)
    PROVE  /\ ApprInv' /\ used[i] = <<>> /\ used'[i] = <<a>>
           /\ <<i, a>> \in granted
           /\ \A j \in Id : j # i => used'[j] = used[j]
<1>1. /\ i \in DOMAIN appr /\ Swept[i].act = a /\ Swept[i].status = "APPROVED"
      /\ ~Swept[i].consumed
      /\ appr' = [Swept EXCEPT ![i].consumed = TRUE]
      /\ used' = [used EXCEPT ![i] = Append(@, a)]
      /\ issued' = issued /\ granted' = granted
  BY DEF Consume, Usable
<1>2. appr[i].act = a /\ appr[i].status = "APPROVED" /\ ~appr[i].consumed
  BY <1>1, SweptFacts
<1>3. <<i, a>> \in granted
  BY <1>1, <1>2 DEF ApprInv
<1>4. used[i] = <<>>
  BY <1>1, <1>2 DEF ApprInv
<1>5. used'[i] = <<a>> /\ \A j \in Id : j # i => used'[j] = used[j]
  BY <1>1, <1>4 DEF ApprInv
<1>6. used' \in [Id -> Seq(Action)]
  BY <1>1 DEF ApprInv
<1>7. DOMAIN appr' = DOMAIN appr
  BY <1>1, SweptDomain
<1>8. ASSUME NEW j \in DOMAIN appr
      PROVE /\ appr'[j] \in Approval
            /\ appr'[j].act = appr[j].act
            /\ appr'[j].consumed = (j = i \/ appr[j].consumed)
            /\ appr'[j].status = "APPROVED" => appr[j].status = "APPROVED"
  <2>1. CASE j = i
    <3>1. appr'[j] = [Swept[j] EXCEPT !.consumed = TRUE]
      BY <1>1, <2>1, SweptDomain
    <3>2. Swept[j] \in Approval
      BY SweptFacts
    <3>3. [Swept[j] EXCEPT !.consumed = TRUE] \in Approval
      BY <3>2 DEF Approval
    <3>4. /\ [Swept[j] EXCEPT !.consumed = TRUE].act = Swept[j].act
          /\ [Swept[j] EXCEPT !.consumed = TRUE].status = Swept[j].status
          /\ [Swept[j] EXCEPT !.consumed = TRUE].consumed = TRUE
      BY <3>2 DEF Approval
    <3> QED BY <2>1, <3>1, <3>3, <3>4, SweptFacts
  <2>2. CASE j # i
    <3>1. appr'[j] = Swept[j]
      BY <1>1, <2>2, SweptDomain
    <3>2. appr[j] \in Approval
      BY DEF ApprInv
    <3> QED BY <2>2, <3>1, <3>2, SweptFacts DEF Approval
  <2> QED BY <2>1, <2>2
<1>9. \A j \in DOMAIN appr' : appr'[j].status = "APPROVED" => <<j, appr'[j].act>> \in granted'
  <2>1. \A j \in DOMAIN appr : appr[j].status = "APPROVED" => <<j, appr[j].act>> \in granted
    BY DEF ApprInv
  <2>2. granted' = granted
    BY <1>1
  <2> QED BY <1>7, <1>8, <2>1, <2>2
<1>10. \A j \in Id : used'[j] # <<>> => j \in issued'
  BY <1>1, <1>5 DEF ApprInv
<1>11. \A j \in Id : j \in DOMAIN appr' /\ used'[j] # <<>> => appr'[j].consumed
  <2>1. SUFFICES ASSUME NEW j \in Id, j \in DOMAIN appr', used'[j] # <<>>
                 PROVE  appr'[j].consumed
    OBVIOUS
  <2>2. j = i \/ appr[j].consumed
    BY <1>5, <1>7, <2>1 DEF ApprInv
  <2> QED BY <1>7, <1>8, <2>1, <2>2
<1>12. SingleUse'
  <2>1. SUFFICES ASSUME NEW j \in Id
                 PROVE  /\ Len(used'[j]) <= 1
                        /\ \A n \in 1..Len(used'[j]) : <<j, used'[j][n]>> \in granted'
    BY DEF SingleUse
  <2>2. CASE j = i
    <3>1. Len(<<a>>) = 1 /\ <<a>>[1] = a
      OBVIOUS
    <3>2. used'[j] = <<a>> /\ <<j, a>> \in granted'
      BY <1>1, <1>3, <1>5, <2>2
    <3>3. \A n \in 1..1 : n = 1
      OBVIOUS
    <3> QED BY <3>1, <3>2, <3>3
  <2>3. CASE j # i
    BY <1>1, <1>5, <2>3 DEF ApprInv, SingleUse
  <2> QED BY <2>2, <2>3
<1>13. DOMAIN appr' \subseteq issued' /\ issued' \subseteq Id /\ \A j \in DOMAIN appr' : appr'[j] \in Approval
  BY <1>1, <1>7, <1>8 DEF ApprInv
<1> QED BY <1>3, <1>4, <1>5, <1>6, <1>9, <1>10, <1>11, <1>12, <1>13 DEF ApprInv

\* A decision grants the action of the approval and uses nothing.
LEMMA DecideKeeps ==
    ASSUME ApprInv, NEW i \in Id, NEW st \in {"APPROVED", "DENIED", "CANCELLED"}, Decide(i, st)
    PROVE  ApprInv' /\ granted \subseteq granted' /\ used' = used
<1>1. CASE Swept[i].status # "PENDING"
  BY <1>1, SweepOnlyKeeps DEF Decide, SweepOnly
<1>2. CASE Swept[i].status = "PENDING"
  <2>1. /\ i \in DOMAIN appr /\ issued' = issued /\ used' = used
        /\ appr' = [Swept EXCEPT ![i].status = st]
        /\ granted' = IF st = "APPROVED" THEN granted \cup {<<i, appr[i].act>>} ELSE granted
    BY <1>2 DEF Decide
  <2>2. DOMAIN appr' = DOMAIN appr /\ granted \subseteq granted'
    BY <2>1, SweptDomain
  <2>3. ASSUME NEW j \in DOMAIN appr'
        PROVE /\ appr'[j] \in Approval
              /\ appr'[j].consumed = appr[j].consumed
              /\ appr'[j].status = "APPROVED" => <<j, appr'[j].act>> \in granted'
    <3>1. j \in DOMAIN appr
      BY <2>2
    <3>2. CASE j = i
      <4>1. appr'[j] = [Swept[j] EXCEPT !.status = st]
        BY <2>1, <3>1, <3>2, SweptDomain
      <4>2. Swept[j] \in Approval /\ Swept[j].act = appr[j].act
            /\ Swept[j].consumed = appr[j].consumed
        BY <3>1, SweptFacts
      <4>3. [Swept[j] EXCEPT !.status = st] \in Approval
        BY <4>2 DEF Approval, ApprovalStatus
      <4>4. /\ [Swept[j] EXCEPT !.status = st].act = Swept[j].act
            /\ [Swept[j] EXCEPT !.status = st].status = st
            /\ [Swept[j] EXCEPT !.status = st].consumed = Swept[j].consumed
        BY <4>2 DEF Approval
      <4>5. st = "APPROVED" => <<j, appr[j].act>> \in granted'
        BY <2>1, <3>2
      <4> QED BY <4>1, <4>2, <4>3, <4>4, <4>5
    <3>3. CASE j # i
      <4>1. appr'[j] = Swept[j]
        BY <2>1, <3>1, <3>3, SweptDomain
      <4>2. appr[j].status = "APPROVED" => <<j, appr[j].act>> \in granted
        BY <3>1 DEF ApprInv
      <4>3. granted \subseteq granted'
        BY <2>2
      <4> QED BY <3>1, <4>1, <4>2, <4>3, SweptFacts
    <3> QED BY <3>2, <3>3
  <2>4. ApprInv'
    BY <2>1, <2>2, <2>3, KeepsApprInv
  <2> QED BY <2>1, <2>2, <2>4
<1> QED BY <1>1, <1>2

\* An approval that is refused to its caller is not used.
LEMMA RejectKeeps ==
    ASSUME ApprInv, NEW i \in Id, NEW a \in Action, Reject(i, a)
    PROVE  ApprInv'
<1>1. issued' = issued /\ used' = used /\ granted' = granted
  BY DEF Reject
<1>2. /\ DOMAIN appr' = DOMAIN appr
      /\ \A j \in DOMAIN appr : appr'[j] = Swept[j]
                                  \/ appr'[j] = [appr[j] EXCEPT !.status = "EXPIRED"]
  BY DEF Reject
<1>3. ASSUME NEW j \in DOMAIN appr'
      PROVE /\ appr'[j] \in Approval
            /\ appr'[j].consumed = appr[j].consumed
            /\ appr'[j].status = "APPROVED" => <<j, appr'[j].act>> \in granted'
  <2>1. j \in DOMAIN appr /\ appr[j] \in Approval
        /\ (appr[j].status = "APPROVED" => <<j, appr[j].act>> \in granted)
    BY <1>2 DEF ApprInv
  <2>2. CASE appr'[j] = Swept[j]
    BY <1>1, <2>1, <2>2, SweptFacts
  <2>3. CASE appr'[j] = [appr[j] EXCEPT !.status = "EXPIRED"]
    <3>1. [appr[j] EXCEPT !.status = "EXPIRED"] \in Approval
      BY <2>1 DEF Approval, ApprovalStatus
    <3>2. /\ [appr[j] EXCEPT !.status = "EXPIRED"].status = "EXPIRED"
          /\ [appr[j] EXCEPT !.status = "EXPIRED"].consumed = appr[j].consumed
      BY <2>1 DEF Approval
    <3> QED BY <2>3, <3>1, <3>2
  <2> QED BY <1>2, <2>1, <2>2, <2>3
<1> QED BY <1>1, <1>2, <1>3, KeepsApprInv

\* The time of an approval passes: it is too late, not used.
LEMMA ElapseKeeps ==
    ASSUME ApprInv, NEW i \in Id, Elapse(i)
    PROVE  ApprInv'
<1>1. /\ i \in DOMAIN appr /\ issued' = issued /\ used' = used /\ granted' = granted
      /\ appr' = [appr EXCEPT ![i].late = TRUE]
  BY DEF Elapse
<1>2. ASSUME NEW j \in DOMAIN appr'
      PROVE /\ appr'[j] \in Approval
            /\ appr'[j].consumed = appr[j].consumed
            /\ appr'[j].status = "APPROVED" => <<j, appr'[j].act>> \in granted'
  <2>1. j \in DOMAIN appr /\ appr[j] \in Approval
        /\ (appr[j].status = "APPROVED" => <<j, appr[j].act>> \in granted)
    BY <1>1 DEF ApprInv
  <2>2. [appr[j] EXCEPT !.late = TRUE] \in Approval
    BY <2>1 DEF Approval
  <2>3. /\ [appr[j] EXCEPT !.late = TRUE].act = appr[j].act
        /\ [appr[j] EXCEPT !.late = TRUE].status = appr[j].status
        /\ [appr[j] EXCEPT !.late = TRUE].consumed = appr[j].consumed
    BY <2>1 DEF Approval
  <2>4. appr'[j] = IF j = i THEN [appr[j] EXCEPT !.late = TRUE] ELSE appr[j]
    BY <1>1, <2>1
  <2> QED BY <1>1, <2>1, <2>2, <2>3, <2>4
<1> QED BY <1>1, <1>2, KeepsApprInv

\* A restart forgets the approvals, and what was used stays used.
LEMMA ForgetKeeps == ASSUME ApprInv, Forget PROVE ApprInv'
<1>1. /\ DOMAIN appr' = {} /\ issued' = issued /\ used' = used /\ granted' = granted
  BY DEF Forget
<1> QED BY <1>1, KeepsApprInv

\* What a step of the store means for those who already passed the gate:
\* approvals stay granted, and what was used stays used.
ApprGrows ==
    /\ granted \subseteq granted'
    /\ \A i \in Id : used[i] # <<>> => used'[i] = used[i]

\* Every operation of the store keeps its invariant, and uses only grow.
LEMMA ApprStepKeeps == ASSUME ApprInv, ApprStep PROVE ApprInv' /\ ApprGrows
<1>1. ASSUME NEW i \in Id, NEW a \in Action, Request(appr, i, a) \/ Request(Swept, i, a)
      PROVE  ApprInv' /\ ApprGrows
  BY <1>1, RequestKeeps DEF Request, ApprGrows
<1>2. ASSUME NEW i \in Id, NEW a \in Action, Consume(i, a)
      PROVE  ApprInv' /\ ApprGrows
  <2>1. granted' = granted
    BY <1>2 DEF Consume
  <2> QED BY <1>2, <2>1, ConsumeKeeps DEF ApprGrows
<1>3. ASSUME NEW i \in Id, NEW a \in Action, Reject(i, a)
      PROVE  ApprInv' /\ ApprGrows
  <2>1. granted' = granted /\ used' = used
    BY <1>3 DEF Reject
  <2> QED BY <1>3, <2>1, RejectKeeps DEF ApprGrows
<1>4. ASSUME NEW i \in Id, NEW st \in {"APPROVED", "DENIED", "CANCELLED"}, Decide(i, st)
      PROVE  ApprInv' /\ ApprGrows
  BY <1>4, DecideKeeps DEF ApprGrows
<1>5. ASSUME NEW i \in Id, Elapse(i)
      PROVE  ApprInv' /\ ApprGrows
  <2>1. granted' = granted /\ used' = used
    BY <1>5 DEF Elapse
  <2> QED BY <1>5, <2>1, ElapseKeeps DEF ApprGrows
<1>6. ASSUME SweepOnly PROVE ApprInv' /\ ApprGrows
  <2>1. granted' = granted /\ used' = used
    BY <1>6 DEF SweepOnly
  <2> QED BY <1>6, <2>1, SweepOnlyKeeps DEF ApprGrows
<1>7. ASSUME NEW a \in Action, ToolGate(a)
      PROVE  ApprInv' /\ ApprGrows
  <2>1. CASE \E i \in DOMAIN appr : Consume(i, a)
    <3>1. PICK i \in DOMAIN appr : Consume(i, a)
      BY <2>1
    <3>2. i \in Id
      BY DEF ApprInv
    <3> QED BY <1>2, <3>1, <3>2
  <2> QED BY <1>1, <1>6, <1>7, <2>1 DEF ToolGate
<1> QED BY <1>1, <1>2, <1>3, <1>4, <1>5, <1>7 DEF ApprStep

\* Uses and grants grow when the store stays as it is, too.
LEMMA StillGrows == ASSUME UNCHANGED apprVars PROVE ApprGrows
  BY DEF apprVars, ApprGrows

\* What ApprInv leaves open of the types of the store.
MapInv ==
    /\ appr = [i \in DOMAIN appr |-> appr[i]]
    /\ granted \subseteq Id \X Action

\* Every operation keeps the list of approvals a function over issued ids.
LEMMA MapStep ==
    ASSUME ApprInv, MapInv, ApprStep \/ Forget \/ UNCHANGED apprVars
    PROVE  MapInv'
<1>1. appr' = [i \in DOMAIN appr' |-> appr'[i]]
  <2>1. ASSUME NEW i \in Id, Elapse(i) PROVE appr' = [j \in DOMAIN appr' |-> appr'[j]]
    BY <2>1 DEF Elapse, MapInv
  <2>2. ASSUME NEW i, NEW a, Request(appr, i, a) \/ Request(Swept, i, a) \/ Consume(i, a) \/ Reject(i, a)
        PROVE appr' = [j \in DOMAIN appr' |-> appr'[j]]
    BY <2>2 DEF Request, Consume, Reject, Swept
  <2>3. ASSUME SweepOnly PROVE appr' = [j \in DOMAIN appr' |-> appr'[j]]
    BY <2>3 DEF SweepOnly, Swept
  <2>4. ASSUME NEW i, NEW st, Decide(i, st) PROVE appr' = [j \in DOMAIN appr' |-> appr'[j]]
    BY <2>3, <2>4 DEF Decide, Swept
  <2>5. ASSUME Forget PROVE appr' = [j \in DOMAIN appr' |-> appr'[j]]
    BY <2>5 DEF Forget
  <2>6. ASSUME UNCHANGED apprVars PROVE appr' = [j \in DOMAIN appr' |-> appr'[j]]
    BY <2>6 DEF MapInv, apprVars
  <2> QED BY <2>1, <2>2, <2>3, <2>4, <2>5, <2>6 DEF ApprStep, ToolGate
<1>2. granted' \subseteq Id \X Action
  <2>1. ASSUME NEW i \in Id, NEW st, Decide(i, st) PROVE granted' \subseteq Id \X Action
    <3>1. i \in DOMAIN appr => appr[i].act \in Action
      BY DEF ApprInv, Approval
    <3> QED BY <2>1, <3>1 DEF Decide, SweepOnly, MapInv
  <2>2. CASE granted' = granted
    BY <2>2 DEF MapInv
  <2> QED BY <2>1, <2>2
      DEF ApprStep, Request, Consume, Reject, Elapse, ToolGate, SweepOnly, Forget, apprVars
<1> QED BY <1>1, <1>2 DEF MapInv

\* The empty store.
LEMMA ApprInvInit == ApprInit => ApprInv /\ MapInv
  BY DEF ApprInit, ApprInv, MapInv, SingleUse

\* The invariants imply the type of the store.
LEMMA TypesOfTheStore == ApprInv /\ MapInv => ApprTypeOK
<1> SUFFICES ASSUME ApprInv, MapInv PROVE ApprTypeOK
  OBVIOUS
<1>1. appr \in [DOMAIN appr -> Approval]
  BY DEF ApprInv, MapInv
<1> QED BY <1>1 DEF ApprInv, MapInv, ApprTypeOK

\* The store by itself (approvals.js 110-224): its variables keep their types
\* and an approval lets at most one action pass, the one a user approved,
\* whatever the order of requests, decisions, uses, expiry and restarts.
THEOREM StoreSingleUse == ApprSpec => [](ApprTypeOK /\ SingleUse)
<1>1. ApprInv /\ MapInv /\ [ApprStep \/ Forget]_apprVars => ApprInv' /\ MapInv'
  <2> SUFFICES ASSUME ApprInv, MapInv, [ApprStep \/ Forget]_apprVars PROVE ApprInv' /\ MapInv'
    OBVIOUS
  <2>1. MapInv'
    BY MapStep
  <2>2. CASE UNCHANGED apprVars
    BY <2>1, <2>2 DEF ApprInv, SingleUse, apprVars
  <2> QED BY <2>1, <2>2, ApprStepKeeps, ForgetKeeps
<1>2. ApprInv => SingleUse
  BY DEF ApprInv
<1> QED BY <1>1, <1>2, ApprInvInit, TypesOfTheStore, PTL DEF ApprSpec
=============================================================================
