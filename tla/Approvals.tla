----------------------------- MODULE Approvals ------------------------------
(***************************************************************************)
(* The approval store (backend/src/execution/approvals.js) and the gate in *)
(* front of tool calls (_preGate in controller.js).  An action stands for  *)
(* what an approval is bound to: run, action type and the fingerprint of   *)
(* the parameters.  The store lives in memory: a restart forgets it.       *)
(*                                                                         *)
(* The operations of the store are synchronous, so each is one step, and   *)
(* so are the peek and the checkAndConsume of one gate call.  Agents and   *)
(* users call them in any order; time passes in between.                   *)
(***************************************************************************)
EXTENDS Naturals, Sequences, FiniteSets

CONSTANTS
    Id,            \* approval ids; each is issued at most once
    Run, Tool,
    Action,        \* bindings: run, tool and parameters
    RunOf, ToolOf, \* the run and the tool of an action
    MaxPending     \* pending approvals of a run (50 in the code)

ASSUME ApprovalsAssumption ==
    RunOf \in [Action -> Run] /\ ToolOf \in [Action -> Tool] /\ MaxPending \in Nat

VARIABLES
    appr,      \* this.approvals: a map from the ids it holds
    issued,    \* history: the ids given out, the forgotten ones included
    granted,   \* history: <<id, action>> for every approval by a user
    used       \* history: per id, the actions that passed the gate with it

apprVars == <<appr, issued, granted, used>>

ApprovalStatus == {"PENDING", "APPROVED", "DENIED", "EXPIRED", "CANCELLED"}

\* late abstracts "expiresAt <= now".
Approval == [act: Action, status: ApprovalStatus, late: BOOLEAN, consumed: BOOLEAN]

ApprInit ==
    /\ appr = <<>> /\ issued = {} /\ granted = {}
    /\ used = [i \in Id |-> <<>>]

-----------------------------------------------------------------------------
\* _sweepExpired: what is past its time cannot be decided or used any more.
Swept ==
    [i \in DOMAIN appr |->
        IF appr[i].late /\ appr[i].status \in {"PENDING", "APPROVED"}
        THEN [appr[i] EXCEPT !.status = "EXPIRED"] ELSE appr[i]]

\* request: refused when the run has maxPending pending approvals.
MayRequest(store, a) ==
    Cardinality({i \in DOMAIN store : /\ store[i].status = "PENDING"
                                      /\ RunOf[store[i].act] = RunOf[a]}) < MaxPending

Request(store, i, a) ==
    /\ MayRequest(store, a) /\ i \in Id \ issued
    /\ appr' = [j \in DOMAIN store \cup {i} |->
                   IF j = i THEN [act |-> a, status |-> "PENDING", late |-> FALSE,
                                  consumed |-> FALSE]
                   ELSE store[j]]
    /\ issued' = issued \cup {i}
    /\ UNCHANGED <<granted, used>>

\* An operation that changes nothing but what the sweep expires.
SweepOnly == appr' = Swept /\ UNCHANGED <<issued, granted, used>>

\* approve, deny, cancel: only a pending approval is settled.
Decide(i, status) ==
    /\ i \in DOMAIN appr
    /\ IF Swept[i].status = "PENDING"
       THEN /\ appr' = [Swept EXCEPT ![i].status = status]
            /\ granted' = IF status = "APPROVED" THEN granted \cup {<<i, appr[i].act>>}
                          ELSE granted
            /\ UNCHANGED <<issued, used>>
       ELSE SweepOnly

\* Seeded fault: the consumed flag is not tested.
BugReplay(i, a) == Swept[i].act = a /\ Swept[i].status = "APPROVED"

Usable(i, a) == Swept[i].act = a /\ Swept[i].status = "APPROVED" /\ ~Swept[i].consumed

\* checkAndConsume: the approval is used up and the action passes.
Consume(i, a) ==
    /\ i \in DOMAIN appr /\ Usable(i, a)
    /\ appr' = [Swept EXCEPT ![i].consumed = TRUE]
    /\ used' = [used EXCEPT ![i] = Append(@, a)]
    /\ UNCHANGED <<issued, granted>>

\* checkAndConsume refuses.  An approval of the same run and tool that is past
\* its time is marked as expired whatever the decision was.
Reject(i, a) ==
    /\ i \in DOMAIN appr => ~Usable(i, a)
    /\ appr' = [j \in DOMAIN appr |->
                   IF j = i /\ appr[j].late /\ RunOf[appr[j].act] = RunOf[a]
                            /\ ToolOf[appr[j].act] = ToolOf[a]
                   THEN [appr[j] EXCEPT !.status = "EXPIRED"] ELSE Swept[j]]
    /\ UNCHANGED <<issued, granted, used>>

\* The gate of a tool call without an explicit approval: use a matching one,
\* or else request one and block the call (denied past maxPending).
ToolGate(a) ==
    \/ \E i \in DOMAIN appr : Consume(i, a)
    \/ /\ \A i \in DOMAIN appr : ~Usable(i, a)
       /\ \/ \E i \in Id : Request(Swept, i, a)
          \/ ~MayRequest(Swept, a) /\ SweepOnly

Elapse(i) ==
    /\ i \in DOMAIN appr /\ ~appr[i].late
    /\ appr' = [appr EXCEPT ![i].late = TRUE]
    /\ UNCHANGED <<issued, granted, used>>

Forget == appr' = <<>> /\ UNCHANGED <<issued, granted, used>>

-----------------------------------------------------------------------------
\* What users and agents may do with the store at any time: the approvals API,
\* gated calls with and without an explicit approval, and the passing of time.
ApprStep ==
    \/ \E i \in Id, a \in Action : Request(appr, i, a) \/ Consume(i, a) \/ Reject(i, a)
    \/ \E i \in Id, st \in {"APPROVED", "DENIED", "CANCELLED"} : Decide(i, st)
    \/ \E i \in Id : Elapse(i)
    \/ \E a \in Action : ToolGate(a)

ApprSpec == ApprInit /\ [][ApprStep \/ Forget]_apprVars

ApprTypeOK ==
    /\ DOMAIN appr \subseteq issued /\ issued \subseteq Id
    /\ appr \in [DOMAIN appr -> Approval]
    /\ granted \subseteq Id \X Action
    /\ used \in [Id -> Seq(Action)]

\* "Approvals cannot be escalated or replayed: each approval binds runId +
\* actionType + resource fingerprint, expires, and is single-use" (approvals.js
\* header): whatever the order of requests, decisions, expiry, retries of a
\* gated call and restarts, an approval lets at most one action pass, and that
\* action is the one a user approved.
SingleUse ==
    \A i \in Id : /\ Len(used[i]) <= 1
                  /\ \A n \in 1..Len(used[i]) : <<i, used[i][n]>> \in granted
=============================================================================
