----------------------------- MODULE ToolCalls ------------------------------
(***************************************************************************)
(* Tool calls (backend/src/impl/tool-executor.js): the gate of the         *)
(* execution controller in front of them, the keys that keep a call from   *)
(* being done twice, and the store that carries those keys over a restart  *)
(* (backend/src/idempotency.js), which the billing webhook also uses.      *)
(*                                                                         *)
(* A call is one invocation of execute: by the agent loop, by a retry of   *)
(* the same step, or by a user with an approval at hand.  Two calls may    *)
(* share a key (run, tool, step and parameters) and run at the same time.  *)
(* After the gate everything up to the start of the handler is synchronous,*)
(* so it is one step; the handler goes on when its call has timed out.     *)
(***************************************************************************)
EXTENDS Approvals, ToolPolicy, Sequences, SequencesExt

CONSTANTS
    TCall, Key, Event,      \* tool calls, their keys, webhook events
    ActOf, KeyOf,           \* the action and the key of a call
    Patch,                  \* what a user may change in the policy of a run
    ParamsOf,               \* what the parameters of an action raise (see ToolPolicy)
    MaxFast,                \* completedKeys holds so many keys (500)
    MaxStore,               \* the store holds so many records (1000)
    MaxCrashes, MaxWriteFaults, MaxPolicies   \* bounds of the model

ASSUME ToolCallsAssumption ==
    /\ ActOf \in [TCall -> Action] /\ KeyOf \in [TCall -> Key]
    /\ Tool \subseteq ToolName /\ Key \cap Event = {}
    /\ \A c, d \in TCall : KeyOf[c] = KeyOf[d] => ActOf[c] = ActOf[d]
    /\ MaxFast \in Nat /\ MaxStore \in Nat
    /\ \A p \in Patch :                    \* checked by the API, server.js 2773-2780
         /\ "autonomy" \in DOMAIN p => p.autonomy \in AutonomyMode
         /\ "mode" \in DOMAIN p => p.mode \in ApprovalMode

VARIABLES
    tc,         \* per call: where it is and what it was answered
    handler,    \* calls whose handler is running, the abandoned ones included
    fast,       \* this.completedKeys, oldest first
    recs,       \* IdempotencyStore.records, oldest update first
    file,       \* idempotency.json
    hook,       \* per event: the webhook request is between begin and complete
    policy,     \* controller.policies
    production, sandboxUrl,   \* NODE_ENV, ISOLATED_EXECUTOR_URL
    tcFaults,   \* crashes, failed writes and policy changes so far
    effects,    \* history: handler runs that went through, events accepted
    excuse,     \* history: what may have made a key run again
    ran         \* history: handler starts per action

toolVars == <<tc, handler, fast, recs, file, hook, policy, production, sandboxUrl, tcFaults,
              effects, excuse, ran, apprVars>>

Answer == {"none", "success", "deduped", "failure", "timed_out", "cancelled", "disabled",
           "bad_params", "denied", "needs_approval", "not_found", "sandbox_unavailable", "lost"}

Defn(a) == Definition(ToolOf[a])
RiskOf(a) == ClassifyRisk(Defn(a), ParamsOf[a])
Holds(k) == \E n \in 1..Len(recs) : recs[n].key = k
Completed(k) == \E n \in 1..Len(recs) : recs[n] = [key |-> k, state |-> "completed"]

ToolInit ==
    /\ ApprInit
    /\ tc = [c \in TCall |-> [at |-> "idle", ans |-> "none"]]
    /\ handler = {} /\ fast = <<>> /\ recs = <<>> /\ file = <<>>
    /\ hook = [e \in Event |-> FALSE]
    /\ policy = [r \in Run |-> DefaultPolicy("assisted")]
    /\ production \in BOOLEAN /\ sandboxUrl \in BOOLEAN
    /\ tcFaults = [crash |-> 0, write |-> 0, policy |-> 0]
    /\ effects = [k \in Key \cup Event |-> 0]
    /\ excuse = [k \in Key \cup Event |-> 0]
    /\ ran = [a \in Action |-> 0]

Goes(c, at) == tc' = [tc EXCEPT ![c] = [at |-> at, ans |-> "none"]]
Answers(c, ans) == tc' = [tc EXCEPT ![c] = [at |-> "answered", ans |-> ans]]

-----------------------------------------------------------------------------
(* The idempotency store.                                                  *)

\* records.set: the record of a key becomes the one updated last.
WithRec(s, k, state) ==
    LET at == {n \in 1..Len(s) : s[n].key = k}
    IN Append(IF at = {} THEN s ELSE RemoveAt(s, CHOOSE n \in at : TRUE),
              [key |-> k, state |-> state])

\* _evictIfNeeded: the oldest record of an operation that has ended, or else
\* the oldest one.  One too many at most.
Victim(s) ==
    LET ended == {n \in 1..Len(s) : s[n].state = "completed"}
    IN IF ended = {} THEN 1 ELSE CHOOSE n \in ended : \A m \in ended : n <= m

Evicted(s) == IF Len(s) > MaxStore THEN RemoveAt(s, Victim(s)) ELSE s

\* The keys a change of the store forgets.
Forgotten(s, t) == {s[n].key : n \in 1..Len(s)} \ {t[n].key : n \in 1..Len(t)}

Excused(keys) == [k \in Key \cup Event |-> excuse[k] + (IF k \in keys THEN 1 ELSE 0)]

\* Seeded fault: the record is kept in memory until the next flush.
BugWriteLater(s) ==
    /\ recs' = Evicted(s)
    /\ UNCHANGED file
    /\ UNCHANGED tcFaults

\* begin and complete end with _evictIfNeeded and _persist (temporary file and
\* rename); a failed write is only logged.
Save(s) ==
    /\ recs' = Evicted(s)
    /\ \/ file' = recs' /\ UNCHANGED tcFaults
       \/ /\ tcFaults.write < MaxWriteFaults
          /\ tcFaults' = [tcFaults EXCEPT !.write = @ + 1]
          /\ UNCHANGED file

\* After Save: the keys evicted, and the one at hand when its write failed.
NotKept(s, k) == Forgotten(s, recs') \cup (IF tcFaults' # tcFaults THEN {k} ELSE {})

\* completedKeys.set, then the oldest key goes when there are too many.
Remember(k) ==
    LET s == IF Contains(fast, k) THEN fast ELSE Append(fast, k)
    IN fast' = IF Len(s) > MaxFast THEN Tail(s) ELSE s

-----------------------------------------------------------------------------
(* execute: registry, parameters, gate.                                    *)

Setting == <<production, sandboxUrl>>
Books == <<fast, recs, file, hook, effects, excuse, ran>>

\* getTool, status and validateParams.
CallTool(c) ==
    /\ tc[c].at = "idle"
    /\ IF ToolOf[ActOf[c]] \in Disabled THEN Answers(c, "disabled")
       ELSE Goes(c, "gate") \/ Answers(c, "bad_params")
    /\ UNCHANGED <<handler, policy, tcFaults, Setting, Books, apprVars>>

\* _preGate, in production: reads as ever, commands only with a sandbox.
ProductionAnswer(t) ==
    CASE ~production \/ t \in ReadTools -> "pass"
      [] production /\ t \in CommandTools /\ sandboxUrl -> "pass"
      [] production /\ t \in CommandTools /\ ~sandboxUrl -> "sandbox_unavailable"
      [] OTHER -> "denied"

Gated(a) == NeedsApproval(policy[RunOf[a]].mode, Defn(a), RiskOf(a))

\* What _preGate refuses without looking at approvals.  The constraints a user
\* puts on paths may refuse any write.
Refuse(c) ==
    LET a == ActOf[c]  t == ToolOf[a]  prod == ProductionAnswer(t)
    IN /\ tc[c].at = "gate"
       /\ \/ prod # "pass" /\ Answers(c, prod)
          \/ /\ prod = "pass" /\ ~AllowedByPolicy(policy[RunOf[a]], Defn(a))
             /\ Answers(c, "denied")
          \/ /\ prod = "pass" /\ AllowedByPolicy(policy[RunOf[a]], Defn(a))
             /\ t \in {"apply_patch", "git_commit", "git_add"} /\ Answers(c, "denied")
       /\ UNCHANGED <<handler, policy, tcFaults, Setting, Books, apprVars>>

\* The rest of the gate: nothing to approve; an approval given with the call, or
\* found by peek, is used up; or one is asked for.
MayPass(c) ==
    /\ tc[c].at = "gate"
    /\ ProductionAnswer(ToolOf[ActOf[c]]) = "pass"
    /\ AllowedByPolicy(policy[RunOf[ActOf[c]]], Defn(ActOf[c]))

Admit(c) ==
    /\ MayPass(c)
    /\ \/ ~Gated(ActOf[c]) /\ Goes(c, "start") /\ UNCHANGED apprVars
       \/ Gated(ActOf[c]) /\ Goes(c, "start") /\ \E i \in DOMAIN appr : Consume(i, ActOf[c])
       \/ /\ Gated(ActOf[c]) /\ Answers(c, "denied")          \* an explicit id that does not fit
          /\ \E i \in Id : Reject(i, ActOf[c])
       \/ /\ Gated(ActOf[c]) /\ \A i \in DOMAIN appr : ~Usable(i, ActOf[c])
          /\ \/ Answers(c, "needs_approval") /\ \E i \in Id : Request(Swept, i, ActOf[c])
             \/ Answers(c, "denied") /\ ~MayRequest(Swept, ActOf[c]) /\ SweepOnly
    /\ UNCHANGED <<handler, policy, tcFaults, Setting, Books>>

-----------------------------------------------------------------------------
(* execute: the keys, the handler and its answer.                          *)

\* The key is known: the stored result is the answer.
Dedupe(c) ==
    /\ tc[c].at = "start"
    /\ \/ Contains(fast, KeyOf[c]) /\ UNCHANGED fast
       \/ ~Contains(fast, KeyOf[c]) /\ Completed(KeyOf[c]) /\ Remember(KeyOf[c])
    /\ Answers(c, "deduped")
    /\ UNCHANGED <<handler, recs, file, hook, policy, tcFaults, Setting, effects, excuse, ran,
                   apprVars>>

Fresh(c) == tc[c].at = "start" /\ ~Contains(fast, KeyOf[c]) /\ ~Completed(KeyOf[c])

\* Nothing claims the key: another call may be running it already.
StartHandler(c) ==
    /\ Fresh(c) /\ ToolOf[ActOf[c]] \in Handled
    /\ Goes(c, "running") /\ handler' = handler \cup {c}
    /\ ran' = [ran EXCEPT ![ActOf[c]] = @ + 1]
    /\ excuse' = Excused(IF \E d \in TCall : tc[d].at = "running" /\ KeyOf[d] = KeyOf[c]
                         THEN {KeyOf[c]} ELSE {})
    /\ UNCHANGED <<fast, recs, file, hook, policy, tcFaults, Setting, effects, apprVars>>

\* The signal is aborted already, or no handler has that name.
NotStarted(c) ==
    /\ Fresh(c)
    /\ Answers(c, "cancelled") \/ (ToolOf[ActOf[c]] \notin Handled /\ Answers(c, "not_found"))
    /\ UNCHANGED <<handler, policy, tcFaults, Setting, Books, apprVars>>

\* The handler is done and its output says so (validateToolOutput): the key is
\* kept in both places before the call is answered.
HandlerSucceeds(c) ==
    LET k == KeyOf[c]
    IN /\ c \in handler /\ handler' = handler \ {c}
       /\ effects' = [effects EXCEPT ![k] = @ + 1]
       /\ IF tc[c].at = "running"
          THEN /\ Answers(c, "success") /\ Remember(k)
               /\ Save(WithRec(recs, k, "completed"))
               /\ excuse' = Excused(NotKept(WithRec(recs, k, "completed"), k))
          ELSE UNCHANGED <<tc, fast, recs, file, excuse, tcFaults>>
       /\ UNCHANGED <<hook, policy, Setting, ran, apprVars>>

\* It throws, exits with a code or reports that the tests fail.
HandlerFails(c) ==
    /\ c \in handler /\ handler' = handler \ {c}
    /\ IF tc[c].at = "running" THEN Answers(c, "failure") ELSE UNCHANGED tc
    /\ UNCHANGED <<policy, tcFaults, Setting, Books, apprVars>>

\* The race is won by the timer or by the abort of the run; the handler goes on.
GiveUp(c, ans) ==
    /\ tc[c].at = "running" /\ Answers(c, ans)
    /\ excuse' = Excused({KeyOf[c]})
    /\ UNCHANGED <<handler, fast, recs, file, hook, policy, tcFaults, Setting, effects, ran,
                   apprVars>>

-----------------------------------------------------------------------------
(* The billing webhook, policies, restarts.                                *)

\* beginAsync without a shared backend: an event that has a record is a duplicate.
HookBegin(e) ==
    /\ ~hook[e] /\ ~Holds(e)
    /\ hook' = [hook EXCEPT ![e] = TRUE]
    /\ effects' = [effects EXCEPT ![e] = @ + 1]
    /\ Save(WithRec(recs, e, "running"))
    /\ excuse' = Excused(NotKept(WithRec(recs, e, "running"), e))
    /\ UNCHANGED <<tc, handler, fast, policy, Setting, ran, apprVars>>

HookComplete(e) ==
    /\ hook[e] /\ hook' = [hook EXCEPT ![e] = FALSE]
    /\ Save(WithRec(recs, e, "completed"))
    /\ excuse' = Excused(NotKept(WithRec(recs, e, "completed"), e))
    /\ UNCHANGED <<tc, handler, fast, policy, Setting, effects, ran, apprVars>>

SetPolicy(r, patch) ==
    /\ tcFaults.policy < MaxPolicies
    /\ policy' = [policy EXCEPT ![r] = Patched(@, patch)]
    /\ tcFaults' = [tcFaults EXCEPT !.policy = @ + 1]
    /\ UNCHANGED <<tc, handler, Setting, Books, apprVars>>

\* The process dies and starts again: the file is what is left, every policy is
\* the default, and a call that had not been answered never is.
ToolCrash ==
    LET running == {KeyOf[c] : c \in handler}
    IN /\ tcFaults.crash < MaxCrashes
       /\ tcFaults' = [tcFaults EXCEPT !.crash = @ + 1]
       /\ tc' = [c \in TCall |-> IF tc[c].at \in {"idle", "answered"} THEN tc[c]
                                 ELSE [at |-> "answered", ans |-> "lost"]]
       /\ handler' = {} /\ fast' = <<>> /\ recs' = file
       /\ hook' = [e \in Event |-> FALSE]
       /\ \E done \in SUBSET running :       \* what went through all the same
            effects' = [k \in Key \cup Event |-> effects[k] + (IF k \in done THEN 1 ELSE 0)]
       /\ excuse' = Excused(running)
       /\ policy' = [r \in Run |-> DefaultPolicy("assisted")]
       /\ Forget /\ UNCHANGED <<file, Setting, ran>>

\* The approvals API (the gate is Admit).
UserDecides ==
    /\ \E i \in Id, st \in {"APPROVED", "DENIED"} : Decide(i, st)
    /\ UNCHANGED <<tc, handler, policy, tcFaults, Setting, Books>>

ApprovalLate ==
    /\ \E i \in Id : Elapse(i)
    /\ UNCHANGED <<tc, handler, policy, tcFaults, Setting, Books>>

ToolNext ==
    \/ \E c \in TCall :
        \/ CallTool(c) \/ Refuse(c) \/ Admit(c) \/ Dedupe(c) \/ StartHandler(c) \/ NotStarted(c)
        \/ HandlerSucceeds(c) \/ HandlerFails(c)
        \/ GiveUp(c, "timed_out") \/ GiveUp(c, "cancelled")
    \/ \E e \in Event : HookBegin(e) \/ HookComplete(e)
    \/ \E r \in Run, p \in Patch : SetPolicy(r, p)
    \/ UserDecides \/ ApprovalLate \/ ToolCrash

ToolSpec == ToolInit /\ [][ToolNext]_toolVars

-----------------------------------------------------------------------------
ToolTypeOK ==
    /\ ApprTypeOK
    /\ tc \in [TCall -> [at: {"idle", "gate", "start", "running", "answered"}, ans: Answer]]
    /\ \A c \in TCall : (tc[c].at = "answered") = (tc[c].ans # "none")
    /\ \A r \in Run : policy[r].autonomy \in AutonomyMode /\ policy[r].mode \in ApprovalMode
    /\ handler \subseteq TCall /\ {c \in TCall : tc[c].at = "running"} \subseteq handler
    /\ Len(fast) <= MaxFast /\ Len(recs) <= MaxStore /\ Len(file) <= MaxStore
    /\ \A n \in 1..Len(recs) : recs[n].key \in Key \cup Event

\* "a COMPLETED record from a previous process must NOT re-execute" and "retries
\* return the stored result instead of re-executing" (idempotency.js,
\* tool-executor.js): a key is carried out again, and a billing event accepted
\* again, only when something it cannot know of came in between: a call that was
\* given up while its handler went on, two calls at the same time, a crash, a
\* record evicted or never written.  Each of these buys one repetition at most.
EffectsExplained == \A k \in Key \cup Event : effects[k] <= 1 + excuse[k]

\* "Autonomous NEVER means unrestricted: HIGH/CRITICAL always need approval"
\* (execution-policy.js), whatever the policy is changed to in the middle of a
\* run, across retries, expiry and restarts: such a call is carried out at most
\* once for every approval a user gave for it.  In production nothing but reads
\* and commands for the sandbox is carried out at all.
EveryRunAuthorised ==
    \A a \in Action :
        /\ RiskOf(a) >= HIGH => ran[a] <= Cardinality({i \in Id : <<i, a>> \in granted})
        /\ (production /\ ran[a] > 0) =>
              ToolOf[a] \in ReadTools \/ (ToolOf[a] \in CommandTools /\ sandboxUrl)
=============================================================================
