-------------------------- MODULE ToolCallsProofs --------------------------
(***************************************************************************)
(* Tool calls, for any number of calls, keys, events, actions, approvals   *)
(* and restarts: a key is carried out again only as often as something     *)
(* excuses it, and every run of a dangerous call was approved.             *)
(*                                                                         *)
(* The parts: the store of the keys; the types of the state; saving; what  *)
(* is due for a key (KeyInv); what the approvals pay for (AuthInv); then   *)
(* what carries the calls out: commands, fetches and patches.              *)
(***************************************************************************)
EXTENDS MCTools, ApprovalsProofs, FiniteSetTheorems, SequenceTheorems, WellFoundedInduction

-----------------------------------------------------------------------------
(* The store: what saving a record does to the records of other keys.      *)

\* A record of the store.
Rec == [key: Key \cup Event, state: {"running", "completed"}]

Entry(k, st) == [key |-> k, state |-> st]

HoldsIn(s, k) == \E n \in 1..Len(s) : s[n].key = k

\* The record of a tool call is only written when its handler is done.
DoneIn(s) == \A n \in 1..Len(s) : s[n].key \in Key => s[n].state = "completed"

\* Every record of t is one of s.
From(t, s) == \A n \in 1..Len(t) : \E m \in 1..Len(s) : t[n] = s[m]

\* ... or the record r.
Adds(t, s, r) == \A n \in 1..Len(t) : t[n] = r \/ \E m \in 1..Len(s) : t[n] = s[m]

\* A set of numbers that is not empty has a least one.
LEMMA LeastNat ==
    ASSUME NEW T, T \subseteq Nat, T # {}
    PROVE  \E n \in T : \A m \in T : n <= m
<1>1. PICK n \in T : \A m \in T : ~(<<m, n>> \in OpToRel(<, Nat))
  BY NatLessThanWellFounded, WFMin
<1>2. ASSUME NEW m \in T PROVE n <= m
  <2>1. m \in Nat /\ n \in Nat /\ ~(<<m, n>> \in OpToRel(<, Nat))
    BY <1>1
  <2>2. ~(m < n)
    BY <2>1, Zenon DEF OpToRel
  <2>3. m \in Nat /\ n \in Nat
    OBVIOUS
  <2> QED BY <2>2, <2>3
<1> QED BY <1>2

\* What is left of a list when one entry is taken out.
LEMMA RemoveAtProperties ==
    ASSUME NEW S, NEW s \in Seq(S), NEW v \in 1..Len(s)
    PROVE  /\ RemoveAt(s, v) \in Seq(S)
           /\ Len(RemoveAt(s, v)) = Len(s) - 1
           /\ \A i \in 1..(Len(s) - 1) : RemoveAt(s, v)[i] = IF i < v THEN s[i] ELSE s[i + 1]
<1> DEFINE p == SubSeq(s, 1, v - 1)
           q == SubSeq(s, v + 1, Len(s))
<1>1. Len(s) \in Nat /\ v \in Nat /\ v >= 1 /\ v <= Len(s) /\ \A i \in 1..Len(s) : s[i] \in S
  OBVIOUS
<1>2. /\ p \in Seq(S) /\ Len(p) = v - 1
      /\ \A i \in 1..(v - 1) : p[i] = s[i]
  BY <1>1, SubSeqProperties
<1>3. /\ q \in Seq(S) /\ Len(q) = Len(s) - v
      /\ \A i \in 1..(Len(s) - v) : q[i] = s[v + i]
  <2>1. \A i \in (v + 1)..Len(s) : s[i] \in S
    BY <1>1
  <2>2. /\ q \in Seq(S)
        /\ Len(q) = IF v + 1 <= Len(s) THEN Len(s) - (v + 1) + 1 ELSE 0
        /\ \A i \in 1..(Len(s) - (v + 1) + 1) : q[i] = s[(v + 1) + i - 1]
    BY <1>1, <2>1, SubSeqProperties
  <2> HIDE DEF q
  <2> QED BY <1>1, <2>2
<1>4. RemoveAt(s, v) = p \o q
  BY DEF RemoveAt
<1> HIDE DEF p, q
<1>5. /\ p \o q \in Seq(S) /\ Len(p \o q) = Len(p) + Len(q)
      /\ \A i \in 1..(Len(p) + Len(q)) :
             (p \o q)[i] = IF i <= Len(p) THEN p[i] ELSE q[i - Len(p)]
  BY <1>2, <1>3, ConcatProperties
<1>6. ASSUME NEW i \in 1..(Len(s) - 1)
      PROVE  RemoveAt(s, v)[i] = IF i < v THEN s[i] ELSE s[i + 1]
  <2>1. CASE i < v
    BY <1>1, <1>2, <1>3, <1>4, <1>5, <2>1
  <2>2. CASE ~(i < v)
    <3>1. i - (v - 1) \in 1..(Len(s) - v) /\ v + (i - (v - 1)) = i + 1
      BY <1>1, <2>2
    <3>2. (p \o q)[i] = q[i - (v - 1)]
      BY <1>1, <1>2, <1>3, <1>5, <2>2
    <3> QED BY <1>3, <1>4, <2>2, <3>1, <3>2
  <2> QED BY <2>1, <2>2
<1> QED BY <1>1, <1>2, <1>3, <1>4, <1>5, <1>6

\* It is made of entries of the list, and misses only that one.
LEMMA RemoveAtFrom ==
    ASSUME NEW S, NEW s \in Seq(S), NEW v \in 1..Len(s)
    PROVE  /\ RemoveAt(s, v) \in Seq(S) /\ Len(RemoveAt(s, v)) = Len(s) - 1
           /\ From(RemoveAt(s, v), s)
           /\ \A m \in 1..Len(s) : m # v => \E n \in 1..Len(RemoveAt(s, v)) : RemoveAt(s, v)[n] = s[m]
<1> DEFINE t == RemoveAt(s, v)
<1>1. /\ t \in Seq(S) /\ Len(t) = Len(s) - 1
      /\ \A i \in 1..(Len(s) - 1) : t[i] = IF i < v THEN s[i] ELSE s[i + 1]
  BY RemoveAtProperties
<1> HIDE DEF t
<1>2. Len(s) \in Nat
  OBVIOUS
<1>3. From(t, s)
  <2> SUFFICES ASSUME NEW n \in 1..Len(t) PROVE \E m \in 1..Len(s) : t[n] = s[m]
    BY DEF From
  <2>1. n \in 1..Len(s) /\ n + 1 \in 1..Len(s) /\ (t[n] = s[n] \/ t[n] = s[n + 1])
    BY <1>1, <1>2
  <2> QED BY <2>1
<1>4. ASSUME NEW m \in 1..Len(s), m # v PROVE \E n \in 1..Len(t) : t[n] = s[m]
  <2>1. CASE m < v
    <3>1. m \in 1..Len(t) /\ t[m] = s[m]
      BY <1>1, <1>2, <2>1
    <3> QED BY <3>1
  <2>2. CASE m > v
    <3>1. m - 1 \in 1..Len(t) /\ ~(m - 1 < v) /\ (m - 1) + 1 = m
      BY <1>1, <1>2, <2>2
    <3>2. t[m - 1] = s[m]
      BY <1>1, <3>1
    <3> QED BY <3>1, <3>2
  <2> QED BY <1>4, <2>1, <2>2
<1> QED BY <1>1, <1>3, <1>4 DEF t

\* A record is added to the idempotency store or replaces its own.
LEMMA WithRecProperties ==
    ASSUME NEW s \in Seq(Rec), NEW k \in Key \cup Event, NEW st \in {"running", "completed"},
           NEW t, t = WithRec(s, k, st)
    PROVE  /\ t \in Seq(Rec) /\ Len(t) <= Len(s) + 1
           /\ HoldsIn(t, k)
           /\ \A j : HoldsIn(s, j) => HoldsIn(t, j)
           /\ Adds(t, s, Entry(k, st))
<1> DEFINE r == Entry(k, st)
           places == {n \in 1..Len(s) : s[n].key = k}
           v == CHOOSE n \in places : TRUE
           u == IF places = {} THEN s ELSE RemoveAt(s, v)
<1>1. r \in Rec /\ r.key = k /\ t = Append(u, r)
  BY DEF WithRec, Rec, Entry
<1>2. /\ u \in Seq(Rec) /\ Len(u) <= Len(s) /\ From(u, s)
      /\ \A j : HoldsIn(s, j) => j = k \/ HoldsIn(u, j)
  <2>1. CASE places = {}
    BY <2>1 DEF From
  <2>2. CASE places # {}
    <3>1. v \in 1..Len(s) /\ s[v].key = k
      BY <2>2
    <3> HIDE DEF v
    <3>2. /\ RemoveAt(s, v) \in Seq(Rec) /\ Len(RemoveAt(s, v)) = Len(s) - 1
          /\ From(RemoveAt(s, v), s)
          /\ \A m \in 1..Len(s) : m # v =>
                 \E n \in 1..Len(RemoveAt(s, v)) : RemoveAt(s, v)[n] = s[m]
      BY <3>1, RemoveAtFrom
    <3>3. u = RemoveAt(s, v)
      BY <2>2
    <3> HIDE DEF u, places
    <3>4. ASSUME NEW j, HoldsIn(s, j), j # k PROVE HoldsIn(u, j)
      <4>1. PICK m \in 1..Len(s) : s[m].key = j
        BY <3>4 DEF HoldsIn
      <4>2. PICK n \in 1..Len(u) : u[n] = s[m]
        BY <3>1, <3>2, <3>3, <3>4, <4>1
      <4> QED BY <4>1, <4>2 DEF HoldsIn
    <3>5. Len(s) \in Nat
      OBVIOUS
    <3> QED BY <3>2, <3>3, <3>4, <3>5
  <2> QED BY <2>1, <2>2
<1> HIDE DEF u, r
<1>3. /\ t \in Seq(Rec) /\ Len(t) = Len(u) + 1 /\ t[Len(u) + 1] = r
      /\ \A n \in 1..Len(u) : t[n] = u[n]
  BY <1>1, <1>2
<1>4. Len(u) \in Nat /\ Len(s) \in Nat
  BY <1>2
<1>5. \A n \in 1..Len(t) : n \in 1..Len(u) \/ n = Len(u) + 1
  BY <1>3, <1>4
<1>6. Len(u) + 1 \in 1..Len(t) /\ \A n \in 1..Len(u) : n \in 1..Len(t)
  BY <1>3, <1>4
<1>7. HoldsIn(t, k)
  BY <1>1, <1>3, <1>6 DEF HoldsIn
<1>8. \A j : HoldsIn(u, j) => HoldsIn(t, j)
  BY <1>3, <1>6 DEF HoldsIn
<1>9. \A n \in 1..Len(t) : t[n] = r \/ \E m \in 1..Len(s) : t[n] = s[m]
  BY <1>2, <1>3, <1>5 DEF From
<1> QED BY <1>2, <1>3, <1>4, <1>7, <1>8, <1>9 DEF r, Adds

\* Eviction keeps the store within its limit and invents no record.
LEMMA EvictedProperties ==
    ASSUME NEW s \in Seq(Rec), Len(s) <= MaxStore + 1
    PROVE  Evicted(s) \in Seq(Rec) /\ Len(Evicted(s)) <= MaxStore /\ From(Evicted(s), s)
<1>1. Len(s) \in Nat /\ MaxStore \in Nat
  BY ToolCallsAssumption
<1>2. CASE Len(s) <= MaxStore
  BY <1>1, <1>2 DEF Evicted, From
<1>3. CASE Len(s) > MaxStore
  <2> DEFINE ended == {n \in 1..Len(s) : s[n].state = "completed"}
  <2>1. Victim(s) \in 1..Len(s)
    <3>1. CASE ended = {}
      BY <1>1, <1>3, <3>1 DEF Victim
    <3>2. CASE ended # {}
      <4>1. ended \subseteq Nat
        OBVIOUS
      <4>2. \E n \in ended : \A m \in ended : n <= m
        BY <3>2, <4>1, LeastNat
      <4>3. (CHOOSE n \in ended : \A m \in ended : n <= m) \in ended
        BY <4>2
      <4> QED BY <3>2, <4>3 DEF Victim
    <3> QED BY <3>1, <3>2
  <2>2. PICK v \in 1..Len(s) : v = Victim(s)
    BY <2>1
  <2>3. Evicted(s) = RemoveAt(s, v)
    BY <1>1, <1>3, <2>2 DEF Evicted
  <2> QED BY <1>1, <2>3, RemoveAtFrom
<1> QED BY <1>1, <1>2, <1>3
-----------------------------------------------------------------------------
(* The types of the state, and what they say beyond ToolTypeOK.            *)

Place == {"idle", "gate", "start", "running", "answered"}

CallsOK ==
    /\ tc \in [TCall -> [at: Place, ans: Answer]]
    /\ \A c \in TCall : tc[c].at = "answered" <=> tc[c].ans # "none"
    /\ handler \subseteq TCall
    /\ \A c \in TCall : tc[c].at = "running" => c \in handler

BooksOK ==
    /\ fast \in Seq(Key) /\ Len(fast) <= MaxFast
    /\ recs \in Seq(Rec) /\ Len(recs) <= MaxStore
    /\ file \in Seq(Rec) /\ Len(file) <= MaxStore
    /\ tcFaults \in [crash: Nat, write: Nat, policy: Nat]
    /\ effects \in [Key \cup Event -> Nat] /\ excuse \in [Key \cup Event -> Nat]
    /\ ran \in [Action -> Nat]

\* A policy always names an autonomy and an approval mode that exist.
PolicyOK(p) ==
    {"autonomy", "mode"} \subseteq DOMAIN p /\ p.autonomy \in AutonomyMode /\ p.mode \in ApprovalMode

PoliciesOK == DOMAIN policy = Run /\ \A r \in Run : PolicyOK(policy[r])

StateInv == CallsOK /\ BooksOK /\ PoliciesOK

\* Every preset names a legal approval mode.
LEMMA PresetModeLegal == \A x : PresetMode(x) \in ApprovalMode
<1> TAKE x
<1>1. CASE x = "read_only"
  BY <1>1, Zenon DEF PresetMode, ApprovalMode
<1>2. CASE x = "assisted" /\ x # "read_only"
  BY <1>2, Zenon DEF PresetMode, ApprovalMode
<1>3. CASE x # "read_only" /\ x # "assisted"
  BY <1>3 DEF PresetMode, ApprovalMode
<1> QED BY <1>1, <1>2, <1>3

\* The default policy is legal.
LEMMA DefaultPolicyOK == PolicyOK(DefaultPolicy("assisted"))
<1>1. /\ {"autonomy", "mode"} \subseteq DOMAIN DefaultPolicy("assisted")
      /\ DefaultPolicy("assisted").autonomy = "assisted"
      /\ DefaultPolicy("assisted").mode = PresetMode("assisted")
  BY DEF DefaultPolicy
<1> QED BY <1>1, PresetModeLegal DEF PolicyOK, AutonomyMode

\* A legal patch keeps a policy legal.
LEMMA PatchedPolicyOK ==
    ASSUME NEW pol, PolicyOK(pol), NEW patch \in Patch
    PROVE  PolicyOK(Patched(pol, patch))
<1> DEFINE merged == [f \in DOMAIN pol |-> IF f \in DOMAIN patch THEN patch[f] ELSE pol[f]]
<1>1. {"autonomy", "mode"} \subseteq DOMAIN pol
      /\ pol.autonomy \in AutonomyMode /\ pol.mode \in ApprovalMode
  BY DEF PolicyOK
<1>2. /\ "autonomy" \in DOMAIN patch => patch.autonomy \in AutonomyMode
      /\ "mode" \in DOMAIN patch => patch.mode \in ApprovalMode
  BY ToolCallsAssumption
<1>3. /\ DOMAIN merged = DOMAIN pol
      /\ merged.autonomy \in AutonomyMode /\ merged.mode \in ApprovalMode
  BY <1>1, <1>2
<1>4. Patched(pol, patch) = IF "autonomy" \in DOMAIN patch /\ "mode" \notin DOMAIN patch
                            THEN [merged EXCEPT !.mode = PresetMode(patch.autonomy)]
                            ELSE merged
  BY DEF Patched
<1> HIDE DEF merged
<1>5. CASE "autonomy" \in DOMAIN patch /\ "mode" \notin DOMAIN patch
  <2>1. Patched(pol, patch) = [merged EXCEPT !.mode = PresetMode(patch.autonomy)]
    BY <1>4, <1>5
  <2>2. /\ DOMAIN Patched(pol, patch) = DOMAIN pol
        /\ Patched(pol, patch).autonomy = merged.autonomy
        /\ Patched(pol, patch).mode = PresetMode(patch.autonomy)
    BY <1>1, <1>3, <2>1
  <2> QED BY <1>1, <1>3, <2>2, PresetModeLegal DEF PolicyOK
<1>6. CASE ~("autonomy" \in DOMAIN patch /\ "mode" \notin DOMAIN patch)
  BY <1>1, <1>3, <1>4, <1>6 DEF PolicyOK
<1> QED BY <1>5, <1>6

\* What a call that moves leaves behind.
LEMMA CallMoves ==
    ASSUME CallsOK, NEW c \in TCall, NEW dest \in Place, NEW ans \in Answer,
           tc' = [tc EXCEPT ![c] = [at |-> dest, ans |-> ans]],
           dest = "answered" <=> ans # "none",
           dest = "running" => c \in handler',
           handler \ {c} \subseteq handler', handler' \subseteq TCall
    PROVE  CallsOK'
<1> DEFINE x == [at |-> dest, ans |-> ans]
<1>1. x \in [at: Place, ans: Answer] /\ x.at = dest /\ x.ans = ans
  OBVIOUS
<1> HIDE DEF x
<1>2. tc' = [tc EXCEPT ![c] = x]
  BY DEF x
<1>3. \A d \in TCall : tc'[d] = IF d = c THEN x ELSE tc[d]
  BY <1>2 DEF CallsOK
<1>4. tc' \in [TCall -> [at: Place, ans: Answer]]
  BY <1>1, <1>2 DEF CallsOK
<1>5. ASSUME NEW d \in TCall
      PROVE (tc'[d].at = "answered" <=> tc'[d].ans # "none")
            /\ (tc'[d].at = "running" => d \in handler')
  BY <1>1, <1>3 DEF CallsOK
<1> QED BY <1>4, <1>5 DEF CallsOK

\* Every step keeps the calls typed.
LEMMA CallsKeep == ASSUME CallsOK, ToolNext PROVE CallsOK'
<1>1. ASSUME NEW c \in TCall, NEW ans \in Answer \ {"none"}, Answers(c, ans),
             handler' = handler \/ handler' = handler \ {c}
      PROVE  CallsOK'
  <2>1. handler \subseteq TCall
    BY DEF CallsOK
  <2> QED BY <1>1, <2>1, CallMoves DEF Answers, Place
<1>2. ASSUME NEW c \in TCall, NEW dest \in {"gate", "start"}, Goes(c, dest), handler' = handler
      PROVE  CallsOK'
  <2>1. handler \subseteq TCall /\ "none" \in Answer
    BY DEF CallsOK, Answer
  <2> QED BY <1>2, <2>1, CallMoves DEF Goes, Place
<1>3. ASSUME NEW c \in TCall, CallTool(c) PROVE CallsOK'
  BY <1>1, <1>2, <1>3 DEF CallTool, Answer
<1>4. ASSUME NEW c \in TCall, Refuse(c) PROVE CallsOK'
  <2>1. handler' = handler /\ \E ans \in {ProductionAnswer(ToolOf[ActOf[c]]), "denied"} :
                                 ans # "pass" /\ Answers(c, ans)
    BY <1>4 DEF Refuse
  <2>2. ProductionAnswer(ToolOf[ActOf[c]]) \in {"pass", "sandbox_unavailable", "denied"}
    BY DEF ProductionAnswer
  <2>3. "sandbox_unavailable" \in Answer \ {"none"} /\ "denied" \in Answer \ {"none"}
    BY DEF Answer
  <2> QED BY <1>1, <2>1, <2>2, <2>3
<1>5. ASSUME NEW c \in TCall, Admit(c) PROVE CallsOK'
  <2>1. handler' = handler /\ (Goes(c, "start") \/ Answers(c, "denied") \/ Answers(c, "needs_approval"))
    BY <1>5 DEF Admit
  <2>2. "needs_approval" \in Answer \ {"none"} /\ "denied" \in Answer \ {"none"}
    BY DEF Answer
  <2> QED BY <1>1, <1>2, <2>1, <2>2
<1>6. ASSUME NEW c \in TCall, Dedupe(c) PROVE CallsOK'
  BY <1>1, <1>6 DEF Dedupe, Answer
<1>7. ASSUME NEW c \in TCall, StartHandler(c) PROVE CallsOK'
  <2>1. /\ tc' = [tc EXCEPT ![c] = [at |-> "running", ans |-> "none"]]
        /\ handler' = handler \cup {c} /\ handler \subseteq TCall
        /\ "none" \in Answer /\ "running" \in Place
    BY <1>7 DEF StartHandler, Goes, CallsOK, Answer, Place
  <2> QED BY <2>1, CallMoves
<1>8. ASSUME NEW c \in TCall, NotStarted(c) PROVE CallsOK'
  BY <1>1, <1>8 DEF NotStarted, Answer
<1>9. ASSUME NEW c \in TCall, handler' = handler \ {c}, tc' = tc, tc[c].at # "running"
      PROVE  CallsOK'
  BY <1>9 DEF CallsOK
<1>10. ASSUME NEW c \in TCall, HandlerSucceeds(c) PROVE CallsOK'
  BY <1>1, <1>9, <1>10 DEF HandlerSucceeds, Answer
<1>11. ASSUME NEW c \in TCall, HandlerFails(c) PROVE CallsOK'
  BY <1>1, <1>9, <1>11 DEF HandlerFails, Answer
<1>12. ASSUME NEW c \in TCall, NEW ans \in {"timed_out", "cancelled"}, GiveUp(c, ans) PROVE CallsOK'
  <2>1. ans \in Answer \ {"none"} /\ Answers(c, ans) /\ handler' = handler
    BY <1>12 DEF GiveUp, Answer
  <2> QED BY <1>1, <2>1
<1>13. ASSUME tc' = tc, handler' = handler PROVE CallsOK'
  BY <1>13 DEF CallsOK
<1>14. ASSUME ToolCrash PROVE CallsOK'
  <2>1. /\ tc' = [c \in TCall |-> IF tc[c].at \in {"idle", "answered"} THEN tc[c]
                                  ELSE [at |-> "answered", ans |-> "lost"]]
        /\ handler' = {}
    BY <1>14 DEF ToolCrash
  <2>2. "lost" \in Answer /\ "lost" # "none" /\ "answered" \in Place
    BY DEF Answer, Place
  <2>3. ASSUME NEW c \in TCall
        PROVE  /\ tc'[c] \in [at: Place, ans: Answer]
               /\ tc'[c].at = "answered" <=> tc'[c].ans # "none"
               /\ tc'[c].at # "running"
    <3>1. CASE tc[c].at \in {"idle", "answered"}
      BY <2>1, <3>1 DEF CallsOK
    <3>2. CASE tc[c].at \notin {"idle", "answered"}
      BY <2>1, <2>2, <3>2
    <3> QED BY <3>1, <3>2
  <2>4. tc' \in [TCall -> [at: Place, ans: Answer]]
    BY <2>1, <2>3
  <2> QED BY <2>1, <2>3, <2>4 DEF CallsOK
<1>15. (\E e \in Event : HookBegin(e) \/ HookComplete(e)) => CallsOK'
  BY <1>13 DEF HookBegin, HookComplete
<1>16. (\E r \in Run, p \in Patch : SetPolicy(r, p)) \/ UserDecides \/ ApprovalLate => CallsOK'
  BY <1>13 DEF SetPolicy, UserDecides, ApprovalLate
<1> QED BY <1>3, <1>4, <1>5, <1>6, <1>7, <1>8, <1>10, <1>11, <1>12, <1>14, <1>15, <1>16 DEF ToolNext

\* Every step keeps the policies legal.
LEMMA PoliciesKeep == ASSUME PoliciesOK, ToolNext PROVE PoliciesOK'
<1>1. CASE policy' = policy
  BY <1>1 DEF PoliciesOK
<1>2. ASSUME NEW r \in Run, NEW p \in Patch, SetPolicy(r, p) PROVE PoliciesOK'
  <2>1. policy' = [policy EXCEPT ![r] = Patched(@, p)]
    BY <1>2 DEF SetPolicy
  <2>2. PolicyOK(Patched(policy[r], p))
    BY PatchedPolicyOK DEF PoliciesOK
  <2> QED BY <2>1, <2>2 DEF PoliciesOK
<1>3. CASE ToolCrash
  <2>1. policy' = [r \in Run |-> DefaultPolicy("assisted")]
    BY <1>3 DEF ToolCrash
  <2> QED BY <2>1, DefaultPolicyOK DEF PoliciesOK
<1> QED BY <1>1, <1>2, <1>3
    DEF ToolNext, CallTool, Refuse, Admit, Dedupe, StartHandler, NotStarted, HandlerSucceeds,
        HandlerFails, GiveUp, HookBegin, HookComplete, UserDecides, ApprovalLate
-----------------------------------------------------------------------------
(* Saving.                                                                 *)

\* What is known of saving the record of a key: the store keeps its form, and a
\* record that both copies held, or the one at hand, is still in both unless
\* the save is what excuses a repetition.
Saved(k) ==
    /\ recs' \in Seq(Rec) /\ Len(recs') <= MaxStore
    /\ file' \in Seq(Rec) /\ Len(file') <= MaxStore
    /\ DoneIn(recs) /\ DoneIn(file) => DoneIn(recs') /\ DoneIn(file')
    /\ tcFaults' \in [crash: Nat, write: Nat, policy: Nat]
    /\ excuse' \in [Key \cup Event -> Nat]
    /\ \A j \in Key \cup Event :
         /\ excuse'[j] >= excuse[j]
         /\ j = k \/ (HoldsIn(recs, j) /\ HoldsIn(file, j)) =>
              \/ HoldsIn(recs', j) /\ HoldsIn(file', j)
              \/ excuse'[j] = excuse[j] + 1

\* An excuse is counted for each key whose record was not kept.
LEMMA ExcusedProperties ==
    ASSUME BooksOK, NEW K
    PROVE  /\ Excused(K) \in [Key \cup Event -> Nat]
           /\ \A j \in Key \cup Event :
                Excused(K)[j] = IF j \in K THEN excuse[j] + 1 ELSE excuse[j]
  BY DEF BooksOK, Excused

\* A save keeps the record in both copies or counts an excuse for its key.
LEMMA SaveKeeps ==
    ASSUME BooksOK, NEW k \in Key \cup Event, NEW st \in {"running", "completed"},
           k \in Key => st = "completed",
           Save(WithRec(recs, k, st)), excuse' = Excused(NotKept(WithRec(recs, k, st), k))
    PROVE  Saved(k)
<1>1. PICK t : t = WithRec(recs, k, st)
  OBVIOUS
<1>0. recs \in Seq(Rec) /\ Len(recs) <= MaxStore
  BY DEF BooksOK
<1>2. /\ t \in Seq(Rec) /\ Len(t) <= Len(recs) + 1
      /\ HoldsIn(t, k)
      /\ \A j : HoldsIn(recs, j) => HoldsIn(t, j)
      /\ Adds(t, recs, Entry(k, st))
  BY <1>0, <1>1, WithRecProperties
<1>3. /\ recs' = Evicted(t)
      /\ \/ file' = recs' /\ tcFaults' = tcFaults
         \/ tcFaults' = [tcFaults EXCEPT !.write = @ + 1] /\ file' = file
      /\ excuse' = Excused(Forgotten(t, recs') \cup (IF tcFaults' # tcFaults THEN {k} ELSE {}))
  BY <1>1 DEF Save, NotKept
<1>4. Len(t) <= MaxStore + 1
  <2>1. Len(recs) \in Nat /\ Len(t) \in Nat /\ MaxStore \in Nat /\ Len(recs) <= MaxStore
    BY <1>2, ToolCallsAssumption DEF BooksOK
  <2> QED BY <1>2, <2>1
<1>5. recs' \in Seq(Rec) /\ Len(recs') <= MaxStore /\ From(recs', t)
  BY <1>2, <1>3, <1>4, EvictedProperties
<1>6. file' \in Seq(Rec) /\ Len(file') <= MaxStore
  BY <1>3, <1>5 DEF BooksOK
<1>7. DoneIn(recs) /\ DoneIn(file) => DoneIn(recs') /\ DoneIn(file')
  <2> SUFFICES ASSUME DoneIn(recs), DoneIn(file) PROVE DoneIn(recs') /\ DoneIn(file')
    OBVIOUS
  <2>1. DoneIn(t)
    BY <1>2 DEF DoneIn, Adds, Entry
  <2>2. DoneIn(recs')
    BY <1>5, <2>1 DEF DoneIn, From
  <2> QED BY <1>3, <2>2
<1>8. /\ tcFaults' \in [crash: Nat, write: Nat, policy: Nat]
      /\ tcFaults' = tcFaults \/ (tcFaults' # tcFaults /\ file' = file)
      /\ tcFaults' = tcFaults => file' = recs'
  <2>1. tcFaults \in [crash: Nat, write: Nat, policy: Nat]
    BY DEF BooksOK
  <2>2. [tcFaults EXCEPT !.write = @ + 1] \in [crash: Nat, write: Nat, policy: Nat]
        /\ [tcFaults EXCEPT !.write = @ + 1].write = tcFaults.write + 1
        /\ tcFaults.write + 1 # tcFaults.write
    BY <2>1
  <2>3. [tcFaults EXCEPT !.write = @ + 1] # tcFaults
    BY <2>2
  <2> QED BY <1>3, <2>1, <2>2, <2>3
<1>9. excuse' \in [Key \cup Event -> Nat] /\ \A j \in Key \cup Event : excuse'[j] >= excuse[j]
  <2>1. PICK K : excuse' = Excused(K)
    BY <1>3
  <2>2. /\ excuse' \in [Key \cup Event -> Nat]
        /\ \A j \in Key \cup Event : excuse'[j] = IF j \in K THEN excuse[j] + 1 ELSE excuse[j]
    BY <2>1, ExcusedProperties
  <2>3. \A j \in Key \cup Event : excuse[j] \in Nat
    BY DEF BooksOK
  <2> QED BY <2>2, <2>3
<1>10. ASSUME NEW j \in Key \cup Event, HoldsIn(t, j), ~HoldsIn(recs', j)
       PROVE  excuse'[j] = excuse[j] + 1
  <2>1. j \in Forgotten(t, recs')
    BY <1>10 DEF Forgotten, HoldsIn
  <2> QED BY <1>3, <2>1, ExcusedProperties
<1>11. ASSUME NEW j \in Key \cup Event, j = k \/ (HoldsIn(recs, j) /\ HoldsIn(file, j)),
              HoldsIn(recs', j), ~HoldsIn(file', j)
       PROVE  excuse'[j] = excuse[j] + 1
  <2>1. tcFaults' # tcFaults /\ j = k
    BY <1>8, <1>11
  <2>2. j \in Forgotten(t, recs') \cup (IF tcFaults' # tcFaults THEN {k} ELSE {})
    BY <2>1
  <2> QED BY <1>3, <2>2, ExcusedProperties
<1>12. ASSUME NEW j \in Key \cup Event, j = k \/ (HoldsIn(recs, j) /\ HoldsIn(file, j))
       PROVE  \/ HoldsIn(recs', j) /\ HoldsIn(file', j)
              \/ excuse'[j] = excuse[j] + 1
  BY <1>2, <1>10, <1>11, <1>12
<1> QED BY <1>5, <1>6, <1>7, <1>8, <1>9, <1>12 DEF Saved

\* completedKeys: it never outgrows its limit.
LEMMA RememberKeeps ==
    ASSUME fast \in Seq(Key), Len(fast) <= MaxFast, NEW k \in Key, Remember(k)
    PROVE  fast' \in Seq(Key) /\ Len(fast') <= MaxFast
<1>1. PICK s : s = IF Contains(fast, k) THEN fast ELSE Append(fast, k)
  OBVIOUS
<1>2. s \in Seq(Key) /\ Len(s) \in Nat /\ Len(s) <= MaxFast + 1 /\ MaxFast \in Nat
  BY <1>1, ToolCallsAssumption
<1>3. fast' = IF Len(s) > MaxFast THEN Tail(s) ELSE s
  BY <1>1 DEF Remember
<1>4. CASE Len(s) > MaxFast
  <2>1. s # << >>
    BY <1>2, <1>4
  <2>2. Tail(s) \in Seq(Key) /\ Len(Tail(s)) = Len(s) - 1
    BY <1>2, <2>1
  <2> QED BY <1>2, <1>3, <1>4, <2>2
<1>5. CASE ~(Len(s) > MaxFast)
  BY <1>2, <1>3, <1>5
<1> QED BY <1>4, <1>5

\* Calls have keys and actions.
LEMMA KeysFit == \A c \in TCall : KeyOf[c] \in Key /\ ActOf[c] \in Action
  BY ToolCallsAssumption

\* Every step keeps records, effects and excuses typed.
LEMMA BooksKeep == ASSUME BooksOK, CallsOK, ToolNext PROVE BooksOK'
<1>1. CASE UNCHANGED <<fast, recs, file, tcFaults, effects, excuse, ran>>
  BY <1>1 DEF BooksOK
<1>2. ASSUME NEW f \in [Key \cup Event -> Nat], NEW k \in Key \cup Event
      PROVE  [f EXCEPT ![k] = @ + 1] \in [Key \cup Event -> Nat]
  OBVIOUS
<1>3. ASSUME NEW c \in TCall, CallTool(c) \/ Refuse(c) \/ Admit(c) \/ NotStarted(c) PROVE BooksOK'
  BY <1>1, <1>3 DEF CallTool, Refuse, Admit, NotStarted, Books
<1>4. ASSUME NEW c \in TCall, Dedupe(c) PROVE BooksOK'
  <2>1. fast' \in Seq(Key) /\ Len(fast') <= MaxFast
    BY <1>4, KeysFit, RememberKeeps DEF Dedupe, BooksOK
  <2> QED BY <1>4, <2>1 DEF Dedupe, BooksOK
<1>5. ASSUME NEW c \in TCall, StartHandler(c) PROVE BooksOK'
  <2>1. excuse' \in [Key \cup Event -> Nat]
    BY <1>5, ExcusedProperties DEF StartHandler
  <2>2. ran' \in [Action -> Nat]
    BY <1>5, KeysFit DEF StartHandler, BooksOK
  <2> QED BY <1>5, <2>1, <2>2 DEF StartHandler, BooksOK
<1>6. ASSUME NEW c \in TCall, HandlerSucceeds(c) PROVE BooksOK'
  <2>1. KeyOf[c] \in Key
    BY KeysFit
  <2>2. effects' \in [Key \cup Event -> Nat] /\ ran' = ran
    BY <1>2, <1>6, <2>1 DEF HandlerSucceeds, BooksOK
  <2>3. CASE tc[c].at = "running"
    <3>1. fast' \in Seq(Key) /\ Len(fast') <= MaxFast
      BY <1>6, <2>1, <2>3, RememberKeeps DEF HandlerSucceeds, BooksOK
    <3>2. Saved(KeyOf[c])
      BY <1>6, <2>1, <2>3, SaveKeeps DEF HandlerSucceeds
    <3> QED BY <2>2, <3>1, <3>2 DEF Saved, BooksOK
  <2>4. CASE tc[c].at # "running"
    BY <1>6, <2>2, <2>4 DEF HandlerSucceeds, BooksOK
  <2> QED BY <2>3, <2>4
<1>7. ASSUME NEW c \in TCall, HandlerFails(c) PROVE BooksOK'
  BY <1>1, <1>7 DEF HandlerFails, Books
<1>8. ASSUME NEW c \in TCall, NEW ans, GiveUp(c, ans) PROVE BooksOK'
  <2>1. excuse' \in [Key \cup Event -> Nat]
    BY <1>8, ExcusedProperties DEF GiveUp
  <2> QED BY <1>8, <2>1 DEF GiveUp, BooksOK
<1>9. ASSUME NEW e \in Event, HookBegin(e) \/ HookComplete(e) PROVE BooksOK'
  <2>1. e \notin Key
    BY ToolCallsAssumption
  <2>2. Saved(e)
    BY <1>9, <2>1, SaveKeeps DEF HookBegin, HookComplete
  <2>3. /\ effects' = [effects EXCEPT ![e] = @ + 1] \/ effects' = effects
        /\ ran' = ran /\ fast' = fast
    BY <1>9 DEF HookBegin, HookComplete
  <2>4. effects' \in [Key \cup Event -> Nat]
    <3>1. effects \in [Key \cup Event -> Nat]
      BY DEF BooksOK
    <3>2. [effects EXCEPT ![e] = @ + 1] \in [Key \cup Event -> Nat]
      BY <1>2, <3>1
    <3> QED BY <2>3, <3>1, <3>2
  <2> QED BY <2>2, <2>3, <2>4 DEF Saved, BooksOK
<1>10. ASSUME NEW r \in Run, NEW p \in Patch, SetPolicy(r, p) PROVE BooksOK'
  <2>1. tcFaults' \in [crash: Nat, write: Nat, policy: Nat]
    <3>1. tcFaults' = [tcFaults EXCEPT !.policy = @ + 1] /\ tcFaults \in [crash: Nat, write: Nat, policy: Nat]
      BY <1>10 DEF SetPolicy, BooksOK
    <3> QED BY <3>1
  <2> QED BY <1>10, <2>1 DEF SetPolicy, Books, BooksOK
<1>11. ASSUME ToolCrash PROVE BooksOK'
  <2>1. tcFaults' \in [crash: Nat, write: Nat, policy: Nat]
    <3>1. tcFaults' = [tcFaults EXCEPT !.crash = @ + 1] /\ tcFaults \in [crash: Nat, write: Nat, policy: Nat]
      BY <1>11 DEF ToolCrash, BooksOK
    <3> QED BY <3>1
  <2>2. excuse' \in [Key \cup Event -> Nat]
    BY <1>11, ExcusedProperties DEF ToolCrash
  <2>3. effects' \in [Key \cup Event -> Nat]
    BY <1>11 DEF ToolCrash, BooksOK
  <2>4. fast' = <<>> /\ recs' = file /\ file' = file /\ ran' = ran
    BY <1>11 DEF ToolCrash
  <2> QED BY <2>1, <2>2, <2>3, <2>4, ToolCallsAssumption DEF BooksOK
<1>12. CASE UserDecides \/ ApprovalLate
  BY <1>1, <1>12 DEF UserDecides, ApprovalLate, Books
<1> QED BY <1>3, <1>4, <1>5, <1>6, <1>7, <1>8, <1>9, <1>10, <1>11, <1>12 DEF ToolNext
-----------------------------------------------------------------------------
(* How often a key was carried out.                                        *)

\* The handlers of a key that are running, of a set h of handlers.
FlightOf(h, k) == {c \in h : KeyOf[c] = k}

Runs(k) == \E c \in TCall : tc[c].at = "running" /\ KeyOf[c] = k
Kept(k) == HoldsIn(recs, k) /\ HoldsIn(file, k)

\* What has been carried out, and what the running handlers may still add.
Due(k) == effects[k] + Cardinality(FlightOf(handler, k))

\* A key is due once, and once more for every excuse; as long as no call of it
\* waits for its handler and no record of it is in memory and on the disk, the
\* next call will start it, so what is due has to be excused already.
KeyInv ==
    /\ IsFiniteSet(handler)
    /\ DoneIn(recs) /\ DoneIn(file)
    /\ \A k \in Key \cup Event :
         /\ Due(k) <= 1 + excuse[k]
         /\ ~Runs(k) /\ ~Kept(k) => Due(k) <= excuse[k]

\* Counting the handlers of a key that are in flight.
LEMMA FlightProperties ==
    ASSUME NEW h, IsFiniteSet(h), NEW k
    PROVE  /\ Cardinality(FlightOf(h, k)) \in Nat
           /\ (\E c \in h : KeyOf[c] = k) => Cardinality(FlightOf(h, k)) >= 1
           /\ (\A c \in h : KeyOf[c] # k) => Cardinality(FlightOf(h, k)) = 0
           /\ \A c : /\ IsFiniteSet(h \cup {c}) /\ IsFiniteSet(h \ {c})
                     /\ Cardinality(FlightOf(h \cup {c}, k)) <=
                            Cardinality(FlightOf(h, k)) + (IF KeyOf[c] = k THEN 1 ELSE 0)
                     /\ c \in h => Cardinality(FlightOf(h \ {c}, k)) =
                            Cardinality(FlightOf(h, k)) - (IF KeyOf[c] = k THEN 1 ELSE 0)
<1>1. FlightOf(h, k) \subseteq h
  BY DEF FlightOf
<1>2. IsFiniteSet(FlightOf(h, k))
  BY <1>1, FS_Subset
<1>3. Cardinality(FlightOf(h, k)) \in Nat
  BY <1>2, FS_CardinalityType
<1>4. ASSUME NEW c \in h, KeyOf[c] = k PROVE Cardinality(FlightOf(h, k)) >= 1
  <2>1. FlightOf(h, k) # {}
    BY <1>4 DEF FlightOf
  <2>2. Cardinality(FlightOf(h, k)) # 0
    BY <1>2, <2>1, FS_EmptySet
  <2> QED BY <1>3, <2>2
<1>5. ASSUME \A c \in h : KeyOf[c] # k PROVE Cardinality(FlightOf(h, k)) = 0
  <2>1. FlightOf(h, k) = {}
    BY <1>5 DEF FlightOf
  <2> QED BY <2>1, FS_EmptySet
<1>6. ASSUME NEW c
      PROVE  /\ IsFiniteSet(h \cup {c}) /\ IsFiniteSet(h \ {c})
             /\ Cardinality(FlightOf(h \cup {c}, k)) <=
                    Cardinality(FlightOf(h, k)) + (IF KeyOf[c] = k THEN 1 ELSE 0)
             /\ c \in h => Cardinality(FlightOf(h \ {c}, k)) =
                    Cardinality(FlightOf(h, k)) - (IF KeyOf[c] = k THEN 1 ELSE 0)
  <2>1. IsFiniteSet(h \cup {c}) /\ IsFiniteSet(h \ {c})
    BY FS_AddElement, FS_RemoveElement
  <2>2. CASE KeyOf[c] = k
    <3>1. FlightOf(h \cup {c}, k) = FlightOf(h, k) \cup {c}
      BY <2>2 DEF FlightOf
    <3>2. FlightOf(h \ {c}, k) = FlightOf(h, k) \ {c} /\ (c \in h => c \in FlightOf(h, k))
      BY <2>2 DEF FlightOf
    <3>3. Cardinality(FlightOf(h, k) \cup {c}) <= Cardinality(FlightOf(h, k)) + 1
      BY <1>2, <1>3, FS_AddElement
    <3>4. c \in FlightOf(h, k) =>
            Cardinality(FlightOf(h, k) \ {c}) = Cardinality(FlightOf(h, k)) - 1
      BY <1>2, FS_RemoveElement
    <3> QED BY <2>1, <2>2, <3>1, <3>2, <3>3, <3>4
  <2>3. CASE KeyOf[c] # k
    <3>1. FlightOf(h \cup {c}, k) = FlightOf(h, k) /\ FlightOf(h \ {c}, k) = FlightOf(h, k)
      BY <2>3 DEF FlightOf
    <3> QED BY <1>3, <2>1, <2>3, <3>1
  <2> QED BY <2>2, <2>3
<1> QED BY <1>3, <1>4, <1>5, <1>6

\* The counts are numbers.
LEMMA DueType ==
    ASSUME BooksOK, IsFiniteSet(handler), NEW k \in Key \cup Event
    PROVE  Due(k) \in Nat /\ excuse[k] \in Nat /\ effects[k] \in Nat
<1>1. Cardinality(FlightOf(handler, k)) \in Nat
  BY FlightProperties
<1> QED BY <1>1 DEF BooksOK, Due

\* What a step may do to a key: what is due does not outgrow its excuses, and
\* what makes the next call start again is excused; or the key was free, and
\* one more is due.
Fair(k) ==
    \/ /\ Due(k)' - Due(k) <= excuse'[k] - excuse[k]
       /\ ~Runs(k)' /\ ~Kept(k)' =>
            \/ ~Runs(k) /\ ~Kept(k)
            \/ Due(k)' - Due(k) < excuse'[k] - excuse[k]
    \/ /\ ~Runs(k) /\ ~Kept(k)
       /\ Due(k)' - Due(k) <= excuse'[k] - excuse[k] + 1
       /\ ~Runs(k)' /\ ~Kept(k)' => Due(k)' - Due(k) <= excuse'[k] - excuse[k]

\* The invariant is kept when each key is treated fairly.
LEMMA FairKeeps ==
    ASSUME BooksOK, BooksOK', KeyInv, IsFiniteSet(handler'), DoneIn(recs'), DoneIn(file'),
           \A k \in Key \cup Event : Fair(k)
    PROVE  KeyInv'
<1>1. ASSUME NEW k \in Key \cup Event
      PROVE  /\ Due(k)' <= 1 + excuse'[k]
             /\ ~Runs(k)' /\ ~Kept(k)' => Due(k)' <= excuse'[k]
  <2>1. Due(k) \in Nat /\ excuse[k] \in Nat
    BY DueType DEF KeyInv
  <2>2. Due(k)' \in Nat /\ excuse'[k] \in Nat
    <3>1. Cardinality(FlightOf(handler', k)) \in Nat
      BY FlightProperties
    <3>2. effects'[k] \in Nat /\ excuse'[k] \in Nat
      BY DEF BooksOK
    <3> QED BY <3>1, <3>2 DEF Due
  <2>3. Fair(k)
    OBVIOUS
  <2>4. Due(k) <= 1 + excuse[k] /\ (~Runs(k) /\ ~Kept(k) => Due(k) <= excuse[k])
    BY DEF KeyInv
  <2> QED BY <2>1, <2>2, <2>3, <2>4 DEF Fair
<1> QED BY <1>1 DEF KeyInv

\* And when no record, handler or effect changes.
LEMMA KeyQuiet ==
    ASSUME KeyInv, UNCHANGED <<handler, effects, recs, file, excuse>>,
           \A k \in Key \cup Event : Runs(k) => Runs(k)'
    PROVE  KeyInv'
<1>1. ASSUME NEW k \in Key \cup Event
      PROVE  /\ Due(k)' <= 1 + excuse'[k]
             /\ ~Runs(k)' /\ ~Kept(k)' => Due(k)' <= excuse'[k]
  <2>1. Due(k)' = Due(k) /\ Kept(k)' = Kept(k) /\ excuse'[k] = excuse[k]
    BY DEF Due, Kept
  <2>2. Runs(k) => Runs(k)'
    OBVIOUS
  <2> QED BY <2>1, <2>2 DEF KeyInv
<1> QED BY <1>1 DEF KeyInv

\* A call that moves on decides for its own key only who runs.
LEMMA RunsMoves ==
    ASSUME CallsOK, NEW c \in TCall, NEW dest, NEW ans,
           tc' = [tc EXCEPT ![c] = [at |-> dest, ans |-> ans]]
    PROVE  /\ \A k : k # KeyOf[c] => (Runs(k)' <=> Runs(k))
           /\ tc[c].at # "running" => \A k : Runs(k) => Runs(k)'
           /\ dest = "running" => Runs(KeyOf[c])'
<1>1. \A d \in TCall : tc'[d] = IF d = c THEN [at |-> dest, ans |-> ans] ELSE tc[d]
  BY DEF CallsOK
<1>2. ASSUME NEW k, k # KeyOf[c] PROVE Runs(k)' <=> Runs(k)
  BY <1>1, <1>2 DEF Runs
<1>3. ASSUME tc[c].at # "running", NEW k, Runs(k) PROVE Runs(k)'
  BY <1>1, <1>3 DEF Runs
<1>4. dest = "running" => Runs(KeyOf[c])'
  BY <1>1 DEF Runs
<1> QED BY <1>2, <1>3, <1>4

\* Every step treats each key fairly: a handler starts only unrecorded.
LEMMA KeyKeeps == ASSUME StateInv, StateInv', KeyInv, ToolNext PROVE KeyInv'
<1> USE DEF StateInv
<1>1. ASSUME NEW c \in TCall, NEW dest, NEW ans, tc[c].at # "running",
             tc' = [tc EXCEPT ![c] = [at |-> dest, ans |-> ans]],
             UNCHANGED <<handler, effects, recs, file, excuse>>
      PROVE  KeyInv'
  BY <1>1, RunsMoves, KeyQuiet
<1>2. ASSUME NEW c \in TCall, CallTool(c) \/ Refuse(c) \/ Admit(c) \/ Dedupe(c) \/ NotStarted(c)
      PROVE  KeyInv'
  <2>1. tc[c].at \in {"idle", "gate", "start"}
    BY <1>2 DEF CallTool, Refuse, Admit, MayPass, Dedupe, NotStarted, Fresh
  <2>2. UNCHANGED <<handler, effects, recs, file, excuse>>
    BY <1>2 DEF CallTool, Refuse, Admit, Dedupe, NotStarted, Books
  <2>3. \E dest, ans : tc' = [tc EXCEPT ![c] = [at |-> dest, ans |-> ans]]
    BY <1>2 DEF CallTool, Refuse, Admit, Dedupe, NotStarted, Goes, Answers
  <2> QED BY <1>1, <2>1, <2>2, <2>3
<1>3. ASSUME NEW c \in TCall, StartHandler(c) PROVE KeyInv'
  <2> DEFINE kc == KeyOf[c]
  <2>1. /\ kc \in Key /\ handler' = handler \cup {c} /\ effects' = effects
        /\ recs' = recs /\ file' = file
        /\ excuse' = Excused(IF Runs(kc) THEN {kc} ELSE {})
        /\ Runs(kc)'
    BY <1>3, KeysFit, RunsMoves DEF StartHandler, Goes, Runs
  <2>2. ~HoldsIn(recs, kc)
    <3>1. ~Completed(kc) /\ recs \in Seq(Rec) /\ DoneIn(recs)
      BY <1>3 DEF StartHandler, Fresh, KeyInv, BooksOK
    <3>2. ASSUME NEW n \in 1..Len(recs), recs[n].key = kc PROVE FALSE
      <4>1. recs[n] \in Rec /\ recs[n].state = "completed"
        BY <2>1, <3>1, <3>2 DEF DoneIn
      <4>2. recs[n] = [key |-> kc, state |-> "completed"]
        BY <3>2, <4>1 DEF Rec
      <4> QED BY <3>1, <4>2 DEF Completed
    <3> QED BY <3>2 DEF HoldsIn
  <2>3. \A k : k # kc => (Runs(k)' <=> Runs(k))
    BY <1>3, RunsMoves DEF StartHandler, Goes
  <2> HIDE DEF kc
  <2>4. ASSUME NEW k \in Key \cup Event PROVE Fair(k)
    <3>1. /\ effects[k] \in Nat /\ excuse[k] \in Nat
          /\ Cardinality(FlightOf(handler, k)) \in Nat /\ Cardinality(FlightOf(handler', k)) \in Nat
          /\ Cardinality(FlightOf(handler', k)) <=
                 Cardinality(FlightOf(handler, k)) + (IF kc = k THEN 1 ELSE 0)
      BY <2>1, DueType, FlightProperties DEF KeyInv, kc
    <3>2. excuse'[k] = IF Runs(kc) /\ k = kc THEN excuse[k] + 1 ELSE excuse[k]
      BY <2>1, ExcusedProperties
    <3>3. Kept(k)' <=> Kept(k)
      BY <2>1 DEF Kept
    <3>4. Due(k) = effects[k] + Cardinality(FlightOf(handler, k))
          /\ Due(k)' = effects[k] + Cardinality(FlightOf(handler', k))
      BY <2>1 DEF Due
    <3>5. k = kc => Runs(k)' /\ ~Kept(k)
      BY <2>1, <2>2 DEF Kept
    <3> QED BY <2>3, <3>1, <3>2, <3>3, <3>4, <3>5 DEF Fair
  <2>5. IsFiniteSet(handler')
    BY <2>1, FS_AddElement DEF KeyInv
  <2> QED BY <2>1, <2>4, <2>5, FairKeeps DEF KeyInv
<1>4. ASSUME NEW c \in TCall, HandlerSucceeds(c) PROVE KeyInv'
  <2> DEFINE kc == KeyOf[c]
  <2>1. kc \in Key /\ c \in handler /\ handler' = handler \ {c} /\ effects' = [effects EXCEPT ![kc] = @ + 1]
    BY <1>4, KeysFit DEF HandlerSucceeds
  <2>2. IsFiniteSet(handler')
    BY <2>1, FS_RemoveElement DEF KeyInv
  <2> HIDE DEF kc
  <2>3. ASSUME NEW k \in Key \cup Event PROVE Due(k)' = Due(k) /\ Due(k) \in Nat /\ excuse[k] \in Nat
    <3>1. /\ effects[k] \in Nat /\ excuse[k] \in Nat
          /\ Cardinality(FlightOf(handler, k)) \in Nat
          /\ Cardinality(FlightOf(handler', k)) =
                 Cardinality(FlightOf(handler, k)) - (IF kc = k THEN 1 ELSE 0)
      BY <2>1, DueType, FlightProperties DEF KeyInv, kc
    <3>2. effects'[k] = IF kc = k THEN effects[k] + 1 ELSE effects[k]
      BY <2>1 DEF BooksOK
    <3> QED BY <3>1, <3>2 DEF Due
  <2>4. CASE tc[c].at = "running"
    <3>1. Saved(kc)
      BY <1>4, <2>1, <2>4, SaveKeeps DEF HandlerSucceeds, kc
    <3>2. \A k : k # kc => (Runs(k)' <=> Runs(k))
      BY <1>4, <2>4, RunsMoves DEF HandlerSucceeds, Answers, kc
    <3>3. ASSUME NEW k \in Key \cup Event PROVE Fair(k)
      <4>1. /\ excuse'[k] \in Nat /\ excuse'[k] >= excuse[k]
            /\ k = kc \/ Kept(k) => Kept(k)' \/ excuse'[k] = excuse[k] + 1
        BY <3>1 DEF Saved, Kept
      <4> QED BY <2>3, <3>2, <4>1 DEF Fair
    <3> QED BY <2>2, <3>1, <3>3, FairKeeps DEF Saved, KeyInv
  <2>5. CASE tc[c].at # "running"
    <3>1. tc' = tc /\ recs' = recs /\ file' = file /\ excuse' = excuse
      BY <1>4, <2>5 DEF HandlerSucceeds
    <3>2. ASSUME NEW k \in Key \cup Event PROVE Fair(k)
      <4>1. (Runs(k)' <=> Runs(k)) /\ (Kept(k)' <=> Kept(k))
        BY <3>1 DEF Runs, Kept
      <4> QED BY <2>3, <3>1, <4>1 DEF Fair
    <3> QED BY <2>2, <3>1, <3>2, FairKeeps DEF KeyInv
  <2> QED BY <2>4, <2>5
<1>5. ASSUME NEW c \in TCall, HandlerFails(c) PROVE KeyInv'
  <2> DEFINE kc == KeyOf[c]
  <2>1. /\ kc \in Key /\ c \in handler /\ handler' = handler \ {c}
        /\ UNCHANGED <<effects, recs, file, excuse>>
        /\ tc' = tc \/ Answers(c, "failure")
    BY <1>5, KeysFit DEF HandlerFails, Books
  <2>2. IsFiniteSet(handler')
    BY <2>1, FS_RemoveElement DEF KeyInv
  <2>3. \A k : k # kc => (Runs(k)' <=> Runs(k))
    <3>1. CASE tc' = tc
      BY <3>1 DEF Runs
    <3> QED BY <2>1, <3>1, RunsMoves DEF Answers
  <2> HIDE DEF kc
  <2>4. ASSUME NEW k \in Key \cup Event PROVE Fair(k)
    <3>1. /\ effects[k] \in Nat /\ excuse[k] \in Nat
          /\ Cardinality(FlightOf(handler, k)) \in Nat
          /\ Cardinality(FlightOf(handler', k)) =
                 Cardinality(FlightOf(handler, k)) - (IF kc = k THEN 1 ELSE 0)
      BY <2>1, DueType, FlightProperties DEF KeyInv, kc
    <3>2. Due(k)' = Due(k) - (IF kc = k THEN 1 ELSE 0) /\ Due(k) \in Nat /\ excuse'[k] = excuse[k]
      BY <2>1, <3>1 DEF Due
    <3>3. Kept(k)' <=> Kept(k)
      BY <2>1 DEF Kept
    <3> QED BY <2>3, <3>1, <3>2, <3>3 DEF Fair
  <2> QED BY <2>1, <2>2, <2>4, FairKeeps DEF KeyInv
<1>6. ASSUME NEW c \in TCall, NEW ans, GiveUp(c, ans) PROVE KeyInv'
  <2> DEFINE kc == KeyOf[c]
  <2>1. /\ kc \in Key /\ UNCHANGED <<handler, effects, recs, file>>
        /\ excuse' = Excused({kc}) /\ Answers(c, ans)
    BY <1>6, KeysFit DEF GiveUp
  <2>2. \A k : k # kc => (Runs(k)' <=> Runs(k))
    BY <2>1, RunsMoves DEF Answers
  <2> HIDE DEF kc
  <2>3. ASSUME NEW k \in Key \cup Event PROVE Fair(k)
    <3>1. Due(k) \in Nat /\ Due(k)' = Due(k) /\ excuse[k] \in Nat
      BY <2>1, DueType DEF Due, KeyInv
    <3>2. excuse'[k] = IF k = kc THEN excuse[k] + 1 ELSE excuse[k]
      BY <2>1, ExcusedProperties
    <3>3. Kept(k)' <=> Kept(k)
      BY <2>1 DEF Kept
    <3> QED BY <2>2, <3>1, <3>2, <3>3 DEF Fair
  <2> QED BY <2>1, <2>3, FairKeeps DEF KeyInv
<1>7. ASSUME NEW e \in Event, HookBegin(e) \/ HookComplete(e) PROVE KeyInv'
  <2>1. e \notin Key /\ \A c \in TCall : KeyOf[c] # e
    BY KeysFit, ToolCallsAssumption
  <2>2. /\ Saved(e) /\ UNCHANGED <<tc, handler>>
    BY <1>7, <2>1, SaveKeeps DEF HookBegin, HookComplete
  <2>3. \/ effects' = [effects EXCEPT ![e] = @ + 1] /\ ~Kept(e)
        \/ effects' = effects
    BY <1>7 DEF HookBegin, HookComplete, Kept, HoldsIn, Holds
  <2>4. ~Runs(e)
    BY <2>1 DEF Runs
  <2>5. ASSUME NEW k \in Key \cup Event PROVE Fair(k)
    <3>1. /\ effects[k] \in Nat /\ excuse[k] \in Nat /\ Cardinality(FlightOf(handler, k)) \in Nat
      BY DueType, FlightProperties DEF KeyInv
    <3>2. /\ excuse'[k] \in Nat /\ excuse'[k] >= excuse[k]
          /\ k = e \/ Kept(k) => Kept(k)' \/ excuse'[k] = excuse[k] + 1
      BY <2>2 DEF Saved, Kept
    <3>3. Runs(k)' <=> Runs(k)
      BY <2>2 DEF Runs
    <3>4. /\ Due(k) = effects[k] + Cardinality(FlightOf(handler, k))
          /\ Due(k)' = effects'[k] + Cardinality(FlightOf(handler, k))
      BY <2>2 DEF Due
    <3>5. \/ effects'[k] = effects[k]
          \/ effects'[k] = effects[k] + 1 /\ k = e /\ ~Kept(k)
      BY <2>3 DEF BooksOK
    <3> QED BY <2>4, <3>1, <3>2, <3>3, <3>4, <3>5 DEF Fair
  <2> QED BY <2>2, <2>5, FairKeeps DEF Saved, KeyInv
<1>8. ASSUME UNCHANGED <<tc, handler, effects, recs, file, excuse>> PROVE KeyInv'
  BY <1>8, KeyQuiet DEF Runs
<1>9. ASSUME ToolCrash PROVE KeyInv'
  <2>1. PICK done \in SUBSET {KeyOf[c] : c \in handler} :
            effects' = [k \in Key \cup Event |-> effects[k] + (IF k \in done THEN 1 ELSE 0)]
    BY <1>9 DEF ToolCrash
  <2>2. /\ handler' = {} /\ recs' = file /\ file' = file
        /\ excuse' = Excused({KeyOf[c] : c \in handler})
    BY <1>9 DEF ToolCrash
  <2>3. ASSUME NEW k \in Key \cup Event PROVE Fair(k)
    <3>1. /\ effects[k] \in Nat /\ excuse[k] \in Nat /\ Cardinality(FlightOf(handler, k)) \in Nat
          /\ Cardinality(FlightOf(handler', k)) = 0
      <4>1. Cardinality(FlightOf({}, k)) = 0
        BY FlightProperties, FS_EmptySet
      <4> QED BY <2>2, <4>1, DueType, FlightProperties DEF KeyInv
    <3>2. Due(k)' = effects'[k] /\ Due(k) = effects[k] + Cardinality(FlightOf(handler, k))
      <4>1. effects'[k] \in Nat
        BY DEF BooksOK
      <4> QED BY <3>1, <4>1 DEF Due
    <3>3. Kept(k) => Kept(k)'
      BY <2>2 DEF Kept
    <3>4. CASE \E c \in handler : KeyOf[c] = k
      <4>1. k \in {KeyOf[c] : c \in handler}
        BY <3>4
      <4>2. excuse'[k] = excuse[k] + 1
        BY <2>2, <4>1, ExcusedProperties
      <4>3. Cardinality(FlightOf(handler, k)) >= 1
        BY <3>4, FlightProperties DEF KeyInv
      <4>4. effects'[k] \in Nat /\ effects'[k] <= effects[k] + 1
        BY <2>1, <3>1 DEF BooksOK
      <4> QED BY <3>1, <3>2, <4>2, <4>3, <4>4 DEF Fair
    <3>5. CASE ~\E c \in handler : KeyOf[c] = k
      <4>1. k \notin {KeyOf[c] : c \in handler}
        BY <3>5
      <4>2. excuse'[k] = excuse[k] /\ effects'[k] = effects[k]
        BY <2>1, <2>2, <4>1, ExcusedProperties DEF BooksOK
      <4>3. ~Runs(k)
        BY <3>5 DEF Runs, CallsOK
      <4> QED BY <3>1, <3>2, <3>3, <4>2, <4>3 DEF Fair
    <3> QED BY <3>4, <3>5
  <2>4. IsFiniteSet(handler')
    BY <2>2, FS_EmptySet
  <2> QED BY <2>2, <2>3, <2>4, FairKeeps DEF KeyInv
<1>10. (\E r \in Run, p \in Patch : SetPolicy(r, p)) \/ UserDecides \/ ApprovalLate => KeyInv'
  BY <1>8 DEF SetPolicy, UserDecides, ApprovalLate, Books
<1> QED BY <1>2, <1>3, <1>4, <1>5, <1>6, <1>7, <1>9, <1>10 DEF ToolNext
-----------------------------------------------------------------------------
(* Every run of a dangerous call is authorised.                            *)

\* Calls past the gate whose handler has not started.
Waiting(a) == {c \in TCall : tc[c].at = "start" /\ ActOf[c] = a}

\* Approvals an action has used up.
UsedFor(a) == {i \in Id : used[i] = <<a>>}

Secluded(a) == ToolOf[a] \in ReadTools \/ (ToolOf[a] \in CommandTools /\ sandboxUrl)

\* Every start of a handler, past or still to come, of a dangerous action stands
\* against an approval of its own that was used up at the gate.
AuthInv ==
    \A a \in Action :
        /\ IsFiniteSet(Waiting(a))
        /\ RiskOf(a) >= HIGH => ran[a] + Cardinality(Waiting(a)) <= Cardinality(UsedFor(a))
        /\ production /\ (ran[a] > 0 \/ Waiting(a) # {}) => Secluded(a)

\* Only so many approvals have ever been asked for, and only they were granted.
IssuedInv ==
    /\ IsFiniteSet(issued)
    /\ \A i \in Id, a \in Action : <<i, a>> \in granted => i \in issued

StoreInv == ApprInv /\ MapInv /\ IssuedInv

\* What a tool step is to the approval store.
LEMMA StoreMoves == ASSUME ApprInv, ToolNext PROVE ApprStep \/ Forget \/ UNCHANGED apprVars
<1>1. ASSUME NEW c \in TCall, Admit(c) PROVE ApprStep \/ UNCHANGED apprVars
  <2>1. ActOf[c] \in Action
    BY KeysFit
  <2>2. CASE UNCHANGED apprVars
    BY <2>2
  <2>3. ASSUME NEW i \in DOMAIN appr, Consume(i, ActOf[c]) PROVE ApprStep
    <3>1. i \in Id
      BY DEF ApprInv
    <3> QED BY <2>1, <2>3, <3>1 DEF ApprStep
  <2>4. ASSUME NEW i \in Id, Reject(i, ActOf[c]) PROVE ApprStep
    BY <2>1, <2>4 DEF ApprStep
  <2>5. ASSUME \A i \in DOMAIN appr : ~Usable(i, ActOf[c]),
               \/ \E i \in Id : Request(Swept, i, ActOf[c])
               \/ ~MayRequest(Swept, ActOf[c]) /\ SweepOnly
        PROVE  ApprStep
    <3>1. ToolGate(ActOf[c])
      BY <2>5 DEF ToolGate
    <3> QED BY <2>1, <3>1 DEF ApprStep
  <2> QED BY <1>1, <2>2, <2>3, <2>4, <2>5 DEF Admit
<1>2. UserDecides \/ ApprovalLate => ApprStep
  BY DEF UserDecides, ApprovalLate, ApprStep
<1>3. ToolCrash => Forget
  BY DEF ToolCrash
<1>4. ASSUME NEW c \in TCall,
             \/ CallTool(c) \/ Refuse(c) \/ Dedupe(c) \/ StartHandler(c) \/ NotStarted(c)
             \/ HandlerSucceeds(c) \/ HandlerFails(c)
             \/ GiveUp(c, "timed_out") \/ GiveUp(c, "cancelled")
      PROVE  UNCHANGED apprVars
  BY <1>4 DEF CallTool, Refuse, Dedupe, StartHandler, NotStarted, HandlerSucceeds, HandlerFails, GiveUp
<1>5. ASSUME \/ \E e \in Event : HookBegin(e) \/ HookComplete(e)
             \/ \E r \in Run, p \in Patch : SetPolicy(r, p)
      PROVE  UNCHANGED apprVars
  BY <1>5 DEF HookBegin, HookComplete, SetPolicy
<1> QED BY <1>1, <1>2, <1>3, <1>4, <1>5 DEF ToolNext

\* Approvals that were not issued are not used: the used ones are finite.
LEMMA IssuedStep ==
    ASSUME ApprInv, IssuedInv, ApprStep \/ Forget \/ UNCHANGED apprVars
    PROVE  IssuedInv'
<1>1. issued' = issued \/ \E i \in Id : issued' = issued \cup {i}
  BY DEF ApprStep, Request, Consume, Reject, Decide, Elapse, ToolGate, SweepOnly, Forget, apprVars
<1>2. granted' = granted \/ \E i \in DOMAIN appr : \E a : granted' = granted \cup {<<i, a>>}
  BY DEF ApprStep, Request, Consume, Reject, Decide, Elapse, ToolGate, SweepOnly, Forget, apprVars
<1>3. IsFiniteSet(issued')
  BY <1>1, FS_AddElement DEF IssuedInv
<1>4. ASSUME NEW i \in Id, NEW a \in Action, <<i, a>> \in granted' PROVE i \in issued'
  <2>1. i \in issued
    BY <1>2, <1>4 DEF ApprInv, IssuedInv
  <2> QED BY <1>1, <2>1
<1> QED BY <1>3, <1>4 DEF IssuedInv

\* Every step keeps the approval store.
LEMMA StoreKeeps == ASSUME StoreInv, ToolNext PROVE StoreInv' /\ ApprGrows
<1>1. ApprStep \/ Forget \/ UNCHANGED apprVars
  BY StoreMoves DEF StoreInv
<1>2. MapInv' /\ IssuedInv'
  BY <1>1, MapStep, IssuedStep DEF StoreInv
<1>3. CASE ApprStep
  BY <1>2, <1>3, ApprStepKeeps DEF StoreInv
<1>4. CASE Forget
  <2>1. ApprGrows
    BY <1>4 DEF Forget, ApprGrows
  <2> QED BY <1>2, <1>4, <2>1, ForgetKeeps DEF StoreInv
<1>5. CASE UNCHANGED apprVars
  BY <1>2, <1>5, StillGrows DEF StoreInv, ApprInv, SingleUse, apprVars
<1> QED BY <1>1, <1>3, <1>4, <1>5

\* "Autonomous NEVER means unrestricted": no mode lets a dangerous call pass.
LEMMA DangerousIsGated ==
    ASSUME PoliciesOK, NEW a \in Action, RiskOf(a) >= HIGH
    PROVE  Gated(a)
<1>1. Defn(a).requiresApproval \in BOOLEAN /\ BaseRisk(ToolOf[a]) \in 0..3
      /\ Defn(a).risk = BaseRisk(ToolOf[a]) /\ Defn(a).name = ToolOf[a]
  BY DEF Defn, Definition, BaseRisk, LOW, MEDIUM, HIGH, CRITICAL
<1>2. RaisedTo(ToolOf[a], ParamsOf[a]) \in 0..3
  BY DEF RaisedTo, LOW, MEDIUM, HIGH, CRITICAL
<1>3. RiskOf(a) \in 0..3
  BY <1>1, <1>2 DEF RiskOf, ClassifyRisk
<1>4. RunOf[a] \in Run
  BY ApprovalsAssumption
<1>5. policy[RunOf[a]].mode \in ApprovalMode
  BY <1>4 DEF PoliciesOK, PolicyOK
<1> DEFINE mode == policy[RunOf[a]].mode
           def == Defn(a)
           risk == RiskOf(a)
<1>6. risk >= 2 /\ risk # 0 /\ risk >= 1
  BY <1>3 DEF HIGH
<1> HIDE DEF mode, def, risk
<1>7. NeedsApproval(mode, def, risk)
  <2>1. CASE mode = "APPROVE_ALL"
    BY <2>1 DEF NeedsApproval
  <2>2. CASE mode # "APPROVE_ALL" /\ def.requiresApproval
    BY <1>6, <2>2 DEF NeedsApproval, LOW
  <2>3. CASE mode \in {"APPROVE_WRITES", "AUTO_APPROVE_LOW"} /\ ~def.requiresApproval
    BY <1>6, <2>3 DEF NeedsApproval, MEDIUM
  <2>4. CASE mode = "APPROVE_DANGEROUS" /\ ~def.requiresApproval
    BY <1>6, <2>4 DEF NeedsApproval, HIGH
  <2> QED BY <1>5, <2>1, <2>2, <2>3, <2>4 DEF ApprovalMode, mode
<1> QED BY <1>7 DEF Gated, mode, def, risk

\* A used approval counts one more for its action.
LEMMA UsedForProperties ==
    ASSUME ApprInv, IssuedInv, ApprInv', IssuedInv', ApprGrows, NEW a \in Action
    PROVE  /\ Cardinality(UsedFor(a)) \in Nat /\ Cardinality(UsedFor(a)') \in Nat
           /\ Cardinality(UsedFor(a)) <= Cardinality(UsedFor(a)')
           /\ (\E i \in Id : used[i] = <<>> /\ used'[i] = <<a>>) =>
                Cardinality(UsedFor(a)) + 1 <= Cardinality(UsedFor(a)')
<1>0. <<a>> # <<>>
  OBVIOUS
<1>1. UsedFor(a) \subseteq issued /\ UsedFor(a)' \subseteq issued'
  <2>1. \A i \in Id : (used[i] # <<>> => i \in issued) /\ (used'[i] # <<>> => i \in issued')
    BY DEF ApprInv
  <2>2. ASSUME NEW i \in UsedFor(a) PROVE i \in issued
    BY <1>0, <2>1, <2>2 DEF UsedFor
  <2>3. ASSUME NEW i \in UsedFor(a)' PROVE i \in issued'
    <3>1. i \in Id /\ used'[i] = <<a>>
      BY <2>3 DEF UsedFor
    <3> QED BY <1>0, <2>1, <3>1
  <2> QED BY <2>2, <2>3
<1>2. IsFiniteSet(UsedFor(a)) /\ IsFiniteSet(UsedFor(a)')
  BY <1>1, FS_Subset DEF IssuedInv
<1>3. UsedFor(a) \subseteq UsedFor(a)'
  BY <1>0, Zenon DEF UsedFor, ApprGrows
<1>4. Cardinality(UsedFor(a)) \in Nat /\ Cardinality(UsedFor(a)') \in Nat
      /\ Cardinality(UsedFor(a)) <= Cardinality(UsedFor(a)')
  BY <1>2, <1>3, FS_CardinalityType, FS_Subset
<1>5. ASSUME NEW i \in Id, used[i] = <<>>, used'[i] = <<a>>
      PROVE  Cardinality(UsedFor(a)) + 1 <= Cardinality(UsedFor(a)')
  <2>1. i \notin UsedFor(a) /\ UsedFor(a) \cup {i} \subseteq UsedFor(a)'
    BY <1>3, <1>5 DEF UsedFor
  <2>2. Cardinality(UsedFor(a) \cup {i}) = Cardinality(UsedFor(a)) + 1
    BY <1>2, <2>1, FS_AddElement
  <2>3. Cardinality(UsedFor(a) \cup {i}) <= Cardinality(UsedFor(a)')
    BY <1>2, <2>1, FS_Subset
  <2> QED BY <2>2, <2>3
<1> QED BY <1>4, <1>5

\* What a step may do to the calls of an action that wait for their handlers.
Ruled(a) ==
    \/ Waiting(a)' \subseteq Waiting(a) /\ ran'[a] = ran[a]
    \/ /\ \E c \in Waiting(a) : Waiting(a)' = Waiting(a) \ {c}
       /\ ran'[a] = ran[a] + 1
    \/ /\ \E c \in TCall : Waiting(a)' = Waiting(a) \cup {c}
       /\ ran'[a] = ran[a]
       /\ production => Secluded(a)
       /\ RiskOf(a) >= HIGH => \E i \in Id : used[i] = <<>> /\ used'[i] = <<a>>

\* The invariant is kept when each action follows the rule.
LEMMA RuleKeeps ==
    ASSUME AuthInv, StoreInv, StoreInv', ApprGrows, BooksOK, BooksOK',
           UNCHANGED <<production, sandboxUrl>>, \A a \in Action : Ruled(a)
    PROVE  AuthInv'
<1>1. ASSUME NEW a \in Action
      PROVE  /\ IsFiniteSet(Waiting(a)')
             /\ RiskOf(a) >= HIGH =>
                    ran'[a] + Cardinality(Waiting(a)') <= Cardinality(UsedFor(a)')
             /\ production' /\ (ran'[a] > 0 \/ Waiting(a)' # {}) => Secluded(a)
  <2>1. /\ IsFiniteSet(Waiting(a))
        /\ RiskOf(a) >= HIGH => ran[a] + Cardinality(Waiting(a)) <= Cardinality(UsedFor(a))
        /\ production /\ (ran[a] > 0 \/ Waiting(a) # {}) => Secluded(a)
    BY DEF AuthInv
  <2>2. /\ Cardinality(UsedFor(a)) \in Nat /\ Cardinality(UsedFor(a)') \in Nat
        /\ Cardinality(UsedFor(a)) <= Cardinality(UsedFor(a)')
        /\ (\E i \in Id : used[i] = <<>> /\ used'[i] = <<a>>) =>
             Cardinality(UsedFor(a)) + 1 <= Cardinality(UsedFor(a)')
    BY UsedForProperties DEF StoreInv
  <2>3. ran[a] \in Nat /\ ran'[a] \in Nat /\ Cardinality(Waiting(a)) \in Nat
    BY <2>1, FS_CardinalityType DEF BooksOK
  <2>4. CASE Waiting(a)' \subseteq Waiting(a) /\ ran'[a] = ran[a]
    <3>1. IsFiniteSet(Waiting(a)') /\ Cardinality(Waiting(a)') <= Cardinality(Waiting(a))
          /\ Cardinality(Waiting(a)') \in Nat
      BY <2>1, <2>4, FS_Subset, FS_CardinalityType
    <3>2. Waiting(a)' # {} => Waiting(a) # {}
      BY <2>4
    <3> QED BY <2>1, <2>2, <2>3, <2>4, <3>1, <3>2
  <2>5. ASSUME NEW c \in Waiting(a), Waiting(a)' = Waiting(a) \ {c}, ran'[a] = ran[a] + 1
        PROVE  /\ IsFiniteSet(Waiting(a)')
               /\ RiskOf(a) >= HIGH =>
                      ran'[a] + Cardinality(Waiting(a)') <= Cardinality(UsedFor(a)')
               /\ production' => Secluded(a)
    <3>1. IsFiniteSet(Waiting(a)') /\ Cardinality(Waiting(a)') = Cardinality(Waiting(a)) - 1
      BY <2>1, <2>5, FS_RemoveElement
    <3>2. production' => Secluded(a)
      BY <2>1, <2>5
    <3> QED BY <2>1, <2>2, <2>3, <2>5, <3>1, <3>2
  <2>6. ASSUME NEW c \in TCall, Waiting(a)' = Waiting(a) \cup {c}, ran'[a] = ran[a],
               RiskOf(a) >= HIGH => \E i \in Id : used[i] = <<>> /\ used'[i] = <<a>>
        PROVE  /\ IsFiniteSet(Waiting(a)')
               /\ RiskOf(a) >= HIGH =>
                      ran'[a] + Cardinality(Waiting(a)') <= Cardinality(UsedFor(a)')
    <3>1. /\ IsFiniteSet(Waiting(a)') /\ Cardinality(Waiting(a)') \in Nat
          /\ Cardinality(Waiting(a)') <= Cardinality(Waiting(a)) + 1
      BY <2>1, <2>3, <2>6, FS_AddElement, FS_CardinalityType
    <3> QED BY <2>1, <2>2, <2>3, <2>6, <3>1
  <2>7. Ruled(a)
    OBVIOUS
  <2> QED BY <2>4, <2>5, <2>6, <2>7 DEF Ruled
<1>2. \A a \in Action : Secluded(a)' <=> Secluded(a)
  BY DEF Secluded
<1> QED BY <1>1, <1>2 DEF AuthInv

\* A call that moves on joins or leaves the calls that wait to start.
LEMMA WaitingMoves ==
    ASSUME CallsOK, NEW c \in TCall, NEW dest, NEW ans,
           tc' = [tc EXCEPT ![c] = [at |-> dest, ans |-> ans]], NEW a
    PROVE  /\ dest = "start" /\ ActOf[c] = a => Waiting(a)' = Waiting(a) \cup {c}
           /\ dest # "start" \/ ActOf[c] # a => Waiting(a)' = Waiting(a) \ {c}
<1>1. \A d \in TCall : tc'[d].at = IF d = c THEN dest ELSE tc[d].at
  BY DEF CallsOK
<1> QED BY <1>1 DEF Waiting

\* What passes without approval in production is secluded.
LEMMA PassIsSecluded ==
    ASSUME NEW a \in Action, production, ProductionAnswer(ToolOf[a]) = "pass"
    PROVE  Secluded(a)
<1>1. "pass" # "denied" /\ "pass" # "sandbox_unavailable"
  OBVIOUS
<1>2. ASSUME ~(ToolOf[a] \in ReadTools), ~(ToolOf[a] \in CommandTools)
      PROVE  FALSE
  BY <1>1, <1>2 DEF ProductionAnswer
<1>3. ASSUME ~(ToolOf[a] \in ReadTools), ToolOf[a] \in CommandTools, ~sandboxUrl
      PROVE  FALSE
  BY <1>1, <1>3 DEF ProductionAnswer
<1> QED BY <1>2, <1>3 DEF Secluded

\* Every step follows the rule: a start takes an approval or is secluded.
LEMMA AuthKeeps ==
    ASSUME StateInv, StateInv', StoreInv, StoreInv', ApprGrows, AuthInv, ToolNext
    PROVE  AuthInv'
<1> USE DEF StateInv
<1>0. UNCHANGED <<production, sandboxUrl>>
  BY DEF ToolNext, CallTool, Refuse, Admit, Dedupe, StartHandler, NotStarted, HandlerSucceeds,
         HandlerFails, GiveUp, HookBegin, HookComplete, SetPolicy, UserDecides, ApprovalLate,
         ToolCrash, Setting
<1>1. ASSUME NEW c \in TCall, NEW dest, NEW ans, dest # "start", ran' = ran,
             tc' = [tc EXCEPT ![c] = [at |-> dest, ans |-> ans]]
      PROVE  AuthInv'
  <2>1. ASSUME NEW a \in Action PROVE Ruled(a)
    <3>1. Waiting(a)' = Waiting(a) \ {c}
      BY <1>1, WaitingMoves
    <3> QED BY <1>1, <3>1 DEF Ruled
  <2> QED BY <1>0, <2>1, RuleKeeps
<1>2. ASSUME tc' = tc, ran' = ran PROVE AuthInv'
  <2>1. \A a \in Action : Ruled(a)
    BY <1>2 DEF Ruled, Waiting
  <2> QED BY <1>0, <2>1, RuleKeeps
<1>3. ASSUME NEW c \in TCall, NEW ans, Answers(c, ans), ran' = ran PROVE AuthInv'
  BY <1>1, <1>3 DEF Answers
<1>4. ASSUME NEW c \in TCall, Admit(c) PROVE AuthInv'
  <2>1. ran' = ran /\ ActOf[c] \in Action
    BY <1>4, KeysFit DEF Admit, Books
  <2>2. CASE \E ans : Answers(c, ans)
    BY <1>3, <2>1, <2>2
  <2>3. CASE Goes(c, "start") /\ (~Gated(ActOf[c]) \/ \E i \in DOMAIN appr : Consume(i, ActOf[c]))
    <3>1. \A a \in Action : Waiting(a)' = IF ActOf[c] = a THEN Waiting(a) \cup {c}
                                          ELSE Waiting(a) \ {c}
      BY <2>3, WaitingMoves DEF Goes
    <3>2. production => Secluded(ActOf[c])
      BY <1>4, <2>1, PassIsSecluded DEF Admit, MayPass
    <3>3. RiskOf(ActOf[c]) >= HIGH => \E i \in Id : used[i] = <<>> /\ used'[i] = <<ActOf[c]>>
      <4> SUFFICES ASSUME RiskOf(ActOf[c]) >= HIGH
                   PROVE  \E i \in Id : used[i] = <<>> /\ used'[i] = <<ActOf[c]>>
        OBVIOUS
      <4>1. Gated(ActOf[c])
        BY <2>1, DangerousIsGated
      <4>2. PICK i \in DOMAIN appr : Consume(i, ActOf[c])
        BY <2>3, <4>1
      <4>3. i \in Id /\ ~appr[i].consumed
        BY <4>2, SweptFacts DEF StoreInv, ApprInv, Consume, Usable
      <4>4. used[i] = <<>> /\ used \in [Id -> Seq(Action)]
        BY <4>3 DEF StoreInv, ApprInv
      <4>5. used'[i] = Append(used[i], ActOf[c])
        BY <4>2, <4>3, <4>4 DEF Consume
      <4>6. Append(<<>>, ActOf[c]) = <<ActOf[c]>>
        OBVIOUS
      <4> QED BY <4>3, <4>4, <4>5, <4>6
    <3>4. \A a \in Action : Ruled(a)
      BY <2>1, <3>1, <3>2, <3>3 DEF Ruled
    <3> QED BY <1>0, <3>4, RuleKeeps
  <2> QED BY <1>4, <2>2, <2>3 DEF Admit
<1>5. ASSUME NEW c \in TCall, StartHandler(c) PROVE AuthInv'
  <2>1. /\ tc' = [tc EXCEPT ![c] = [at |-> "running", ans |-> "none"]]
        /\ ran' = [ran EXCEPT ![ActOf[c]] = @ + 1]
        /\ tc[c].at = "start" /\ ActOf[c] \in Action
    BY <1>5, KeysFit DEF StartHandler, Goes, Fresh
  <2>2. ASSUME NEW a \in Action PROVE Ruled(a)
    <3>1. Waiting(a)' = Waiting(a) \ {c}
      <4>1. "running" # "start"
        OBVIOUS
      <4>2. tc' = [tc EXCEPT ![c] = [at |-> "running", ans |-> "none"]]
        BY <2>1
      <4>3. "running" # "start" => Waiting(a)' = Waiting(a) \ {c}
        BY <4>2, WaitingMoves
      <4> QED BY <4>1, <4>3
    <3>2. CASE ActOf[c] = a
      <4>1. c \in Waiting(a) /\ ran'[a] = ran[a] + 1
        BY <2>1, <3>2 DEF Waiting, BooksOK
      <4> QED BY <3>1, <4>1 DEF Ruled
    <3>3. CASE ActOf[c] # a
      <4>1. ran'[a] = ran[a]
        BY <2>1, <3>3 DEF BooksOK
      <4> QED BY <3>1, <4>1 DEF Ruled
    <3> QED BY <3>2, <3>3
  <2> QED BY <1>0, <2>2, RuleKeeps
<1>6. ASSUME NEW c \in TCall, CallTool(c) PROVE AuthInv'
  <2>1. ran' = ran /\ (Goes(c, "gate") \/ \E ans : Answers(c, ans))
    BY <1>6 DEF CallTool, Books
  <2> QED BY <1>1, <1>3, <2>1 DEF Goes
<1>7. ASSUME NEW c \in TCall, Refuse(c) \/ Dedupe(c) \/ NotStarted(c)
                              \/ GiveUp(c, "timed_out") \/ GiveUp(c, "cancelled")
      PROVE  AuthInv'
  <2>1. ran' = ran /\ \E ans : Answers(c, ans)
    BY <1>7 DEF Refuse, Dedupe, NotStarted, GiveUp, Books
  <2> QED BY <1>3, <2>1
<1>8. ASSUME NEW c \in TCall, HandlerSucceeds(c) \/ HandlerFails(c) PROVE AuthInv'
  <2>1. ran' = ran /\ (tc' = tc \/ \E ans : Answers(c, ans))
    BY <1>8 DEF HandlerSucceeds, HandlerFails, Books
  <2> QED BY <1>2, <1>3, <2>1
<1>9. ASSUME ToolCrash PROVE AuthInv'
  <2>1. ran' = ran /\ \A c \in TCall : tc'[c].at # "start"
    <3>1. /\ ran' = ran
          /\ tc' = [c \in TCall |-> IF tc[c].at \in {"idle", "answered"} THEN tc[c]
                                    ELSE [at |-> "answered", ans |-> "lost"]]
      BY <1>9 DEF ToolCrash
    <3> QED BY <3>1
  <2>2. \A a \in Action : Waiting(a)' = {} /\ ran'[a] = ran[a]
    BY <2>1 DEF Waiting
  <2>3. \A a \in Action : Ruled(a)
    BY <2>2 DEF Ruled
  <2> QED BY <1>0, <2>3, RuleKeeps
<1>10. \/ \E e \in Event : HookBegin(e) \/ HookComplete(e)
       \/ \E r \in Run, p \in Patch : SetPolicy(r, p)
       \/ UserDecides \/ ApprovalLate
       => AuthInv'
  BY <1>2 DEF HookBegin, HookComplete, SetPolicy, UserDecides, ApprovalLate, Books
<1> QED BY <1>4, <1>5, <1>6, <1>7, <1>8, <1>9, <1>10 DEF ToolNext
-----------------------------------------------------------------------------
(* The theorems.                                                           *)

ToolInv == StateInv /\ StoreInv /\ KeyInv /\ AuthInv

\* The invariants hold at first.
LEMMA ToolInvInit == ToolInit => ToolInv
<1> SUFFICES ASSUME ToolInit PROVE ToolInv
  OBVIOUS
<1> USE DEF ToolInit
<1>1. CallsOK
  <2>1. "idle" \in Place /\ "none" \in Answer
    BY DEF Place, Answer
  <2> QED BY <2>1 DEF CallsOK
<1>2. BooksOK
  BY ToolCallsAssumption DEF BooksOK
<1>3. PoliciesOK
  BY DefaultPolicyOK DEF PoliciesOK
<1>4. StoreInv
  BY ApprInvInit, FS_EmptySet DEF StoreInv, IssuedInv, ApprInit
<1>5. KeyInv
  <2>1. DoneIn(recs) /\ DoneIn(file) /\ IsFiniteSet(handler)
    BY FS_EmptySet DEF DoneIn
  <2>2. ASSUME NEW k \in Key \cup Event PROVE Due(k) = 0 /\ excuse[k] = 0
    <3>1. FlightOf(handler, k) = {}
      BY DEF FlightOf
    <3>2. Cardinality(FlightOf(handler, k)) = 0 /\ effects[k] = 0
      BY <3>1, FS_EmptySet
    <3> QED BY <3>2 DEF Due
  <2> QED BY <2>1, <2>2 DEF KeyInv
<1>6. AuthInv
  <2>1. ASSUME NEW a \in Action
        PROVE  /\ Waiting(a) = {} /\ UsedFor(a) = {} /\ ran[a] = 0
    <3>1. <<>> # <<a>> /\ \A i \in Id : used[i] = <<>>
      BY DEF ApprInit
    <3> QED BY <3>1 DEF Waiting, UsedFor
  <2>2. IsFiniteSet({}) /\ Cardinality({}) = 0
    BY FS_EmptySet
  <2>3. ASSUME NEW a \in Action
        PROVE  /\ IsFiniteSet(Waiting(a))
               /\ ran[a] + Cardinality(Waiting(a)) <= Cardinality(UsedFor(a))
               /\ ~(ran[a] > 0) /\ Waiting(a) = {}
    <3>1. Cardinality(Waiting(a)) = 0 /\ Cardinality(UsedFor(a)) = 0 /\ ran[a] = 0
      BY <2>1, <2>2
    <3>2. ran[a] + Cardinality(Waiting(a)) <= Cardinality(UsedFor(a)) /\ ~(ran[a] > 0)
      <4>1. \A x, y, z : x = 0 /\ y = 0 /\ z = 0 => x + y <= z /\ ~(x > 0)
        OBVIOUS
      <4> QED BY <3>1, <4>1
    <3> QED BY <2>1, <2>2, <3>2
  <2> QED BY <2>3 DEF AuthInv
<1> QED BY <1>1, <1>2, <1>3, <1>4, <1>5, <1>6 DEF ToolInv, StateInv

\* Every step keeps them.
LEMMA ToolInvStep == ToolInv /\ [ToolNext]_toolVars => ToolInv'
<1> SUFFICES ASSUME ToolInv, [ToolNext]_toolVars PROVE ToolInv'
  OBVIOUS
<1>1. CASE ToolNext
  <2>1. StateInv'
    BY <1>1, CallsKeep, BooksKeep, PoliciesKeep DEF ToolInv, StateInv
  <2>2. StoreInv' /\ ApprGrows
    BY <1>1, StoreKeeps DEF ToolInv
  <2>3. KeyInv'
    BY <1>1, <2>1, KeyKeeps DEF ToolInv
  <2>4. AuthInv'
    BY <1>1, <2>1, <2>2, AuthKeeps DEF ToolInv
  <2> QED BY <2>1, <2>2, <2>3, <2>4 DEF ToolInv
<1>2. CASE UNCHANGED toolVars
  <2> USE <1>2 DEF toolVars, apprVars
  <2>1. StateInv'
    BY DEF ToolInv, StateInv, CallsOK, BooksOK, PoliciesOK
  <2>2. StoreInv'
    BY DEF ToolInv, StoreInv, ApprInv, MapInv, IssuedInv, SingleUse
  <2>3. KeyInv'
    BY DEF ToolInv, KeyInv, Due, Runs, Kept
  <2>4. AuthInv'
    BY DEF ToolInv, AuthInv, Waiting, UsedFor, Secluded
  <2> QED BY <2>1, <2>2, <2>3, <2>4 DEF ToolInv
<1> QED BY <1>1, <1>2

\* So they hold always.
LEMMA ToolInvHolds == ToolSpec => []ToolInv
  BY ToolInvInit, ToolInvStep, PTL DEF ToolSpec

\* The invariant contains the types.
LEMMA ToolTypes == ToolInv => ToolTypeOK
<1> SUFFICES ASSUME ToolInv PROVE ToolTypeOK
  OBVIOUS
<1> USE DEF ToolInv, StateInv
<1>1. ApprTypeOK
  BY TypesOfTheStore DEF StoreInv
<1>2. /\ tc \in [TCall -> [at: {"idle", "gate", "start", "running", "answered"}, ans: Answer]]
      /\ \A c \in TCall : (tc[c].at = "answered") = (tc[c].ans # "none")
      /\ handler \subseteq TCall /\ {c \in TCall : tc[c].at = "running"} \subseteq handler
  BY DEF CallsOK, Place
<1>3. \A r \in Run : policy[r].autonomy \in AutonomyMode /\ policy[r].mode \in ApprovalMode
  BY DEF PoliciesOK, PolicyOK
<1>4. /\ Len(fast) <= MaxFast /\ Len(recs) <= MaxStore /\ Len(file) <= MaxStore
      /\ recs \in Seq(Rec)
  BY DEF BooksOK
<1>5. \A n \in 1..Len(recs) : recs[n].key \in Key \cup Event
  <2>1. ASSUME NEW n \in 1..Len(recs) PROVE recs[n].key \in Key \cup Event
    <3>1. recs[n] \in Rec
      BY <1>4
    <3> QED BY <3>1 DEF Rec
  <2> QED BY <2>1
<1> QED BY <1>1, <1>2, <1>3, <1>4, <1>5 DEF ToolTypeOK

\* tool-executor.js, idempotency.js, execution-policy.js: whatever calls, users
\* and restarts do, no call is answered without an answer, a running call has
\* its handler, a policy stays one of the legal ones and neither the keys in
\* memory nor the store outgrow their limits.
THEOREM CallsTyped == ToolSpec => []ToolTypeOK
  BY ToolTypes, ToolInvHolds, PTL

\* "a COMPLETED record from a previous process must NOT re-execute" and "retries
\* return the stored result instead of re-executing" (idempotency.js,
\* tool-executor.js): for any number of calls, keys, events, crashes and failed
\* writes and any size of the store, a key is carried out again only as often as
\* something excuses it.
THEOREM EffectsAccounted == ToolSpec => []EffectsExplained
<1>1. ToolInv => EffectsExplained
  <2> SUFFICES ASSUME ToolInv, NEW k \in Key \cup Event PROVE effects[k] <= 1 + excuse[k]
    BY DEF EffectsExplained
  <2>1. Due(k) <= 1 + excuse[k] /\ IsFiniteSet(handler) /\ BooksOK
    BY DEF ToolInv, KeyInv, StateInv
  <2>2. effects[k] \in Nat /\ excuse[k] \in Nat /\ Cardinality(FlightOf(handler, k)) \in Nat
    BY <2>1, DueType, FlightProperties
  <2> QED BY <2>1, <2>2 DEF Due
<1> QED BY <1>1, ToolInvHolds, PTL

\* "Autonomous NEVER means unrestricted: HIGH/CRITICAL always need approval"
\* (execution-policy.js): for any number of calls, actions and approvals and any
\* sequence of policy changes, retries, expiry and restarts.
THEOREM CallsAuthorised == ToolSpec => []EveryRunAuthorised
<1>1. ToolInv => EveryRunAuthorised
  <2> SUFFICES ASSUME ToolInv, NEW a \in Action
               PROVE  /\ RiskOf(a) >= HIGH => ran[a] <= Cardinality({i \in Id : <<i, a>> \in granted})
                      /\ (production /\ ran[a] > 0) => Secluded(a)
    BY DEF EveryRunAuthorised, Secluded
  <2>1. /\ IsFiniteSet(Waiting(a))
        /\ RiskOf(a) >= HIGH => ran[a] + Cardinality(Waiting(a)) <= Cardinality(UsedFor(a))
        /\ production /\ ran[a] > 0 => Secluded(a)
    BY DEF ToolInv, AuthInv
  <2> DEFINE G == {i \in Id : <<i, a>> \in granted}
  <2>2. IsFiniteSet(G)
    <3>1. G \subseteq issued
      BY DEF ToolInv, StoreInv, IssuedInv
    <3> QED BY <3>1, FS_Subset DEF ToolInv, StoreInv, IssuedInv
  <2>3. UsedFor(a) \subseteq G
    <3>1. ASSUME NEW i \in UsedFor(a) PROVE <<i, a>> \in granted
      <4>1. i \in Id /\ used[i] = <<a>> /\ Len(<<a>>) = 1 /\ <<a>>[1] = a
        BY DEF UsedFor
      <4>2. \A n \in 1..Len(used[i]) : <<i, used[i][n]>> \in granted
        BY <4>1 DEF ToolInv, StoreInv, ApprInv, SingleUse
      <4>3. 1 \in 1..Len(used[i]) /\ used[i][1] = a
        BY <4>1
      <4> QED BY <4>2, <4>3
    <3> QED BY <3>1 DEF UsedFor
  <2>4. /\ Cardinality(UsedFor(a)) <= Cardinality(G) /\ Cardinality(G) \in Nat
        /\ Cardinality(UsedFor(a)) \in Nat
    BY <2>2, <2>3, FS_Subset, FS_CardinalityType
  <2>5. ran[a] \in Nat /\ Cardinality(Waiting(a)) \in Nat
    BY <2>1, FS_CardinalityType DEF ToolInv, StateInv, BooksOK
  <2> HIDE DEF G
  <2>6. RiskOf(a) >= HIGH => ran[a] <= Cardinality(G)
    BY <2>1, <2>4, <2>5
  <2> QED BY <2>1, <2>6 DEF G
<1> QED BY <1>1, ToolInvHolds, PTL

-----------------------------------------------------------------------------
(* Commands: a reply that passes is the exit of a child that is gone.      *)

\* A directory is there while the worker is at its request, or its removal failed;
\* a reply that says how the child ended was sent when the directory was gone; a
\* command that is not sent, or ran in place, is none of the worker's.
SandboxInv ==
    /\ SandboxTypeOK
    /\ \A c \in Cmd :
        /\ client[c] \in {"idle", "local"} => worker[c] = "none"
        /\ client[c] = "local" => ~inProduction
        /\ c \in dirs \ left => worker[c] \in {"filling", "running", "removing", "throwing"}
        /\ worker[c] = "removing" => child[c] \in Ended
        /\ reply[c] \in Ended => worker[c] = "done" /\ child[c] = reply[c]
        /\ result[c] = "timeout" => child[c] \in {"sigterm", "late1", "sigkill"} /\ client[c] = "answered"
                                    /\ worker[c] \in {"none", "done"}
        /\ result[c] = "passed" => /\ child[c] \in {"exit0", "late0"} /\ client[c] = "answered"
                                   /\ worker[c] \in {"none", "done"}
                                   /\ inProduction => worker[c] = "done"

\* What an end is taken for.
LEMMA OutcomeSays ==
    ASSUME NEW e \in Ended
    PROVE  /\ Outcome(e) \in {"passed", "failed", "timeout"}
           /\ Outcome(e) = "passed" => e \in {"exit0", "late0"}
           /\ Outcome(e) = "timeout" => e = "sigterm"
<1>1. e \in {"exit0", "exit1", "sigterm", "late0", "late1", "sigkill"}
  BY DEF Ended, Late
<1> QED BY <1>1 DEF Outcome

\* A reply is read as passed only when it says that the child ended with 0, and as
\* a timeout only when it says that it came to its limit.
LEMMA ReadingPasses ==
    ASSUME NEW m \in Ended \cup Refusals \cup {"garbled"}, NEW res \in Readings(m)
    PROVE  /\ res \in CmdResult
           /\ res = "passed" => m \in Ended /\ m \in {"exit0", "late0"}
           /\ res = "timeout" => m \in Ended /\ m \in {"sigterm", "late1", "sigkill"}
<1>1. CASE m \in Ended
  <2>n. m # "garbled" /\ m \notin Refusals
    BY <1>1 DEF Ended, Late, Refusals
  <2>1. res \in {Outcome(m)} \cup (IF m \in {"late1", "sigkill"} THEN {"timeout"} ELSE {})
    BY <1>1, <2>n DEF Readings
  <2>2. /\ Outcome(m) \in {"passed", "failed", "timeout"}
        /\ Outcome(m) = "passed" => m \in {"exit0", "late0"}
        /\ Outcome(m) = "timeout" => m = "sigterm"
    BY <1>1, OutcomeSays
  <2> QED BY <1>1, <2>1, <2>2 DEF CmdResult
<1>2. CASE m = "garbled"
  <2>1. "garbled" \notin Ended
    BY DEF Ended, Late
  <2>2. res = "malformed"
    BY <1>2, <2>1 DEF Readings, Refusals
  <2> QED BY <2>2 DEF CmdResult
<1>3. CASE m \in Refusals
  <2>1. m \notin Ended /\ m # "garbled"
    BY <1>3 DEF Ended, Late, Refusals
  <2>2. res = "sandbox_unavailable"
    BY <1>3, <2>1 DEF Readings
  <2> QED BY <2>2 DEF CmdResult
<1> QED BY <1>1, <1>2, <1>3

\* Nothing has been run at first.
LEMMA SandboxInvInit == SandboxInit => SandboxInv
  BY DEF SandboxInit, SandboxInv, SandboxTypeOK, CmdResult, Ended, Late, Refusals

\* The client's and the worker's steps, and what happens to a child, keep it.
LEMMA SandboxInvStep == SandboxInv /\ [SandboxNext]_sandboxVars => SandboxInv'
<1> SUFFICES ASSUME SandboxInv, [SandboxNext]_sandboxVars PROVE SandboxInv'
  OBVIOUS
<1> USE DEF SandboxInv, SandboxTypeOK
<1>1. ASSUME NEW c \in Cmd, NEW tool \in CommandTools, NEW cmd \in CmdShapes, RunCommand(c, tool, cmd)
      PROVE  SandboxInv'
  <2>1. Route = "local" => ~inProduction
    BY DEF Route
  <2>2. worker[c] = "none" /\ result[c] # "passed" /\ reply[c] \notin Ended
    BY <1>1 DEF RunCommand
  <2>3. /\ UNCHANGED <<Deployment, worker, dirs, reply, workerCrashes>>
        /\ \E dest \in {"waiting", "local", "answered"},
              res \in {"none", "denied", "bad_params", "sandbox_unavailable"} :
             /\ client' = [client EXCEPT ![c] = dest] /\ result' = [result EXCEPT ![c] = res]
             /\ dest = "local" => Route = "local"
        /\ child' = child \/ child' = [child EXCEPT ![c] = "alive"]
    BY <1>1 DEF RunCommand, Client
  <2> QED BY <2>1, <2>2, <2>3 DEF Deployment, CmdResult, Ended, Late
<1>2. ASSUME NEW c \in Cmd, LocalEnds(c) PROVE SandboxInv'
  <2> DEFINE res == Outcome(child[c])
  <2>1. /\ result' = [result EXCEPT ![c] = res] /\ client' = [client EXCEPT ![c] = "answered"]
        /\ client[c] = "local" /\ child[c] \in Ended
        /\ UNCHANGED <<Deployment, worker, child, dirs, reply, workerCrashes>>
    BY <1>2 DEF LocalEnds, Client
  <2>2. /\ res \in {"passed", "failed", "timeout"}
        /\ res = "passed" => child[c] \in {"exit0", "late0"}
        /\ res = "timeout" => child[c] = "sigterm"
    BY <2>1, OutcomeSays
  <2> HIDE DEF res
  <2> QED BY <2>1, <2>2 DEF Deployment, CmdResult
<1>15. ASSUME NEW c \in Cmd, LocalAborted(c) PROVE SandboxInv'
  BY <1>15 DEF LocalAborted, Deployment, Ended, Late
<1>3. ASSUME NEW c \in Cmd, Receive(c) PROVE SandboxInv'
  <2>1. reply[c] \in Ended \cup Refusals \cup {"garbled"}
    BY <1>3 DEF Receive
  <2>2. PICK res \in Readings(reply[c]) : Client(c, "answered", res)
    BY <1>3 DEF Receive
  <2>3. /\ res \in CmdResult
        /\ res = "passed" => reply[c] \in Ended /\ reply[c] \in {"exit0", "late0"}
        /\ res = "timeout" => reply[c] \in Ended /\ reply[c] \in {"sigterm", "late1", "sigkill"}
    BY <2>1, ReadingPasses
  <2>4. /\ client[c] = "waiting" /\ reply' = [reply EXCEPT ![c] = "none"]
        /\ UNCHANGED <<Deployment, worker, child, dirs, workerCrashes>>
    BY <1>3 DEF Receive
  <2>5. result' = [result EXCEPT ![c] = res] /\ client' = [client EXCEPT ![c] = "answered"]
    BY <2>2 DEF Client
  <2>6. "none" \notin Ended
    BY DEF Ended, Late
  <2> QED BY <2>3, <2>4, <2>5, <2>6 DEF Deployment
<1>4. ASSUME NEW c \in Cmd, ClientGivesUp(c) PROVE SandboxInv'
  BY <1>4 DEF ClientGivesUp, Client, Deployment, CmdResult, Ended, Late
<1>5. ASSUME NEW c \in Cmd, Accept(c) PROVE SandboxInv'
  <2>1. \/ worker' = [worker EXCEPT ![c] = "filling"] /\ dirs' = dirs \cup {c} /\ reply' = reply
        \/ /\ worker' = [worker EXCEPT ![c] = "done"] /\ dirs' = dirs
           /\ \E m \in Refusals \cup {"none"} : reply' = [reply EXCEPT ![c] = m]
    BY <1>5 DEF Accept, Worker, Reply
  <2>2. \A m \in Refusals \cup {"none"} : m \notin Ended
    BY DEF Refusals, Ended, Late
  <2>3. result[c] # "passed"
    BY <1>5 DEF Accept
  <2>4. UNCHANGED <<Deployment, client, result, child, workerCrashes>> /\ client[c] = "waiting" /\ worker[c] = "none"
    BY <1>5 DEF Accept
  <2> QED BY <2>1, <2>2, <2>3, <2>4 DEF Deployment
<1>6. ASSUME NEW c \in Cmd, Fill(c) PROVE SandboxInv'
  <2>1. \/ worker' = [worker EXCEPT ![c] = "running"] /\ child' = [child EXCEPT ![c] = "alive"]
        \/ worker' = [worker EXCEPT ![c] = "throwing"] /\ child' = child
    BY <1>6 DEF Fill, Worker
  <2>2. UNCHANGED <<Deployment, client, result, dirs, reply, workerCrashes>> /\ worker[c] = "filling"
    BY <1>6 DEF Fill
  <2>3. "alive" \notin Ended
    BY DEF Ended, Late
  <2> QED BY <2>1, <2>2, <2>3 DEF Deployment
<1>7. ASSUME NEW c \in Cmd, ChildExits(c) PROVE SandboxInv'
  BY <1>7 DEF ChildExits, Deployment, Ended, Late
<1>8. ASSUME NEW c \in Cmd, TimeLimit(c) PROVE SandboxInv'
  BY <1>8 DEF TimeLimit, Deployment, Ended, Late
<1>9. ASSUME NEW c \in Cmd, ChildStops(c) PROVE SandboxInv'
  BY <1>9 DEF ChildStops, Deployment, Ended, Late
<1>10. ASSUME NEW c \in Cmd, Collect(c) PROVE SandboxInv'
  BY <1>10 DEF Collect, Worker, Deployment
<1>11. ASSUME NEW c \in Cmd, RemoveAndReply(c) PROVE SandboxInv'
  <2>1. \E m \in Ended \cup {"failure", "none"} :
           /\ reply' = [reply EXCEPT ![c] = m]
           /\ m \in Ended => m = child[c]
    <3> DEFINE m == IF client[c] = "waiting"
                    THEN IF worker[c] = "removing" THEN child[c] ELSE "failure" ELSE "none"
    <3>1. reply' = [reply EXCEPT ![c] = m]
      BY <1>11 DEF RemoveAndReply, Reply
    <3>2. m \in Ended \cup {"failure", "none"} /\ (m \in Ended => m = child[c])
      BY DEF Ended, Late
    <3> QED BY <3>1, <3>2
  <2>2. /\ \/ dirs' = dirs \ {c} /\ left' = left
           \/ dirs' = dirs /\ left' = left \cup {c}
        /\ worker' = [worker EXCEPT ![c] = "done"]
        /\ worker[c] \in {"removing", "throwing"}
        /\ UNCHANGED <<inProduction, workerUrl, client, result, child, workerCrashes>>
    BY <1>11 DEF RemoveAndReply, Worker
  <2>3. "failure" \in Refusals /\ "failure" \notin Ended /\ "none" \notin Ended
    BY DEF Refusals, Ended, Late
  <2>4. PICK m \in Ended \cup {"failure", "none"} :
           /\ reply' = [reply EXCEPT ![c] = m]
           /\ m \in Ended => m = child[c]
    BY <2>1
  <2>5. SandboxTypeOK'
    BY <2>2, <2>3, <2>4
  <2>6. \A d \in Cmd : reply'[d] \in Ended => worker'[d] = "done" /\ child'[d] = reply'[d]
    BY <2>2, <2>3, <2>4
  <2>7. \A d \in Cmd : d \in dirs' \ left' => worker'[d] \in {"filling", "running", "removing", "throwing"}
    BY <2>2
  <2> QED BY <2>2, <2>5, <2>6, <2>7
<1>12. ASSUME NEW c \in Cmd, Garble(c) PROVE SandboxInv'
  BY <1>12 DEF Garble, Deployment, Ended, Late
<1>13. CASE WorkerCrash
  BY <1>13 DEF WorkerCrash, Deployment, Ended, Late
<1>14. CASE UNCHANGED sandboxVars
  BY <1>14 DEF sandboxVars
<1> QED BY <1>1, <1>2, <1>3, <1>4, <1>5, <1>6, <1>7, <1>8, <1>9, <1>10, <1>11, <1>12, <1>13, <1>14, <1>15
        DEF SandboxNext

\* The invariant is about every reply, and so about every result.
LEMMA SandboxGood == SandboxInv => SandboxTypeOK /\ SandboxHonest
  BY DEF SandboxInv, SandboxHonest

-----------------------------------------------------------------------------
(* Fetches: a hop that connects has been checked as the first one was.     *)

\* No hop connects twice, and each has passed its own checks by then.
FetchInv ==
    /\ FetchTypeOK
    /\ via = "worker" => hops = 0 /\ at # "lookup"
    /\ via = "demo_browser" => hops = 0 /\ reached = {} /\ at \in {"shape", "done"}
    /\ at = "lookup" => ShapeOk(page)
    /\ at \in {"connect", "body"} =>
          IF via = "worker" THEN ValidBrowse(page)
          ELSE ShapeOk(page) /\ found # {} /\ \A a \in found : ~Blocked(a)
    /\ IsFiniteSet(reached)
    /\ Cardinality(reached) <= hops + (IF at \in {"body", "done"} THEN 1 ELSE 0)
    /\ \A x \in reached :
          IF via = "worker" THEN ValidBrowse(x.url) /\ x.hop = 0
          ELSE /\ ShapeOk(x.url) /\ x.to # {}
               /\ \A a \in x.to : a.public /\ a.family \in {"v4", "v6"}
    /\ outcome = "mock" => at = "done" /\ reached = {}

\* Nothing has been fetched at first.
LEMMA FetchInvInit == FetchInit => FetchInv
<1> SUFFICES ASSUME FetchInit PROVE FetchInv
  OBVIOUS
<1>1. reached = {} /\ IsFiniteSet(reached) /\ Cardinality(reached) = 0
  BY FS_EmptySet DEF FetchInit
<1> QED BY <1>1, ToolHandlersAssumption DEF FetchInit, FetchInv, FetchTypeOK

\* Every step of a hop keeps it.
LEMMA FetchInvStep == FetchInv /\ [FetchNext]_fetchVars => FetchInv'
<1> SUFFICES ASSUME FetchInv, [FetchNext]_fetchVars PROVE FetchInv'
  OBVIOUS
<1>0. /\ IsFiniteSet(reached) /\ Cardinality(reached) \in Nat /\ hops \in Nat /\ hops <= MaxRedirects
      /\ Cardinality(reached) <= hops + (IF at \in {"body", "done"} THEN 1 ELSE 0)
      /\ MaxRedirects \in Nat
  BY FS_CardinalityType, ToolHandlersAssumption DEF FetchInv, FetchTypeOK
<1>n. Cardinality(reached) = 0 => reached = {}
  BY <1>0, FS_EmptySet
<1>e. \A what : End(what) => at' = "done" /\ outcome' = what
  BY DEF End
<1>1. CASE CheckShape
  <2>1. UNCHANGED <<via, net, page, hops, found, reached>> /\ at = "shape" /\ via # "worker"
    BY <1>1 DEF CheckShape
  <2>2. \/ at' = "done" /\ outcome' = "denied"
        \/ at' = "done" /\ outcome' = "mock" /\ hops = 0
        \/ at' = "lookup" /\ outcome' = outcome /\ ShapeOk(page) /\ via # "demo_browser"
    BY <1>1 DEF CheckShape, End, Mocked, FetchInv
  <2>3. hops = 0 => reached = {}
    BY <1>0, <1>n, <2>1
  <2> QED BY <1>0, <2>1, <2>2, <2>3 DEF FetchInv, FetchTypeOK, ShapeOk, ValidBrowse
<1>2. CASE Lookup
  <2>1. /\ UNCHANGED <<via, net, page, hops, reached>> /\ at = "lookup" /\ ShapeOk(page) /\ via # "worker"
        /\ via # "demo_browser"
    BY <1>2 DEF Lookup, FetchInv
  <2>2. \/ at' = "done" /\ outcome' = "denied"
        \/ at' = "connect" /\ outcome' = outcome /\ found' # {} /\ \A a \in found' : ~Blocked(a)
    BY <1>2 DEF Lookup, End
  <2> QED BY <1>0, <2>1, <2>2 DEF FetchInv, FetchTypeOK, ShapeOk, ValidBrowse
<1>3. CASE Connect
  <2> DEFINE x == [url |-> page, to |-> found, hop |-> hops]
  <2>1. /\ UNCHANGED <<via, net, page, hops, found>> /\ at = "connect" /\ reached' = reached \cup {x}
        /\ via # "demo_browser" /\ outcome # "mock"
    BY <1>3 DEF Connect, FetchInv
  <2>2. \/ at' = "body" /\ outcome' = outcome
        \/ at' = "done" /\ outcome' \in {"fetch_failure", "timeout"}
    BY <1>3 DEF Connect, End
  <2>3. IsFiniteSet(reached') /\ Cardinality(reached') <= Cardinality(reached) + 1
    <3> HIDE DEF x
    <3>1. /\ IsFiniteSet(reached \cup {x})
          /\ Cardinality(reached \cup {x}) = IF x \in reached THEN Cardinality(reached) ELSE Cardinality(reached) + 1
      BY <1>0, FS_AddElement
    <3> QED BY <1>0, <2>1, <3>1
  <2>4. Cardinality(reached') \in Nat /\ Cardinality(reached') <= hops + 1
    BY <1>0, <2>1, <2>3, FS_CardinalityType
  <2>5. IF via = "worker" THEN ValidBrowse(x.url) /\ x.hop = 0
        ELSE /\ ShapeOk(x.url) /\ x.to # {}
             /\ \A a \in x.to : a.public /\ a.family \in {"v4", "v6"}
    BY <2>1 DEF FetchInv, Blocked
  <2>6. x.url = page
    OBVIOUS
  <2> HIDE DEF x
  <2>7. \A y \in reached' :
          IF via = "worker" THEN ValidBrowse(y.url) /\ y.hop = 0
          ELSE /\ ShapeOk(y.url) /\ y.to # {}
               /\ \A a \in y.to : a.public /\ a.family \in {"v4", "v6"}
    BY <2>1, <2>5 DEF FetchInv
  <2>8. \A u : ShapeOk(u)' = ShapeOk(u) /\ ValidBrowse(u)' = ValidBrowse(u)
    BY <2>1 DEF ShapeOk, ValidBrowse
  <2> QED BY <2>1, <2>2, <2>3, <2>4, <2>7, <2>8 DEF FetchInv, FetchTypeOK, ShapeOk, ValidBrowse
<1>4. CASE Redirect
  <2>1. UNCHANGED <<via, net, found, reached>> /\ at = "body" /\ via # "worker" /\ via # "demo_browser" /\ outcome # "mock"
    BY <1>4 DEF Redirect, FetchInv
  <2>2. \/ at' = "done" /\ outcome' = "redirect_limit" /\ page' = page /\ hops' = hops
        \/ at' = "shape" /\ outcome' = outcome /\ page' \in Url /\ hops' = hops + 1 /\ ~(hops >= MaxRedirects)
    BY <1>4 DEF Redirect, Follow, End
  <2>3. hops' \in 0..MaxRedirects
    BY <1>0, <2>2
  <2>4. Cardinality(reached) <= hops' + (IF at' \in {"body", "done"} THEN 1 ELSE 0)
    BY <1>0, <2>1, <2>2
  <2> QED BY <2>1, <2>2, <2>3, <2>4 DEF FetchInv, FetchTypeOK, ShapeOk, ValidBrowse
<1>5. CASE Body \/ BrowseRedirect
  <2>1. UNCHANGED <<via, net, page, hops, found, reached>> /\ at = "body"
    BY <1>5 DEF Body, BrowseRedirect
  <2>2. at' = "done" /\ outcome' \in {"ok", "oversized", "fetch_failure", "timeout", "redirect"}
    BY <1>5 DEF Body, BrowseRedirect, End
  <2> QED BY <1>0, <2>1, <2>2 DEF FetchInv, FetchTypeOK, ShapeOk, ValidBrowse
<1>6. CASE BrowseRequest
  <2>1. UNCHANGED <<via, net, page, hops, found, reached>> /\ at = "request"
    BY <1>6 DEF BrowseRequest
  <2>2. \/ at' = "shape" /\ outcome' = outcome
        \/ at' = "done" /\ outcome' \in {"unauthorized", "oversized", "bad_params"}
    BY <1>6 DEF BrowseRequest, End
  <2> QED BY <1>0, <2>1, <2>2 DEF FetchInv, FetchTypeOK, ShapeOk, ValidBrowse
<1>7. CASE BrowseCheck
  <2>1. UNCHANGED <<via, net, page, hops, found, reached>> /\ at = "shape" /\ via = "worker" /\ hops = 0
    BY <1>7 DEF BrowseCheck, FetchInv
  <2>2. \/ at' = "done" /\ outcome' \in {"bad_params", "mock", "denied"}
        \/ at' = "connect" /\ outcome' = outcome /\ ValidBrowse(page)
    BY <1>7 DEF BrowseCheck, End
  <2>3. reached = {}
    BY <1>0, <1>n, <2>1
  <2> QED BY <1>0, <2>1, <2>2, <2>3 DEF FetchInv, FetchTypeOK, ShapeOk, ValidBrowse
<1>8. CASE UNCHANGED fetchVars
  BY <1>8 DEF fetchVars, FetchInv, FetchTypeOK, ShapeOk, ValidBrowse
<1> QED BY <1>1, <1>2, <1>3, <1>4, <1>5, <1>6, <1>7, <1>8 DEF FetchNext

\* No more connections than hops.
LEMMA FetchGood == FetchInv => FetchTypeOK /\ FetchGuarded
<1> SUFFICES ASSUME FetchInv PROVE FetchTypeOK /\ FetchGuarded
  OBVIOUS
<1>1. /\ Cardinality(reached) \in Nat /\ hops \in Nat /\ hops <= MaxRedirects
      /\ Cardinality(reached) <= hops + (IF at \in {"body", "done"} THEN 1 ELSE 0)
      /\ MaxRedirects \in Nat
  BY FS_CardinalityType, ToolHandlersAssumption DEF FetchInv, FetchTypeOK
<1>2. Cardinality(reached) <= MaxRedirects + 1
  BY <1>1
<1>3. via = "worker" => Cardinality(reached) <= 1
  BY <1>1 DEF FetchInv
<1> QED BY <1>2, <1>3 DEF FetchInv, FetchGuarded

-----------------------------------------------------------------------------
(* Patches: what is verified was the file.                                 *)

FileText == [edits : Seq(Patcher \cup {user}), state : {"whole", "emptied", "mixed"}]
PatchRec == [at : {"idle", "open", "write", "rename", "verify", "done"}, base : FileText, tmp : TmpName,
             out : Patcher \cup {First},
             ans : {"none", "dry_run", "disabled", "patch_conflict", "refused", "failure", "applied", "apply_failed"}]

\* The file is one of its texts, a patch under way works on one, and one that was
\* verified made one.
PatchKnown ==
    /\ text \in seen
    /\ kind # "text" => text = Original
    /\ \A p \in Patcher :
        /\ pt[p].at # "done" => pt[p].ans = "none"
        /\ pt[p].at \in {"open", "write", "rename", "verify"} => kind = "text" /\ pt[p].base \in seen
        /\ pt[p].ans = "applied" => kind = "text" /\ pt[p].base \in seen /\ Mine(p) \in seen

\* As long as no two patches have had one temporary name: each writes a file of its
\* own, which is the file's only once it is written.
PatchApart ==
    /\ \A t \in seen : t.state = "whole"
    /\ target = First \/ pt[target].at \in {"verify", "done"}
    /\ \A p \in Patcher :
        /\ pt[p].at \in {"write", "rename"} => pt[p].out = p /\ tmpFile[pt[p].tmp] = p
        /\ pt[p].at = "rename" => content[p] = Mine(p)
        /\ pt[p].at = "write" => content[p] = Emptied
    /\ \A n \in TmpName : tmpFile[n] # NoTmp =>
          pt[tmpFile[n]].at \in {"write", "rename"} /\ pt[tmpFile[n]].tmp = n

PatchInv ==
    /\ pt \in [Patcher -> PatchRec] /\ content \in [Patcher \cup {First} -> FileText]
    /\ tmpFile \in [TmpName -> Patcher \cup {NoTmp}]
    /\ target \in Patcher \cup {First}
    /\ shared \in BOOLEAN
    /\ PatchKnown
    /\ ~shared => PatchApart

\* An edit of a text is a text.
LEMMA EditedText ==
    ASSUME NEW t \in FileText, NEW w \in Patcher \cup {user}
    PROVE  Edited(t, w) \in FileText /\ Edited(t, w).state = t.state
  BY DEF FileText, Edited

\* No patch has been made at first.
LEMMA PatchInvInit == PatchInit => PatchInv
<1> SUFFICES ASSUME PatchInit PROVE PatchInv
  OBVIOUS
<1> DEFINE c == CHOOSE n \in TmpName : TRUE
<1>1. c \in TmpName
  BY PatchersAssumption
<1>2. pt = [p \in Patcher |-> [at |-> "idle", base |-> Original, tmp |-> c, out |-> First, ans |-> "none"]]
  BY DEF PatchInit
<1> HIDE DEF c
<1>3. Original \in FileText /\ Original.state = "whole"
  BY DEF Original, FileText
<1>o. [p \in Patcher \cup {First} |-> Original] \in [Patcher \cup {First} -> FileText]
  BY <1>3
<1>4. /\ pt \in [Patcher -> PatchRec]
      /\ \A p \in Patcher : pt[p].at = "idle" /\ pt[p].ans = "none"
  BY <1>1, <1>2, <1>3 DEF PatchRec
<1>5. /\ content \in [Patcher \cup {First} -> FileText] /\ tmpFile = [n \in TmpName |-> NoTmp]
      /\ target = First /\ shared = FALSE /\ seen = {Original} /\ text = Original
  BY <1>o DEF PatchInit, NoTmp, First, text
<1>6. PatchKnown
  BY <1>4, <1>5 DEF PatchKnown
<1>7. PatchApart
  BY <1>3, <1>4, <1>5 DEF PatchApart
<1> QED BY <1>4, <1>5, <1>6, <1>7 DEF PatchInv

\* A patch reads the file, or ends at once.
LEMMA PatchReads ==
    ASSUME PatchInv, NEW p \in Patcher, ReadForPatch(p) PROVE PatchInv'
<1>1. /\ content' = content /\ target' = target /\ kind' = kind /\ tmpFile' = tmpFile
      /\ shared' = shared /\ seen' = seen /\ text' = text /\ text \in FileText
      /\ pt[p].at = "idle" /\ pt \in [Patcher -> PatchRec] /\ pt[p] \in PatchRec
  BY DEF ReadForPatch, PatchInv, PatchEnds, text
<1>2. ASSUME NEW r \in PatchRec, pt' = [pt EXCEPT ![p] = r],
             r.at \in {"open", "done"}, r.ans \in {"none", "dry_run", "disabled", "patch_conflict", "refused"},
             r.at = "open" => kind = "text" /\ r.base = text /\ r.ans = "none"
      PROVE  PatchInv'
  <2>1. pt' \in [Patcher -> PatchRec] /\ pt'[p] = r /\ \A q \in Patcher : q # p => pt'[q] = pt[q]
    BY <1>1, <1>2
  <2>2. PatchKnown'
    BY <1>1, <1>2, <2>1 DEF PatchInv, PatchKnown, Mine
  <2>3. ~shared => PatchApart'
    BY <1>1, <1>2, <2>1 DEF PatchInv, PatchApart, Mine
  <2> QED BY <1>1, <2>1, <2>2, <2>3 DEF PatchInv
<1>3. ASSUME NEW ans \in {"dry_run", "disabled", "patch_conflict", "refused"}, PatchEnds(p, ans)
      PROVE  PatchInv'
  <2> DEFINE r == [pt[p] EXCEPT !.at = "done", !.ans = ans]
  <2>1. r \in PatchRec /\ r.at = "done" /\ r.ans = ans
    BY <1>1 DEF PatchRec
  <2>2. pt' = [pt EXCEPT ![p] = r]
    BY <1>3 DEF PatchEnds
  <2> HIDE DEF r
  <2> QED BY <1>2, <2>1, <2>2
<1>4. CASE kind = "text" /\ pt' = [pt EXCEPT ![p] = [@ EXCEPT !.at = "open", !.base = text]]
  <2> DEFINE r == [pt[p] EXCEPT !.at = "open", !.base = text]
  <2>2. r \in PatchRec /\ r.at = "open" /\ r.base = text /\ r.ans = pt[p].ans
    BY <1>1 DEF PatchRec
  <2>3. pt' = [pt EXCEPT ![p] = r]
    BY <1>4
  <2> HIDE DEF r
  <2> QED BY <1>1, <1>2, <1>4, <2>2, <2>3 DEF PatchInv, PatchKnown
<1> QED BY <1>3, <1>4 DEF ReadForPatch

\* A patch opens its temporary file, and two may open one.
LEMMA PatchOpens ==
    ASSUME PatchInv, NEW p \in Patcher, OpenTmp(p) PROVE PatchInv'
<1> DEFINE out(n) == IF tmpFile[n] = NoTmp THEN p ELSE tmpFile[n]
<1>1. PICK n \in TmpName :
        /\ content' = [content EXCEPT ![out(n)] = Emptied]
        /\ tmpFile' = [tmpFile EXCEPT ![n] = out(n)]
        /\ shared' = (shared \/ tmpFile[n] # NoTmp)
        /\ pt' = [pt EXCEPT ![p] = [@ EXCEPT !.at = "write", !.tmp = n, !.out = out(n)]]
  BY DEF OpenTmp
<1>a. pt[p].at = "open" /\ target' = target /\ kind' = kind
  BY DEF OpenTmp
<1>b. seen' = seen \cup {content'[target]}
  BY DEF OpenTmp
<1>c. /\ pt \in [Patcher -> PatchRec] /\ shared \in BOOLEAN /\ target \in Patcher \cup {First}
      /\ content \in [Patcher \cup {First} -> FileText] /\ tmpFile \in [TmpName -> Patcher \cup {NoTmp}]
  BY DEF PatchInv
<1>d. out(n) \in Patcher \cup {First} /\ tmpFile[n] \in Patcher \cup {NoTmp} /\ pt[p] \in PatchRec
  BY <1>c DEF NoTmp, First
<1>2. /\ pt[p].at = "open" /\ target' = target /\ kind' = kind /\ seen' = seen \cup {text'}
      /\ pt \in [Patcher -> PatchRec] /\ pt[p] \in PatchRec /\ out(n) \in Patcher \cup {First}
      /\ tmpFile[n] \in Patcher \cup {NoTmp} /\ shared \in BOOLEAN /\ target \in Patcher \cup {First}
      /\ content \in [Patcher \cup {First} -> FileText] /\ tmpFile \in [TmpName -> Patcher \cup {NoTmp}]
  BY <1>a, <1>b, <1>c, <1>d DEF text
<1> DEFINE r == [pt[p] EXCEPT !.at = "write", !.tmp = n, !.out = out(n)]
<1>3. r \in PatchRec /\ r.at = "write" /\ r.base = pt[p].base /\ r.tmp = n /\ r.out = out(n) /\ r.ans = pt[p].ans
  BY <1>2 DEF PatchRec
<1>4. pt' = [pt EXCEPT ![p] = r]
  BY <1>1
<1> HIDE DEF r
<1>5. pt' \in [Patcher -> PatchRec] /\ pt'[p] = r /\ \A q \in Patcher : q # p => pt'[q] = pt[q]
  BY <1>2, <1>3, <1>4
<1>6. Emptied \in FileText
  BY DEF Emptied, FileText
<1>7. kind = "text" /\ pt[p].base \in seen /\ pt[p].ans = "none"
  BY <1>2 DEF PatchInv, PatchKnown
<1>8. PatchKnown'
  BY <1>2, <1>3, <1>5, <1>7 DEF PatchInv, PatchKnown, Mine
<1>9. ASSUME ~shared' PROVE PatchApart'
  <2>1. ~shared /\ tmpFile[n] = NoTmp /\ out(n) = p
    BY <1>1, <1>2, <1>9
  <2> HIDE DEF out
  <2>2. target # p
    BY <1>2, <2>1, PatchersAssumption DEF PatchInv, PatchApart, First
  <2>3. text' = text /\ \A q \in Patcher : q # p => content'[q] = content[q]
    BY <1>1, <1>2, <2>1, <2>2 DEF text
  <2>4. content'[p] = Emptied /\ tmpFile'[n] = p /\ \A m \in TmpName : m # n => tmpFile'[m] = tmpFile[m]
    BY <1>1, <1>2, <2>1
  <2>5. seen' = seen
    BY <1>2, <2>3 DEF PatchInv, PatchKnown
  <2>6. \A q \in Patcher : q # NoTmp
    BY PatchersAssumption DEF NoTmp
  <2>7. target = First \/ pt'[target].at \in {"verify", "done"}
    BY <1>2, <1>5, <2>1, <2>2 DEF PatchInv, PatchApart
  <2>8. ASSUME NEW q \in Patcher
        PROVE  /\ pt'[q].at \in {"write", "rename"} => pt'[q].out = q /\ tmpFile'[pt'[q].tmp] = q
               /\ pt'[q].at = "rename" => content'[q] = Mine(q)'
               /\ pt'[q].at = "write" => content'[q] = Emptied
    <3>1. CASE q = p
      BY <1>3, <1>5, <2>1, <2>4, <3>1
    <3>2. CASE q # p
      <4>1. pt'[q] = pt[q] /\ content'[q] = content[q] /\ pt[q].tmp \in TmpName
        BY <1>2, <1>5, <2>3, <3>2 DEF PatchRec
      <4>2. pt[q].at \in {"write", "rename"} => tmpFile[pt[q].tmp] = q /\ pt[q].tmp # n
        BY <2>1, <2>6 DEF PatchInv, PatchApart
      <4> QED BY <2>1, <2>4, <4>1, <4>2 DEF PatchInv, PatchApart, Mine
    <3> QED BY <3>1, <3>2
  <2>9. ASSUME NEW m \in TmpName, tmpFile'[m] # NoTmp
        PROVE  pt'[tmpFile'[m]].at \in {"write", "rename"} /\ pt'[tmpFile'[m]].tmp = m
    <3>1. CASE m = n
      BY <1>3, <1>5, <2>4, <3>1
    <3>2. CASE m # n
      BY <1>2, <1>5, <2>1, <2>4, <2>9, <3>2 DEF PatchInv, PatchApart
    <3> QED BY <3>1, <3>2
  <2> QED BY <1>2, <2>1, <2>5, <2>7, <2>8, <2>9 DEF PatchInv, PatchApart
<1>10. content' \in [Patcher \cup {First} -> FileText] /\ tmpFile' \in [TmpName -> Patcher \cup {NoTmp}]
  <2>1. out(n) \in Patcher \cup {NoTmp}
    BY <1>2
  <2> HIDE DEF out
  <2> QED BY <1>1, <1>2, <1>6, <2>1
<1>11. shared' \in BOOLEAN
  BY <1>1, <1>2
<1> QED BY <1>2, <1>5, <1>8, <1>9, <1>10, <1>11 DEF PatchInv

\* A patch writes, over another one's bytes if they share a file.
LEMMA PatchWrites ==
    ASSUME PatchInv, NEW p \in Patcher, WriteTmp(p) PROVE PatchInv'
<1>a. /\ pt[p].at = "write" /\ target' = target /\ kind' = kind /\ tmpFile' = tmpFile /\ shared' = shared
      /\ seen' = seen \cup {content'[target]}
  BY DEF WriteTmp
<1>b. pt' = [pt EXCEPT ![p] = [@ EXCEPT !.at = "rename"]]
  BY DEF WriteTmp
<1>1. /\ pt[p].at = "write" /\ target' = target /\ kind' = kind /\ tmpFile' = tmpFile /\ shared' = shared
      /\ seen' = seen \cup {text'} /\ pt' = [pt EXCEPT ![p] = [@ EXCEPT !.at = "rename"]]
  BY <1>a, <1>b DEF text
<1>2. /\ pt \in [Patcher -> PatchRec] /\ pt[p] \in PatchRec /\ pt[p].out \in Patcher \cup {First}
      /\ content \in [Patcher \cup {First} -> FileText] /\ target \in Patcher \cup {First}
      /\ pt[p].base \in FileText
  BY DEF PatchInv, PatchRec
<1>3. PICK t \in IF content[pt[p].out] = Emptied THEN {Mine(p)} ELSE {Mine(p), Mixed} :
        content' = [content EXCEPT ![pt[p].out] = t]
  BY DEF WriteTmp
<1>4. Mine(p) \in FileText /\ Mixed \in FileText
  <2>1. Mine(p) \in FileText
    BY <1>2, EditedText DEF Mine
  <2> QED BY <2>1 DEF Mixed, FileText
<1>5. t \in FileText
  BY <1>3, <1>4
<1>6. content' \in [Patcher \cup {First} -> FileText]
  BY <1>2, <1>3, <1>5
<1> DEFINE r == [pt[p] EXCEPT !.at = "rename"]
<1>7. r \in PatchRec /\ r.at = "rename" /\ r.base = pt[p].base /\ r.tmp = pt[p].tmp /\ r.out = pt[p].out /\ r.ans = pt[p].ans
  BY <1>2 DEF PatchRec
<1>8. pt' = [pt EXCEPT ![p] = r]
  BY <1>1
<1> HIDE DEF r
<1>9. pt' \in [Patcher -> PatchRec] /\ pt'[p] = r /\ \A q \in Patcher : q # p => pt'[q] = pt[q]
  BY <1>2, <1>7, <1>8
<1>10. PatchKnown'
  BY <1>1, <1>2, <1>7, <1>9 DEF PatchInv, PatchKnown, Mine
<1>11. ASSUME ~shared PROVE PatchApart'
  <2>1. pt[p].out = p /\ content[p] = Emptied /\ target # p
    BY <1>1, <1>2, <1>11, PatchersAssumption DEF PatchInv, PatchApart, First
  <2>2. t = Mine(p) /\ content'[p] = Mine(p) /\ text' = text /\ \A q \in Patcher : q # p => content'[q] = content[q]
    BY <1>1, <1>2, <1>3, <2>1 DEF text
  <2>3. seen' = seen
    BY <1>1, <2>2 DEF PatchInv, PatchKnown
  <2>4. Mine(p)' = Mine(p)
    BY <1>7, <1>9 DEF Mine
  <2>5. \A q \in Patcher : q # p => Mine(q)' = Mine(q)
    BY <1>9 DEF Mine
  <2>6. \A q \in Patcher : pt'[q].tmp = pt[q].tmp /\ pt'[q].out = pt[q].out
    BY <1>7, <1>9
  <2>7. \A q \in Patcher :
          /\ pt'[q].at \in {"write", "rename"} => pt[q].at \in {"write", "rename"}
          /\ pt[q].at \in {"write", "rename"} => pt'[q].at \in {"write", "rename"}
    BY <1>1, <1>7, <1>9
  <2>8. ASSUME NEW q \in Patcher
        PROVE  /\ pt'[q].at \in {"write", "rename"} => pt'[q].out = q /\ tmpFile'[pt'[q].tmp] = q
               /\ pt'[q].at = "rename" => content'[q] = Mine(q)'
               /\ pt'[q].at = "write" => content'[q] = Emptied
    <3>1. CASE q = p
      BY <1>1, <1>7, <1>9, <1>11, <2>2, <2>4, <2>6, <2>7, <3>1 DEF PatchInv, PatchApart
    <3>2. CASE q # p
      BY <1>1, <1>9, <1>11, <2>2, <2>5, <3>2 DEF PatchInv, PatchApart
    <3> QED BY <3>1, <3>2
  <2>9. target = First \/ pt'[target].at \in {"verify", "done"}
    BY <1>2, <1>9, <1>11, <2>1 DEF PatchInv, PatchApart
  <2>10. \A m \in TmpName : tmpFile[m] # NoTmp =>
           pt'[tmpFile[m]].at \in {"write", "rename"} /\ pt'[tmpFile[m]].tmp = m
    BY <1>11, <2>6, <2>7 DEF PatchInv, PatchApart
  <2> QED BY <1>1, <1>11, <2>3, <2>8, <2>9, <2>10 DEF PatchInv, PatchApart
<1> QED BY <1>1, <1>6, <1>9, <1>10, <1>11 DEF PatchInv

\* A patch puts its file in the place of the old one, or finds it gone.
LEMMA PatchRenames ==
    ASSUME PatchInv, NEW p \in Patcher, Rename(p) PROVE PatchInv'
<1>1. /\ pt[p].at = "rename" /\ content' = content /\ kind' = kind /\ shared' = shared
      /\ pt \in [Patcher -> PatchRec] /\ pt[p] \in PatchRec /\ pt[p].tmp \in TmpName /\ pt[p].base \in FileText
      /\ tmpFile[pt[p].tmp] \in Patcher \cup {NoTmp} /\ tmpFile \in [TmpName -> Patcher \cup {NoTmp}]
      /\ content \in [Patcher \cup {First} -> FileText] /\ target \in Patcher \cup {First}
  BY DEF Rename, PatchInv, PatchRec
<1>2. CASE tmpFile[pt[p].tmp] = NoTmp
  <2> DEFINE r == [pt[p] EXCEPT !.at = "done", !.ans = "failure"]
  <2>1. r \in PatchRec /\ r.at = "done" /\ r.ans = "failure" /\ r.base = pt[p].base
    BY <1>1 DEF PatchRec
  <2>2. pt' = [pt EXCEPT ![p] = r] /\ target' = target /\ tmpFile' = tmpFile /\ seen' = seen /\ text' = text
    BY <1>1, <1>2 DEF Rename, PatchEnds, text
  <2> HIDE DEF r
  <2>3. pt' \in [Patcher -> PatchRec] /\ pt'[p] = r /\ \A q \in Patcher : q # p => pt'[q] = pt[q]
    BY <1>1, <2>1, <2>2
  <2>4. PatchKnown'
    BY <1>1, <2>1, <2>2, <2>3 DEF PatchInv, PatchKnown, Mine
  <2>5. shared
    BY <1>1, <1>2, PatchersAssumption DEF PatchInv, PatchApart, NoTmp
  <2> QED BY <1>1, <2>2, <2>3, <2>4, <2>5 DEF PatchInv
<1>3. CASE tmpFile[pt[p].tmp] # NoTmp
  <2> DEFINE r == [pt[p] EXCEPT !.at = "verify"]
             w == tmpFile[pt[p].tmp]
  <2>1. r \in PatchRec /\ r.at = "verify" /\ r.ans = pt[p].ans /\ r.base = pt[p].base
    BY <1>1 DEF PatchRec
  <2>2. /\ pt' = [pt EXCEPT ![p] = r] /\ target' = w
        /\ tmpFile' = [tmpFile EXCEPT ![pt[p].tmp] = NoTmp] /\ seen' = seen \cup {content[w]}
    BY <1>3 DEF Rename
  <2>3. w \in Patcher /\ w \in Patcher \cup {First}
    BY <1>1, <1>3
  <2>4. text' = content[w]
    BY <1>1, <2>2 DEF text
  <2> HIDE DEF r
  <2>5. pt' \in [Patcher -> PatchRec] /\ pt'[p] = r /\ \A q \in Patcher : q # p => pt'[q] = pt[q]
    BY <1>1, <2>1, <2>2
  <2>6. PatchKnown'
    <3>1. text' \in seen' /\ kind = "text"
      BY <1>1, <2>2, <2>4 DEF PatchInv, PatchKnown
    <3>2. ASSUME NEW q \in Patcher
          PROVE  /\ pt'[q].at # "done" => pt'[q].ans = "none"
                 /\ pt'[q].at \in {"open", "write", "rename", "verify"} => kind' = "text" /\ pt'[q].base \in seen'
                 /\ pt'[q].ans = "applied" => kind' = "text" /\ pt'[q].base \in seen' /\ Mine(q)' \in seen'
      <4>1. pt'[q].base = pt[q].base /\ pt'[q].ans = pt[q].ans /\ Mine(q)' = Mine(q) /\ seen \subseteq seen'
        BY <2>1, <2>2, <2>5 DEF Mine
      <4>2. pt'[q].at \in {"open", "write", "rename", "verify"} => pt[q].at \in {"open", "write", "rename", "verify"}
        BY <1>1, <2>1, <2>5
      <4>3. pt'[q].at # "done" => pt[q].at # "done"
        BY <1>1, <2>1, <2>5
      <4> QED BY <1>1, <4>1, <4>2, <4>3 DEF PatchInv, PatchKnown
    <3> QED BY <1>1, <3>1, <3>2 DEF PatchKnown
  <2>7. ASSUME ~shared PROVE PatchApart'
    <3>1. w = p /\ content[p] = Mine(p)
      BY <1>1, <2>7 DEF PatchInv, PatchApart
    <3>2. Mine(p).state = pt[p].base.state
      BY <1>1, EditedText DEF Mine
    <3>3. \A t \in seen' : t.state = "whole"
      BY <1>1, <2>2, <2>7, <3>1, <3>2 DEF PatchInv, PatchKnown, PatchApart
    <3>4. target' = p /\ pt'[p].at = "verify"
      BY <2>1, <2>2, <2>5, <3>1
    <3>5. ASSUME NEW q \in Patcher, pt'[q].at \in {"write", "rename"}
          PROVE  q # p /\ pt'[q] = pt[q] /\ pt[q].tmp \in TmpName /\ pt[q].tmp # pt[p].tmp
      <4>1. q # p /\ pt'[q] = pt[q] /\ pt[q].tmp \in TmpName
        BY <1>1, <2>1, <2>5, <3>5 DEF PatchRec
      <4>2. tmpFile[pt[q].tmp] = q
        BY <2>7, <3>5, <4>1 DEF PatchInv, PatchApart
      <4> QED BY <3>1, <4>1, <4>2
    <3>6. ASSUME NEW q \in Patcher
          PROVE  /\ pt'[q].at \in {"write", "rename"} => pt'[q].out = q /\ tmpFile'[pt'[q].tmp] = q
                 /\ pt'[q].at = "rename" => content'[q] = Mine(q)'
                 /\ pt'[q].at = "write" => content'[q] = Emptied
      BY <1>1, <2>2, <2>7, <3>5 DEF PatchInv, PatchApart, Mine
    <3>7. ASSUME NEW m \in TmpName, tmpFile'[m] # NoTmp
          PROVE  pt'[tmpFile'[m]].at \in {"write", "rename"} /\ pt'[tmpFile'[m]].tmp = m
      <4>1. m # pt[p].tmp /\ tmpFile'[m] = tmpFile[m] /\ tmpFile[m] \in Patcher
        BY <1>1, <2>2, <3>7
      <4>2. pt[tmpFile[m]].tmp = m /\ pt[tmpFile[m]].at \in {"write", "rename"}
        BY <2>7, <3>7, <4>1 DEF PatchInv, PatchApart
      <4>3. tmpFile[m] # p
        BY <4>1, <4>2
      <4> QED BY <2>5, <4>1, <4>2, <4>3
    <3> QED BY <3>3, <3>4, <3>6, <3>7 DEF PatchApart
  <2>8. tmpFile' \in [TmpName -> Patcher \cup {NoTmp}]
    BY <1>1, <2>2
  <2> QED BY <1>1, <2>2, <2>3, <2>5, <2>6, <2>7, <2>8 DEF PatchInv
<1> QED BY <1>2, <1>3

\* A patch is verified.
LEMMA PatchVerifies ==
    ASSUME PatchInv, NEW p \in Patcher, Verify(p) PROVE PatchInv'
<1>1. /\ content' = content /\ target' = target /\ kind' = kind /\ tmpFile' = tmpFile
      /\ shared' = shared /\ seen' = seen /\ text' = text
      /\ pt[p].at = "verify" /\ pt \in [Patcher -> PatchRec] /\ pt[p] \in PatchRec
  <2>1. pt[p].at = "verify" /\ UNCHANGED <<content, target, kind, tmpFile, shared, seen>>
    BY DEF Verify
  <2>2. pt \in [Patcher -> PatchRec]
    BY DEF PatchInv
  <2> QED BY <2>1, <2>2 DEF text
<1> DEFINE a == IF text = Mine(p) THEN "applied" ELSE "apply_failed"
           r == [pt[p] EXCEPT !.at = "done", !.ans = a]
<1>2. r \in PatchRec /\ r.at = "done" /\ r.ans = a /\ r.base = pt[p].base
  BY <1>1 DEF PatchRec
<1>3. pt' = [pt EXCEPT ![p] = r]
  BY DEF Verify, PatchEnds
<1> HIDE DEF r
<1>4. pt' \in [Patcher -> PatchRec] /\ pt'[p] = r /\ \A q \in Patcher : q # p => pt'[q] = pt[q]
  BY <1>1, <1>2, <1>3
<1>5. Mine(p)' = Mine(p)
  BY <1>2, <1>4 DEF Mine
<1>6. PatchKnown'
  BY <1>1, <1>2, <1>4, <1>5 DEF PatchInv, PatchKnown, Mine
<1>7. ~shared => PatchApart'
  BY <1>1, <1>2, <1>4 DEF PatchInv, PatchApart, Mine
<1> QED BY <1>1, <1>4, <1>6, <1>7 DEF PatchInv

\* The user edits the file in place.
LEMMA PatchUser ==
    ASSUME PatchInv, UserEdits PROVE PatchInv'
<1>1. /\ kind = "text" /\ target' = target /\ kind' = kind /\ tmpFile' = tmpFile /\ shared' = shared /\ pt' = pt
      /\ content' = [content EXCEPT ![target] = Edited(text, user)] /\ seen' = seen \cup {text'}
      /\ content \in [Patcher \cup {First} -> FileText] /\ target \in Patcher \cup {First}
  <2>1. kind = "text" /\ UNCHANGED <<target, kind, tmpFile, shared, pt>>
    BY DEF UserEdits
  <2>2. content' = [content EXCEPT ![target] = Edited(text, user)] /\ seen' = seen \cup {content'[target]}
    BY DEF UserEdits, text
  <2>3. content \in [Patcher \cup {First} -> FileText] /\ target \in Patcher \cup {First}
    BY DEF PatchInv
  <2> QED BY <2>1, <2>2, <2>3 DEF text
<1>t. text \in FileText
  BY <1>1 DEF text
<1>2. text \in FileText /\ Edited(text, user) \in FileText /\ Edited(text, user).state = text.state
  <2> DEFINE e == text
  <2>1. e \in FileText /\ user \in Patcher \cup {user}
    BY <1>t
  <2> HIDE DEF e
  <2>2. Edited(e, user) \in FileText /\ Edited(e, user).state = e.state
    BY <2>1, EditedText
  <2> QED BY <1>t, <2>2 DEF e
<1>3. content' \in [Patcher \cup {First} -> FileText] /\ text' = Edited(text, user)
  BY <1>1, <1>2 DEF text
<1>4. PatchKnown'
  BY <1>1 DEF PatchInv, PatchKnown, Mine
<1>5. ASSUME ~shared PROVE PatchApart'
  <2>1. \A q \in Patcher : pt[q].at \in {"write", "rename"} => content'[q] = content[q]
    BY <1>1, <1>5, PatchersAssumption DEF PatchInv, PatchApart, First
  <2>2. \A t \in seen' : t.state = "whole"
    BY <1>1, <1>2, <1>3, <1>5 DEF PatchInv, PatchKnown, PatchApart
  <2> QED BY <1>1, <1>5, <2>1, <2>2 DEF PatchInv, PatchApart, Mine
<1> QED BY <1>1, <1>3, <1>4, <1>5 DEF PatchInv

\* Every step of a patch, of a reader and of the user keeps it.
LEMMA PatchInvStep == PatchInv /\ [PatchNext]_patchVars => PatchInv'
<1> SUFFICES ASSUME PatchInv, [PatchNext]_patchVars PROVE PatchInv'
  OBVIOUS
<1>1. CASE UNCHANGED <<content, target, kind, tmpFile, pt, shared, seen>>
  <2>1. PatchKnown' /\ (~shared => PatchApart')
    BY <1>1 DEF PatchInv, PatchKnown, PatchApart, Mine, text
  <2> QED BY <1>1, <2>1 DEF PatchInv
<1>2. CASE (\E r \in Reader : ReadFile(r)) \/ UNCHANGED patchVars
  BY <1>1, <1>2 DEF ReadFile, patchVars
<1> QED BY <1>2, PatchReads, PatchOpens, PatchWrites, PatchRenames, PatchVerifies, PatchUser DEF PatchNext

\* A patch that was applied was in the file.
LEMMA PatchGood == PatchInv => PatchHonest
  BY DEF PatchInv, PatchKnown, PatchApart, PatchHonest

-----------------------------------------------------------------------------
(* All of them.  They share no variable: one moves and the others stay.    *)

ToolsInv == ToolInv /\ SandboxInv /\ FetchInv /\ PatchInv

\* "FAILS CLOSED ... never silently falls back" (isolated-executor.js), "Per-
\* redirect-hop re-validation" (environment.js), "Atomic apply: tmp file + rename,
\* then hash-verify" (tool-executor.js): for any number of commands, crashes of
\* the worker, redirects, patches, readers and temporary names.
THEOREM ToolsHonestAlways == ToolsSpec => []ToolsHonest
<1>1. ToolsInit => ToolsInv
  BY ToolInvInit, SandboxInvInit, FetchInvInit, PatchInvInit DEF ToolsInit, ToolsInv
<1>2. ToolsInv /\ [ToolsNext]_<<toolVars, sandboxVars, fetchVars, patchVars, part>> => ToolsInv'
  <2>1. ToolsInv /\ [ToolsNext]_<<toolVars, sandboxVars, fetchVars, patchVars, part>> =>
           /\ [ToolNext]_toolVars /\ [SandboxNext]_sandboxVars
           /\ [FetchNext]_fetchVars /\ [PatchNext]_patchVars
    BY DEF ToolsNext
  <2> QED BY <2>1, ToolInvStep, SandboxInvStep, FetchInvStep, PatchInvStep DEF ToolsInv
<1>3. ToolsInv => ToolsHonest
  BY ToolTypes, SandboxGood, FetchGood, PatchGood DEF ToolsInv, ToolsHonest, ToolsTypeOK
<1> QED BY <1>1, <1>2, <1>3, PTL DEF ToolsSpec

=============================================================================
