--------------------------- MODULE PlatformProofs ---------------------------
(***************************************************************************)
(* Proofs about the rest of the platform around a run (RunRegistry, Memory,*)
(* Plans, Verification, Tenancy, GitLayer, Checkpoints, Caching) and about *)
(* the router and what a run makes of it (RouterRules, Routing), for every *)
(* set of runs, paths, principals, keys, texts, models, every list, policy *)
(* and bound.  Each part has an inductive invariant of its own.            *)
(***************************************************************************)
EXTENDS MCPlatform, MCModels, FiniteSetTheorems, SequenceTheorems, WellFoundedInduction, TLAPS

-----------------------------------------------------------------------------
(* Numbers. *)

\* A set of naturals has a least member.
LEMMA LeastNat ==
    ASSUME NEW T, T \subseteq Nat, T # {}
    PROVE  \E n \in T : \A m \in T : n <= m
<1>1. PICK n \in T : \A m \in T : ~(<<m, n>> \in OpToRel(<, Nat))
  BY NatLessThanWellFounded, WFMin
<1>2. ASSUME NEW m \in T PROVE n <= m
  <2>1. m \in Nat /\ n \in Nat /\ ~(<<m, n>> \in OpToRel(<, Nat))
    BY <1>1
  <2>2. ~(m < n)
    BY <2>1, Zenon DEF OpToRel
  <2>3. m \in Nat /\ n \in Nat
    OBVIOUS
  <2> QED BY <2>2, <2>3
<1> QED BY <1>2

-----------------------------------------------------------------------------
(* Filtering a sequence. *)

\* f[i] is what the filter has kept of the first i elements of s, when K are the
\* places of the elements that stay.
Filters(f, s, K, n) ==
    /\ f[0] = <<>>
    /\ \A i \in 1..n : f[i] = IF i \in K THEN Append(f[i - 1], s[i]) ELSE f[i - 1]

\* The equation of such a function.
FilterIs(f, s, K, n) ==
    f = [i \in 0..n |-> IF i = 0 THEN <<>> ELSE IF i \in K THEN Append(f[i - 1], s[i]) ELSE f[i - 1]]

\* There is such a function.
LEMMA FilterExists ==
  ASSUME NEW s, NEW K, NEW n \in Nat
  PROVE  \E f : FilterIs(f, s, K, n)
<1> DEFINE Good(f, m) == DOMAIN f = 0..m /\ f = [i \in 0..m |-> f[i]] /\ Filters(f, s, K, m)
           T == {m \in Nat : ~\E f : Good(f, m)}
<1>1. T = {}
  <2> SUFFICES ASSUME T # {} PROVE FALSE
    OBVIOUS
  <2>1. PICK m \in T : \A k \in T : m <= k
    BY LeastNat
  <2>2. m \in Nat /\ ~\E f : Good(f, m)
    OBVIOUS
  <2>3. m # 0
    <3>1. Good([i \in 0..0 |-> <<>>], 0)
      BY DEF Filters
    <3> QED BY <2>2, <3>1
  <2>4. m - 1 \in Nat /\ m - 1 \notin T
    BY <2>1, <2>2, <2>3
  <2>5. PICK f : Good(f, m - 1)
    BY <2>4
  <2> DEFINE g == [i \in 0..m |-> IF i = m THEN IF m \in K THEN Append(f[m - 1], s[m]) ELSE f[m - 1]
                                  ELSE f[i]]
  <2>6. g[m] = (IF m \in K THEN Append(f[m - 1], s[m]) ELSE f[m - 1]) /\ \A i \in 0..(m - 1) : g[i] = f[i]
    BY <2>2, <2>3
  <2>7. DOMAIN g = 0..m /\ g = [i \in 0..m |-> g[i]]
    OBVIOUS
  <2> HIDE DEF g
  <2>8. g[0] = <<>> /\ g[m - 1] = f[m - 1]
    BY <2>2, <2>3, <2>5, <2>6 DEF Filters
  <2>9. ASSUME NEW i \in 1..m PROVE g[i] = IF i \in K THEN Append(g[i - 1], s[i]) ELSE g[i - 1]
    <3>1. CASE i = m
      BY <2>6, <2>8, <3>1
    <3>2. CASE i # m
      <4>1. i \in 1..(m - 1) /\ i \in 0..(m - 1) /\ i - 1 \in 0..(m - 1)
        BY <2>2, <3>2
      <4>2. f[i] = IF i \in K THEN Append(f[i - 1], s[i]) ELSE f[i - 1]
        BY <2>5, <4>1 DEF Filters
      <4> QED BY <2>6, <4>1, <4>2
    <3> QED BY <3>1, <3>2
  <2>10. Good(g, m)
    BY <2>7, <2>8, <2>9 DEF Filters
  <2> QED BY <2>2, <2>10
<1>2. PICK f : Good(f, n)
  BY <1>1
<1>3. ASSUME NEW i \in 0..n
      PROVE  f[i] = IF i = 0 THEN <<>> ELSE IF i \in K THEN Append(f[i - 1], s[i]) ELSE f[i - 1]
  <2>1. CASE i = 0
    BY <1>2, <2>1 DEF Filters
  <2>2. CASE i # 0
    <3>1. i \in 1..n
      BY <2>2
    <3> QED BY <1>2, <2>2, <3>1 DEF Filters
  <2> QED BY <2>1, <2>2
<1> QED BY <1>2, <1>3 DEF FilterIs

\* Each element of t stands in s at a place of its own, and K are the places.
FilteredFrom(t, s, K) ==
    \E e \in [1..Len(t) -> K] :
       /\ \A a, b \in 1..Len(t) : e[a] = e[b] => a = b
       /\ \A j \in K : \E a \in 1..Len(t) : e[a] = j
       /\ \A a \in 1..Len(t) : t[a] = s[e[a]]

\* What the filter returns: the elements that stay, each from a place of its own.
LEMMA FilterKeeps ==
  ASSUME NEW n \in Nat, NEW S, NEW s \in Seq(S), Len(s) = n, NEW K, K \subseteq 1..n, NEW f, Filters(f, s, K, n)
  PROVE  f[n] \in Seq(S) /\ Len(f[n]) <= n /\ FilteredFrom(f[n], s, K)
<1>0. /\ \A i \in 1..n : s[i] \in S
      /\ \A i \in K : i \in Nat /\ i >= 1 /\ i <= n
  OBVIOUS
<1> DEFINE Up(i) == {j \in K : j <= i}
           Maps(e, t, i) == /\ e \in [1..Len(t) -> Up(i)]
                            /\ \A a, b \in 1..Len(t) : e[a] = e[b] => a = b
                            /\ \A j \in Up(i) : \E a \in 1..Len(t) : e[a] = j
                            /\ \A a \in 1..Len(t) : t[a] = s[e[a]]
           P(i) == f[i] \in Seq(S) /\ Len(f[i]) <= i /\ \E e : Maps(e, f[i], i)
           T == {i \in 0..n : ~P(i)}
<1>1. T = {}
  <2> SUFFICES ASSUME T # {} PROVE FALSE
    OBVIOUS
  <2>a. T \subseteq Nat
    OBVIOUS
  <2>1. PICK m \in T : \A k \in T : m <= k
    <3> HIDE DEF T
    <3> QED BY <2>a, LeastNat
  <2>2. m \in 0..n /\ ~P(m)
    OBVIOUS
  <2>3. P(0)
    <3>1. f[0] = <<>> /\ Len(f[0]) = 0 /\ f[0] \in Seq(S)
      BY DEF Filters
    <3>2. Up(0) = {}
      <4>1. \A j \in K : ~(j <= 0)
        BY <1>0
      <4> QED BY <4>1
    <3>3. Maps([x \in 1..0 |-> 0], f[0], 0)
      <4>1. 1..0 = {} /\ [x \in 1..0 |-> 0] \in [1..0 -> {}]
        OBVIOUS
      <4> QED BY <3>1, <3>2, <4>1
    <3>4. Len(f[0]) <= 0
      BY <3>1
    <3> HIDE DEF Maps
    <3> QED BY <3>1, <3>3, <3>4
  <2>4. m - 1 \in 0..n /\ m \in 1..n /\ m \in Nat
    <3>1. m # 0
      BY <2>2, <2>3
    <3> QED BY <2>2, <3>1
  <2>5. P(m - 1)
    <3>1. m - 1 \notin T
      <4> HIDE DEF T
      <4> QED BY <2>1, <2>4
    <3> QED BY <2>4, <3>1
  <2>6. f[m] = IF m \in K THEN Append(f[m - 1], s[m]) ELSE f[m - 1]
    BY <2>4 DEF Filters
  <2>7. PICK e : Maps(e, f[m - 1], m - 1)
    BY <2>5
  <2> DEFINE t == f[m - 1]
  <2>8. t \in Seq(S) /\ Len(t) <= m - 1 /\ Len(t) \in Nat /\ m \in Nat
    BY <2>4, <2>5
  <2>9. CASE m \notin K
    <3>1. f[m] = t
      BY <2>6, <2>9
    <3>2. Up(m) = Up(m - 1)
      <4>1. \A j \in K : j <= m <=> j <= m - 1
        BY <1>0, <2>4, <2>9
      <4> QED BY <4>1
    <3>3. Maps(e, f[m], m)
      BY <2>7, <3>1, <3>2
    <3>4. Len(f[m]) <= m
      BY <2>8, <3>1
    <3> QED BY <2>2, <2>8, <3>1, <3>3, <3>4
  <2>10. CASE m \in K
    <3> DEFINE u == Append(t, s[m])
               g == [a \in 1..(Len(t) + 1) |-> IF a = Len(t) + 1 THEN m ELSE e[a]]
    <3>1. f[m] = u
      BY <2>6, <2>10
    <3>2. /\ u \in Seq(S) /\ Len(u) = Len(t) + 1 /\ u[Len(t) + 1] = s[m]
          /\ \A a \in 1..Len(t) : u[a] = t[a]
      BY <1>0, <2>4, <2>8
    <3>3. Len(u) <= m
      BY <2>8, <3>2
    <3>4. Up(m) = Up(m - 1) \cup {m} /\ m \notin Up(m - 1)
      <4>1. \A j \in K : j <= m <=> j <= m - 1 \/ j = m
        BY <1>0, <2>4
      <4>2. m <= m /\ ~(m <= m - 1)
        BY <2>4
      <4> QED BY <2>10, <4>1, <4>2
    <3>5. /\ g[Len(t) + 1] = m
          /\ \A a \in 1..Len(t) : g[a] = e[a] /\ e[a] \in Up(m - 1)
          /\ \A a \in 1..(Len(t) + 1) : a \in 1..Len(t) \/ a = Len(t) + 1
          /\ \A a \in 1..Len(t) : a \in 1..(Len(t) + 1)
          /\ Len(t) + 1 \in 1..(Len(t) + 1)
      <4> DEFINE l == Len(t)
      <4>1. l \in Nat /\ e \in [1..l -> Up(m - 1)]
        BY <2>7, <2>8
      <4> HIDE DEF l, t, Up
      <4>2. /\ \A a \in 1..(l + 1) : a \in 1..l \/ a = l + 1
            /\ \A a \in 1..l : a \in 1..(l + 1) /\ a # l + 1
            /\ l + 1 \in 1..(l + 1)
        BY <4>1
      <4> QED BY <4>1, <4>2 DEF l
    <3>6. g \in [1..(Len(t) + 1) -> Up(m)]
      BY <3>4, <3>5
    <3> HIDE DEF g, u, t, Up
    <3>7. \A a, b \in 1..(Len(t) + 1) : g[a] = g[b] => a = b
      <4> SUFFICES ASSUME NEW a \in 1..(Len(t) + 1), NEW b \in 1..(Len(t) + 1), g[a] = g[b] PROVE a = b
        OBVIOUS
      <4>1. CASE a \in 1..Len(t) /\ b \in 1..Len(t)
        BY <2>7, <3>5, <4>1 DEF t
      <4>2. CASE a = Len(t) + 1 \/ b = Len(t) + 1
        BY <3>4, <3>5, <4>2
      <4> QED BY <3>5, <4>1, <4>2
    <3>8. \A j \in Up(m) : \E a \in 1..(Len(t) + 1) : g[a] = j
      <4> SUFFICES ASSUME NEW j \in Up(m) PROVE \E a \in 1..(Len(t) + 1) : g[a] = j
        OBVIOUS
      <4>1. CASE j = m
        BY <3>5, <4>1
      <4>2. CASE j \in Up(m - 1)
        <5>1. PICK a \in 1..Len(t) : e[a] = j
          BY <2>7, <4>2 DEF t
        <5> QED BY <3>5, <5>1
      <4> QED BY <3>4, <4>1, <4>2
    <3>9. \A a \in 1..(Len(t) + 1) : u[a] = s[g[a]]
      <4> SUFFICES ASSUME NEW a \in 1..(Len(t) + 1) PROVE u[a] = s[g[a]]
        OBVIOUS
      <4>1. CASE a = Len(t) + 1
        BY <3>2, <3>5, <4>1
      <4>2. CASE a \in 1..Len(t)
        <5>1. t[a] = s[e[a]]
          BY <2>7, <4>2 DEF t
        <5> QED BY <3>2, <3>5, <4>2, <5>1
      <4> QED BY <3>5, <4>1, <4>2
    <3>10. Maps(g, f[m], m)
      BY <3>1, <3>2, <3>6, <3>7, <3>8, <3>9
    <3> QED BY <2>2, <3>1, <3>2, <3>3, <3>10
  <2> QED BY <2>9, <2>10
<1>2. P(n)
  <2>1. n \in 0..n
    OBVIOUS
  <2> QED BY <1>1, <2>1
<1>3. Up(n) = K
  <2>1. \A j \in K : j <= n
    BY <1>0
  <2> QED BY <2>1
<1>4. PICK e : Maps(e, f[n], n)
  BY <1>2
<1>5. /\ e \in [1..Len(f[n]) -> K]
      /\ \A a, b \in 1..Len(f[n]) : e[a] = e[b] => a = b
      /\ \A j \in K : \E a \in 1..Len(f[n]) : e[a] = j
      /\ \A a \in 1..Len(f[n]) : f[n][a] = s[e[a]]
  BY <1>3, <1>4
<1> QED BY <1>2, <1>5 DEF FilteredFrom

-----------------------------------------------------------------------------
(* The registry of runs. *)

\* What deleting a run from a list keeps.
LEMMA WithoutFilters ==
  ASSUME NEW s \in Seq(GRuns), NEW r
  PROVE  /\ Without(s, r) \in Seq(GRuns) /\ Len(Without(s, r)) <= Len(s)
         /\ FilteredFrom(Without(s, r), s, {i \in 1..Len(s) : s[i] # r})
<1> DEFINE K == {i \in 1..Len(s) : s[i] # r}
           Eq(f) == f = [i \in 0..Len(s) |-> IF i = 0 THEN <<>>
                           ELSE IF s[i] # r THEN Append(f[i - 1], s[i]) ELSE f[i - 1]]
           k == CHOOSE f : Eq(f)
<1>0. Len(s) \in Nat
  OBVIOUS
<1>1. PICK f : FilterIs(f, s, K, Len(s))
  <2> HIDE DEF K, Eq, k
  <2> QED BY <1>0, FilterExists
<1>2. \A i \in 0..Len(s) : i # 0 => (i \in K <=> s[i] # r)
  BY <1>0
<1>3. Eq(f)
  BY <1>1, <1>2 DEF FilterIs
<1>4. Eq(k)
  BY <1>3
<1>5. Without(s, r) = k[Len(s)]
  BY DEF Without
<1> HIDE DEF k
<1>6. \A i \in 1..Len(s) : i \in 0..Len(s) /\ i # 0
  BY <1>0
<1>7. Filters(k, s, K, Len(s))
  <2>1. k[0] = <<>>
    <3>1. 0 \in 0..Len(s)
      BY <1>0
    <3> QED BY <1>4, <3>1
  <2>2. \A i \in 1..Len(s) : k[i] = IF i \in K THEN Append(k[i - 1], s[i]) ELSE k[i - 1]
    <3>1. \A i \in 1..Len(s) : k[i] = IF s[i] # r THEN Append(k[i - 1], s[i]) ELSE k[i - 1]
      BY <1>4, <1>6
    <3> QED BY <1>2, <1>6, <3>1
  <2> QED BY <2>1, <2>2 DEF Filters
<1>8. K \subseteq 1..Len(s)
  OBVIOUS
<1> HIDE DEF K
<1> QED BY <1>0, <1>5, <1>7, <1>8, FilterKeeps DEF K

Statuses == {"none", "created", "running"} \cup Ended
Wait == [pc: {"idle", "poll", "await", "done"}, run: GRuns \cup {0}, loop: Nat,
         ans: Statuses \cup {"timeout"}, now: Nat]

RegistryTypeOK ==
    /\ gActive \subseteq GRuns /\ gTerm \subseteq GRuns /\ gOrder \in Seq(GRuns)
    /\ gStatus \in [GRuns -> Statuses]
    /\ gLoops \in [GRuns -> SUBSET Nat] /\ gLast \in [GRuns -> Nat]
    /\ gCreating \subseteq GRuns /\ gRetry \subseteq GRuns
    /\ gWait \in Wait

\* What the two maps and the queue say.
MapsInv ==
    /\ gActive \cap gTerm = {}
    /\ ToSet(gOrder) = gTerm /\ IsInjective(gOrder) /\ Len(gOrder) <= GKeep

\* What is known of each run: one that does not exist yet is nowhere, one in
\* history has ended, and the latest loop of a running one is not over.
StatusInv ==
    \A r \in GRuns :
       /\ r \in gCreating => gStatus[r] = "none"
       /\ gStatus[r] = "none" => r \notin gActive \cup gTerm \cup gRetry
       /\ gStatus[r] \in {"none", "created"} => gLast[r] = 0
       /\ r \in gTerm \ gLate => gStatus[r] \in Ended
       /\ r \in (gActive \cup gTerm) \ gLate =>
             /\ gLast[r] > 0 => r \in gKept
             /\ gStatus[r] = "running" => gLast[r] \in gLoops[r]

\* A waiter waits for a loop that was started, or for the first one.
WaitInv ==
    /\ gWait.pc = "poll" => gWait.run \in GRuns /\ gWait.loop = 0
    /\ gWait.pc = "await" => /\ gWait.run \in GRuns /\ gWait.loop \in Nat
                             /\ gWait.loop > 0 /\ gWait.loop <= gLast[gWait.run]
    /\ WaiterTold

RegistryInv == RegistryTypeOK /\ MapsInv /\ StatusInv /\ WaitInv

\* No run exists at first.
LEMMA RegistryInvInit == RegistryInit => RegistryInv
<1> SUFFICES ASSUME RegistryInit PROVE RegistryInv
  OBVIOUS
<1>1. RegistryTypeOK
  BY DEF RegistryInit, RegistryTypeOK, NoWait, Statuses, Wait
<1>2. MapsInv
  BY RegistryAssumption DEF RegistryInit, MapsInv, ToSet, IsInjective
<1>3. StatusInv
  BY DEF RegistryInit, StatusInv
<1>4. WaitInv
  BY DEF RegistryInit, WaitInv, WaiterTold, NoWait
<1> QED BY <1>1, <1>2, <1>3, <1>4 DEF RegistryInv

\* What holds of the registry is what is promised of it.
LEMMA RegistryInvSound == RegistryInv => RegistrySound /\ WaiterTold
<1> SUFFICES ASSUME RegistryInv PROVE RegistrySound /\ WaiterTold
  OBVIOUS
<1>1. /\ \A r \in gTerm \ gLate : gStatus[r] \in Ended
      /\ \A r \in (gActive \cup gTerm) \ gLate : gLast[r] > 0 => r \in gKept
  BY DEF RegistryInv, StatusInv, RegistryTypeOK
<1>2. RegistrySound
  BY <1>1 DEF RegistryInv, MapsInv, RegistrySound
<1> QED BY <1>2 DEF RegistryInv, WaitInv

\* A run leaves the queue of history.
LEMMA WithoutKeeps ==
  ASSUME NEW s \in Seq(GRuns), NEW r, IsInjective(s)
  PROVE  /\ Without(s, r) \in Seq(GRuns) /\ IsInjective(Without(s, r))
         /\ ToSet(Without(s, r)) = ToSet(s) \ {r} /\ Len(Without(s, r)) <= Len(s)
<1> DEFINE K == {i \in 1..Len(s) : s[i] # r}
           t == Without(s, r)
<1>0. Len(s) \in Nat /\ DOMAIN s = 1..Len(s) /\ K \subseteq 1..Len(s)
  OBVIOUS
<1>1. t \in Seq(GRuns) /\ Len(t) <= Len(s) /\ FilteredFrom(t, s, K)
  BY WithoutFilters
<1>2. DOMAIN t = 1..Len(t)
  BY <1>1
<1> HIDE DEF t
<1>3. PICK e \in [1..Len(t) -> K] :
              /\ \A a, b \in 1..Len(t) : e[a] = e[b] => a = b
              /\ \A j \in K : \E a \in 1..Len(t) : e[a] = j
              /\ \A a \in 1..Len(t) : t[a] = s[e[a]]
  BY <1>1 DEF FilteredFrom
<1>4. DOMAIN t = 1..Len(t)
  BY <1>2
<1>5. \A a \in 1..Len(t) : e[a] \in 1..Len(s) /\ s[e[a]] # r
  OBVIOUS
<1>6. IsInjective(t)
  BY <1>0, <1>3, <1>4, <1>5 DEF IsInjective
<1>7. ToSet(t) \subseteq ToSet(s) \ {r}
  BY <1>0, <1>3, <1>4, <1>5 DEF ToSet
<1>8. ToSet(s) \ {r} \subseteq ToSet(t)
  <2> SUFFICES ASSUME NEW x \in ToSet(s), x # r PROVE x \in ToSet(t)
    OBVIOUS
  <2>1. PICK j \in 1..Len(s) : s[j] = x
    BY <1>0 DEF ToSet
  <2>2. j \in K
    BY <2>1
  <2>3. PICK a \in 1..Len(t) : e[a] = j
    BY <1>3, <2>2
  <2>4. t[a] = x
    BY <1>3, <2>1, <2>3
  <2> QED BY <1>4, <2>4 DEF ToSet
<1> QED BY <1>1, <1>6, <1>7, <1>8 DEF t

\* A run that comes back from history leaves its queue.
LEMMA ResurrectKeeps ==
  ASSUME RegistryTypeOK, MapsInv, NEW r \in GRuns, r \in gTerm, Resurrect(r)
  PROVE  /\ gActive' = gActive \cup {r} /\ gTerm' = gTerm \ {r}
         /\ gOrder' \in Seq(GRuns) /\ MapsInv'
<1>1. gOrder \in Seq(GRuns) /\ IsInjective(gOrder) /\ ToSet(gOrder) = gTerm
      /\ Len(gOrder) <= GKeep /\ gActive \cap gTerm = {}
  BY DEF RegistryTypeOK, MapsInv
<1>2. gActive' = gActive \cup {r} /\ gTerm' = gTerm \ {r} /\ gOrder' = Without(gOrder, r)
  BY DEF Resurrect
<1>3. /\ gOrder' \in Seq(GRuns) /\ IsInjective(gOrder')
      /\ ToSet(gOrder') = gTerm \ {r} /\ Len(gOrder') <= Len(gOrder)
  BY <1>1, <1>2, WithoutKeeps
<1>4. Len(gOrder') <= GKeep
  <2>1. Len(gOrder) \in Nat /\ Len(gOrder') \in Nat /\ GKeep \in Nat
    BY <1>1, <1>3, RegistryAssumption
  <2> QED BY <1>1, <1>3, <2>1
<1> QED BY <1>1, <1>2, <1>3, <1>4 DEF MapsInv

\* Retirement puts a run into history, and the oldest leaves when there are too many.
LEMMA RetireKeeps ==
  ASSUME RegistryTypeOK, MapsInv, NEW r \in GRuns, r \in gActive, Retire(r)
  PROVE  \E gone \in SUBSET gTerm :
           /\ gActive' = gActive \ {r} /\ gTerm' = (gTerm \cup {r}) \ gone
           /\ gOrder' \in Seq(GRuns) /\ MapsInv'
           /\ gKept' = gKept \ gone /\ r \notin gone
<1> DEFINE order == Append(gOrder, r)
           n == Len(gOrder)
<1>0. /\ gOrder \in Seq(GRuns) /\ IsInjective(gOrder) /\ ToSet(gOrder) = gTerm
      /\ n \in Nat /\ n <= GKeep /\ gActive \cap gTerm = {} /\ GKeep \in Nat /\ GKeep > 0
      /\ DOMAIN gOrder = 1..n /\ r \notin gTerm
  BY RegistryAssumption DEF RegistryTypeOK, MapsInv
<1>1. /\ order \in Seq(GRuns) /\ Len(order) = n + 1 /\ DOMAIN order = 1..(n + 1) /\ order # <<>>
      /\ order[n + 1] = r /\ \A i \in 1..n : order[i] = gOrder[i]
  BY <1>0, AppendProperties
<1>2. \A i \in 1..n : gOrder[i] \in gTerm
  BY <1>0 DEF ToSet
<1> HIDE DEF order, n
<1>a. \A i \in 1..(n + 1) : i \in 1..n \/ i = n + 1
  BY <1>0
<1>3. IsInjective(order)
  BY <1>0, <1>1, <1>2, <1>a DEF IsInjective
<1>4. ToSet(order) = gTerm \cup {r}
  <2>1. \A x \in gTerm : \E i \in 1..n : gOrder[i] = x
    BY <1>0 DEF ToSet
  <2>2. \A i \in 1..n : i \in 1..(n + 1)
    BY <1>0
  <2>3. n + 1 \in 1..(n + 1)
    BY <1>0
  <2> QED BY <1>1, <1>2, <1>a, <2>1, <2>2, <2>3 DEF ToSet
<1>5. CASE n + 1 <= GKeep
  <2>1. gActive' = gActive \ {r} /\ gOrder' = order /\ gTerm' = gTerm \cup {r} /\ gKept' = gKept
    <3>1. ~(Len(order) - GKeep > 0)
      BY <1>0, <1>1, <1>5
    <3> QED BY <3>1 DEF Retire, order
  <2>2. MapsInv'
    BY <1>0, <1>1, <1>3, <1>4, <1>5, <2>1 DEF MapsInv
  <2>3. /\ {} \in SUBSET gTerm /\ gTerm' = (gTerm \cup {r}) \ {} /\ gKept' = gKept \ {}
        /\ gOrder' \in Seq(GRuns)
    BY <1>1, <2>1
  <2> QED BY <2>1, <2>2, <2>3
<1>6. CASE ~(n + 1 <= GKeep)
  <2>1. Len(order) - GKeep = 1 /\ n = GKeep
    BY <1>0, <1>1, <1>6
  <2>2. order[1] \in gTerm /\ order[1] # r /\ 1 \in 1..(n + 1)
    BY <1>0, <1>1, <1>2, <2>1
  <2>3. {order[i] : i \in 1..1} \ {r} = {order[1]}
    BY <2>2
  <2>4. /\ gActive' = gActive \ {r} /\ gOrder' = SubSeq(order, 2, n + 1)
        /\ gTerm' = (gTerm \cup {r}) \ {order[1]} /\ gKept' = gKept \ {order[1]}
    <3> DEFINE over == Len(order) - GKeep
    <3>1. over = 1 /\ over > 0 /\ over + 1 = 2
      BY <2>1
    <3>2. /\ gActive' = gActive \ {r} /\ gOrder' = SubSeq(order, over + 1, Len(order))
          /\ gTerm' = (gTerm \cup {r}) \ ({order[i] : i \in 1..over} \ {r})
          /\ gKept' = gKept \ ({order[i] : i \in 1..over} \ {r})
      BY <3>1 DEF Retire, order
    <3> HIDE DEF over
    <3> QED BY <1>1, <2>3, <3>1, <3>2
  <2>5. /\ gOrder' \in Seq(GRuns) /\ Len(gOrder') = n
        /\ \A i \in 1..n : gOrder'[i] = order[i + 1]
    <3>1. 2 \in 1..(n + 1) /\ n + 1 \in 1..(n + 1) /\ (n + 1) - 2 + 1 = n /\ 2 <= n + 1
          /\ 2 \in 1..(Len(order) + 1) /\ n + 1 \in 2 - 1 .. Len(order)
      BY <1>0, <1>1, <2>1
    <3>2. /\ gOrder' \in Seq(GRuns)
          /\ Len(gOrder') = (n + 1) - 2 + 1
          /\ \A i \in 1..((n + 1) - 2 + 1) : gOrder'[i] = order[2 + i - 1]
      BY <1>1, <2>4, <3>1, SubSeqProperties
    <3>3. \A i \in 1..n : 2 + i - 1 = i + 1
      BY <1>0
    <3> QED BY <3>1, <3>2, <3>3
  <2>6. DOMAIN gOrder' = 1..n /\ \A i \in 1..n : i + 1 \in 1..(n + 1) /\ i + 1 # 1
    BY <1>0, <2>5
  <2>7. IsInjective(gOrder')
    <3> SUFFICES ASSUME NEW a \in 1..n, NEW b \in 1..n, gOrder'[a] = gOrder'[b] PROVE a = b
      BY <2>6 DEF IsInjective
    <3>1. a + 1 = b + 1
      BY <1>1, <1>3, <2>5, <2>6 DEF IsInjective
    <3> QED BY <1>0, <3>1
  <2>8. ToSet(gOrder') = (gTerm \cup {r}) \ {order[1]}
    <3>1. ASSUME NEW x \in ToSet(gOrder') PROVE x \in (gTerm \cup {r}) \ {order[1]}
      <4>1. PICK i \in 1..n : x = gOrder'[i]
        BY <2>6 DEF ToSet
      <4>2. x = order[i + 1] /\ i + 1 \in 1..(n + 1) /\ i + 1 # 1
        BY <2>5, <2>6, <4>1
      <4>3. x \in ToSet(order) /\ x # order[1]
        BY <1>1, <1>3, <2>2, <4>2 DEF ToSet, IsInjective
      <4> QED BY <1>4, <4>3
    <3>2. ASSUME NEW x \in (gTerm \cup {r}) \ {order[1]} PROVE x \in ToSet(gOrder')
      <4>1. PICK i \in 1..(n + 1) : x = order[i]
        BY <1>1, <1>4 DEF ToSet
      <4>2. i # 1
        BY <4>1
      <4>3. i - 1 \in 1..n /\ (i - 1) + 1 = i
        BY <1>0, <4>2
      <4>4. gOrder'[i - 1] = x
        BY <2>5, <4>1, <4>3
      <4> QED BY <2>6, <4>3, <4>4 DEF ToSet
    <3> QED BY <3>1, <3>2
  <2>9. gActive' \cap gTerm' = {}
    BY <1>0, <2>4
  <2>10. MapsInv'
    BY <1>0, <2>4, <2>5, <2>7, <2>8, <2>9 DEF MapsInv
  <2> QED BY <1>0, <2>2, <2>4, <2>5, <2>10
<1> QED BY <1>5, <1>6

\* A launched loop is the run's latest.
LEMMA LaunchGives ==
  ASSUME RegistryTypeOK, NEW r \in GRuns, Launch(r)
  PROVE  /\ gLast' \in [GRuns -> Nat] /\ gLoops' \in [GRuns -> SUBSET Nat]
         /\ gStatus' \in [GRuns -> Statuses] /\ gKept' = gKept \cup {r}
         /\ gLast'[r] = gLast[r] + 1 /\ gLast'[r] \in gLoops'[r] /\ gStatus'[r] = "running"
         /\ \A q \in GRuns : q # r => gLast'[q] = gLast[q] /\ gLoops'[q] = gLoops[q] /\ gStatus'[q] = gStatus[q]
         /\ \A q \in GRuns : gLast[q] <= gLast'[q]
<1>1. gLast \in [GRuns -> Nat] /\ gLoops \in [GRuns -> SUBSET Nat] /\ gStatus \in [GRuns -> Statuses]
  BY DEF RegistryTypeOK
<1>2. /\ gLast' = [gLast EXCEPT ![r] = gLast[r] + 1]
      /\ gLoops' = [gLoops EXCEPT ![r] = gLoops[r] \cup {gLast[r] + 1}]
      /\ gStatus' = [gStatus EXCEPT ![r] = "running"]
      /\ gKept' = gKept \cup {r}
  BY DEF Launch
<1>3. gLast[r] + 1 \in Nat
  BY <1>1
<1>4. /\ gLast' \in [GRuns -> Nat] /\ gLast'[r] = gLast[r] + 1
      /\ \A q \in GRuns : q # r => gLast'[q] = gLast[q]
  BY <1>1, <1>2, <1>3
<1>5. /\ gLoops' \in [GRuns -> SUBSET Nat] /\ gLast[r] + 1 \in gLoops'[r]
      /\ \A q \in GRuns : q # r => gLoops'[q] = gLoops[q]
  <2>1. gLoops[r] \cup {gLast[r] + 1} \in SUBSET Nat
    BY <1>1, <1>3
  <2> QED BY <1>1, <1>2, <2>1
<1>6. /\ gStatus' \in [GRuns -> Statuses] /\ gStatus'[r] = "running"
      /\ \A q \in GRuns : q # r => gStatus'[q] = gStatus[q]
  BY <1>1, <1>2 DEF Statuses
<1>7. \A q \in GRuns : gLast[q] <= gLast'[q]
  <2> SUFFICES ASSUME NEW q \in GRuns PROVE gLast[q] <= gLast'[q]
    OBVIOUS
  <2>1. gLast[q] \in Nat /\ (gLast'[q] = gLast[q] + 1 \/ gLast'[q] = gLast[q])
    BY <1>1, <1>4
  <2> QED BY <2>1
<1> QED BY <1>2, <1>4, <1>5, <1>6, <1>7

\* However runs begin, end, come back and are waited for.
LEMMA RegistryInvStep == RegistryInv /\ [RegistryNext]_registryVars => RegistryInv'
<1> SUFFICES ASSUME RegistryInv, [RegistryNext]_registryVars PROVE RegistryInv'
  OBVIOUS
<1>0. RegistryTypeOK /\ MapsInv /\ StatusInv /\ WaitInv
  BY DEF RegistryInv
<1>f. /\ gActive \subseteq GRuns /\ gTerm \subseteq GRuns /\ gOrder \in Seq(GRuns)
      /\ gStatus \in [GRuns -> Statuses]
      /\ gLoops \in [GRuns -> SUBSET Nat] /\ gLast \in [GRuns -> Nat]
      /\ gCreating \subseteq GRuns /\ gRetry \subseteq GRuns
      /\ gActive \cap gTerm = {}
  BY <1>0 DEF RegistryTypeOK, MapsInv
<1>w. ASSUME UNCHANGED gWait, gLate \subseteq gLate',
             \A q \in GRuns : gLast[q] \in Nat /\ gLast'[q] \in Nat /\ gLast[q] <= gLast'[q]
      PROVE  WaitInv'
  <2>1. WaiterTold'
    BY <1>0, <1>w DEF WaitInv, WaiterTold, Ended
  <2>2. ASSUME gWait'.pc = "await"
        PROVE  /\ gWait'.run \in GRuns /\ gWait'.loop \in Nat
               /\ gWait'.loop > 0 /\ gWait'.loop <= gLast'[gWait'.run]
    <3>1. /\ gWait.run \in GRuns /\ gWait.loop \in Nat
          /\ gWait.loop > 0 /\ gWait.loop <= gLast[gWait.run]
      BY <1>0, <1>w, <2>2 DEF WaitInv
    <3>2. gLast[gWait.run] \in Nat /\ gLast'[gWait.run] \in Nat /\ gLast[gWait.run] <= gLast'[gWait.run]
      BY <1>w, <3>1
    <3>3. gWait.loop <= gLast'[gWait.run]
      BY <3>1, <3>2
    <3> QED BY <1>w, <3>1, <3>3
  <2> QED BY <1>0, <1>w, <2>1, <2>2 DEF WaitInv
<1>u. UNCHANGED gLast => \A q \in GRuns : gLast[q] \in Nat /\ gLast'[q] \in Nat /\ gLast[q] <= gLast'[q]
  <2>1. \A q \in GRuns : gLast[q] \in Nat
    BY <1>f
  <2>2. \A m \in Nat : m <= m
    OBVIOUS
  <2> QED BY <2>1, <2>2
<1>t. ASSUME UNCHANGED gWait, gActive' \subseteq GRuns, gTerm' \subseteq GRuns, gOrder' \in Seq(GRuns),
             gStatus' \in [GRuns -> Statuses], gLoops' \in [GRuns -> SUBSET Nat],
             gLast' \in [GRuns -> Nat], gCreating' \subseteq GRuns, gRetry' \subseteq GRuns
      PROVE  RegistryTypeOK'
  BY <1>0, <1>t DEF RegistryTypeOK
<1>m. UNCHANGED <<gActive, gTerm, gOrder>> => MapsInv'
  BY <1>0 DEF MapsInv
<1>1. ASSUME NEW r \in GRuns, CreateStarts(r) PROVE RegistryInv'
  <2>1. /\ gStatus[r] = "none" /\ gCreating' = gCreating \cup {r}
        /\ UNCHANGED <<gActive, gOrder, gTerm, gStatus, gLoops, gLast, gRetry, gLate, gKept, gWait>>
    BY <1>1 DEF CreateStarts
  <2>2. StatusInv'
    BY <1>0, <2>1 DEF StatusInv, Ended
  <2>3. gCreating' \subseteq GRuns
    BY <1>f, <2>1
  <2> QED BY <1>f, <1>m, <1>t, <1>u, <1>w, <2>1, <2>2, <2>3 DEF RegistryInv
<1>2. ASSUME NEW r \in GRuns, CreateEnds(r) PROVE RegistryInv'
  <2>1. /\ r \in gCreating /\ gCreating' = gCreating \ {r} /\ gActive' = gActive \cup {r}
        /\ gStatus' = [gStatus EXCEPT ![r] = "created"]
        /\ UNCHANGED <<gOrder, gTerm, gLoops, gLast, gRetry, gLate, gKept, gWait>>
    BY <1>2 DEF CreateEnds
  <2>2. gStatus[r] = "none" /\ r \notin gActive \cup gTerm \cup gRetry /\ gLast[r] = 0
    BY <1>0, <2>1 DEF StatusInv
  <2>3. /\ gStatus' \in [GRuns -> Statuses] /\ gStatus'[r] = "created"
        /\ \A q \in GRuns : q # r => gStatus'[q] = gStatus[q]
    BY <1>f, <2>1 DEF Statuses
  <2>4. StatusInv'
    <3>1. ASSUME NEW q \in GRuns, q # r
          PROVE /\ q \in gCreating' <=> q \in gCreating
                /\ q \in gActive' <=> q \in gActive
                /\ gStatus'[q] = gStatus[q]
      BY <2>1, <2>3, <3>1
    <3>2. ~(gLast[r] > 0) /\ r \notin gCreating'
      BY <2>1, <2>2
    <3> QED BY <1>0, <2>1, <2>2, <2>3, <3>1, <3>2 DEF StatusInv, Ended
  <2>5. MapsInv'
    BY <1>0, <2>1, <2>2 DEF MapsInv
  <2>6. gActive' \subseteq GRuns /\ gCreating' \subseteq GRuns
    BY <1>f, <2>1
  <2> QED BY <1>f, <1>t, <1>u, <1>w, <2>1, <2>3, <2>4, <2>5, <2>6 DEF RegistryInv
<1>l. ASSUME NEW r \in GRuns, Launch(r), UNCHANGED gWait,
             gCreating' = gCreating, gRetry' \subseteq gRetry,
             gLate \subseteq gLate', r \in gActive \/ r \in gTerm \/ r \in gRetry,
             r \in gTerm' => r \in gLate',
             gActive' \subseteq gActive \cup {r}, gTerm' \subseteq gTerm,
             r \notin gActive \cup gTerm => gActive' = gActive /\ gTerm' = gTerm /\ r \in gLate',
             gOrder' \in Seq(GRuns), MapsInv'
      PROVE  RegistryInv'
  <2>1. /\ gLast' \in [GRuns -> Nat] /\ gLoops' \in [GRuns -> SUBSET Nat]
        /\ gStatus' \in [GRuns -> Statuses] /\ gKept' = gKept \cup {r}
        /\ gLast'[r] \in gLoops'[r] /\ gStatus'[r] = "running"
        /\ \A q \in GRuns : q # r => gLast'[q] = gLast[q] /\ gLoops'[q] = gLoops[q] /\ gStatus'[q] = gStatus[q]
        /\ \A q \in GRuns : gLast[q] <= gLast'[q]
    BY <1>0, <1>l, LaunchGives
  <2>2. gStatus[r] # "none" /\ r \notin gCreating
    BY <1>0, <1>l DEF StatusInv
  <2>3. ASSUME NEW q \in GRuns
        PROVE  /\ q \in gCreating' => gStatus'[q] = "none"
               /\ gStatus'[q] = "none" => q \notin gActive' \cup gTerm' \cup gRetry'
               /\ gStatus'[q] \in {"none", "created"} => gLast'[q] = 0
               /\ q \in gTerm' \ gLate' => gStatus'[q] \in Ended
               /\ q \in (gActive' \cup gTerm') \ gLate' =>
                     /\ gLast'[q] > 0 => q \in gKept'
                     /\ gStatus'[q] = "running" => gLast'[q] \in gLoops'[q]
    <3>1. CASE q = r
      BY <1>l, <2>1, <2>2, <3>1
    <3>2. CASE q # r
      <4>1. gLast'[q] = gLast[q] /\ gLoops'[q] = gLoops[q] /\ gStatus'[q] = gStatus[q]
        BY <2>1, <3>2
      <4>2. /\ q \in gActive' => q \in gActive
            /\ q \in gTerm' => q \in gTerm
            /\ q \in gRetry' => q \in gRetry
            /\ q \in gLate => q \in gLate'
            /\ q \in gKept => q \in gKept'
        BY <1>l, <2>1, <3>2
      <4> QED BY <1>0, <1>l, <4>1, <4>2 DEF StatusInv
    <3> QED BY <3>1, <3>2
  <2>4. StatusInv'
    BY <2>3 DEF StatusInv
  <2>5. gActive' \subseteq GRuns /\ gTerm' \subseteq GRuns /\ gCreating' \subseteq GRuns /\ gRetry' \subseteq GRuns
    BY <1>f, <1>l
  <2>6. \A q \in GRuns : gLast[q] \in Nat /\ gLast'[q] \in Nat
    BY <1>f, <2>1
  <2>7. WaitInv'
    BY <1>l, <1>w, <2>1, <2>6
  <2>8. RegistryTypeOK'
    BY <1>l, <1>t, <2>1, <2>5
  <2> QED BY <1>l, <2>4, <2>7, <2>8 DEF RegistryInv
<1>3. ASSUME NEW r \in GRuns, StartRun(r) PROVE RegistryInv'
  <2>1. /\ r \in gActive /\ Launch(r)
        /\ UNCHANGED <<gActive, gOrder, gTerm, gCreating, gRetry, gLate, gWait>>
    BY <1>3 DEF StartRun
  <2>2. r \notin gTerm' /\ gOrder' \in Seq(GRuns)
    BY <1>f, <2>1
  <2> QED BY <1>l, <1>m, <2>1, <2>2
<1>4. ASSUME NEW r \in GRuns, ContinueRun(r) PROVE RegistryInv'
  <2>1. /\ r \in gActive \cup gTerm /\ Launch(r)
        /\ IF r \in gTerm THEN Resurrect(r) ELSE UNCHANGED <<gTerm, gOrder, gActive>>
        /\ UNCHANGED <<gCreating, gRetry, gLate, gWait>>
    BY <1>4 DEF ContinueRun
  <2>2. CASE r \in gTerm
    <3>1. /\ gActive' = gActive \cup {r} /\ gTerm' = gTerm \ {r}
          /\ gOrder' \in Seq(GRuns) /\ MapsInv'
      BY <1>0, <2>1, <2>2, ResurrectKeeps
    <3> QED BY <1>l, <2>1, <2>2, <3>1
  <2>3. CASE r \notin gTerm
    <3>1. UNCHANGED <<gTerm, gOrder, gActive>>
      BY <2>1, <2>3
    <3> QED BY <1>f, <1>l, <1>m, <2>1, <2>3, <3>1
  <2> QED BY <2>2, <2>3
<1>5. ASSUME NEW r \in GRuns, RetryResumes(r) PROVE RegistryInv'
  <2>1. /\ r \in gRetry /\ gRetry' = gRetry \ {r} /\ Launch(r)
        /\ gLate' = IF r \in gActive /\ gStatus[r] = "failed" THEN gLate ELSE gLate \cup {r}
        /\ UNCHANGED <<gActive, gOrder, gTerm, gCreating, gWait>>
    BY <1>5 DEF RetryResumes
  <2>2. (r \in gTerm' => r \in gLate') /\ (r \notin gActive \cup gTerm => r \in gLate') /\ gOrder' \in Seq(GRuns)
    BY <1>f, <2>1
  <2> QED BY <1>l, <1>m, <2>1, <2>2
<1>6. ASSUME NEW r \in GRuns, EndRun(r) PROVE RegistryInv'
  <2>1. /\ r \in gActive /\ Retire(r)
        /\ UNCHANGED <<gLoops, gLast, gCreating, gRetry, gLate, gWait>>
        /\ \E s \in Ended : gStatus' = [gStatus EXCEPT ![r] = s]
    BY <1>6 DEF EndRun, Ended
  <2>2. PICK gone \in SUBSET gTerm :
           /\ gActive' = gActive \ {r} /\ gTerm' = (gTerm \cup {r}) \ gone
           /\ gOrder' \in Seq(GRuns) /\ MapsInv'
           /\ gKept' = gKept \ gone /\ r \notin gone
    BY <1>0, <2>1, RetireKeeps
  <2>3. /\ gStatus' \in [GRuns -> Statuses] /\ gStatus'[r] \in Ended
        /\ \A q \in GRuns : q # r => gStatus'[q] = gStatus[q]
    BY <1>f, <2>1 DEF Statuses
  <2>4. gStatus[r] # "none" /\ r \notin gCreating
    BY <1>0, <2>1 DEF StatusInv
  <2>5. ASSUME NEW q \in GRuns
        PROVE  /\ q \in gCreating' => gStatus'[q] = "none"
               /\ gStatus'[q] = "none" => q \notin gActive' \cup gTerm' \cup gRetry'
               /\ gStatus'[q] \in {"none", "created"} => gLast'[q] = 0
               /\ q \in gTerm' \ gLate' => gStatus'[q] \in Ended
               /\ q \in (gActive' \cup gTerm') \ gLate' =>
                     /\ gLast'[q] > 0 => q \in gKept'
                     /\ gStatus'[q] = "running" => gLast'[q] \in gLoops'[q]
    <3>1. q \in gActive' \cup gTerm' => q \in gActive \cup gTerm /\ (q \in gKept => q \in gKept')
      BY <1>f, <2>1, <2>2
    <3>2. CASE q = r
      <4>1. gStatus'[q] \notin {"none", "created", "running"}
        BY <2>3, <3>2 DEF Ended
      <4>2. gStatus'[q] \in Ended /\ q \notin gCreating'
        BY <2>1, <2>3, <2>4, <3>2
      <4> QED BY <1>0, <2>1, <3>1, <4>1, <4>2 DEF StatusInv
    <3>3. CASE q # r
      <4>1. gStatus'[q] = gStatus[q] /\ (q \in gTerm' => q \in gTerm)
        BY <2>2, <2>3, <3>3
      <4> QED BY <1>0, <2>1, <3>1, <4>1 DEF StatusInv
    <3> QED BY <3>2, <3>3
  <2>6. StatusInv'
    BY <2>5 DEF StatusInv
  <2>7. gActive' \subseteq GRuns /\ gTerm' \subseteq GRuns
    BY <1>f, <2>2
  <2> QED BY <1>f, <1>t, <1>u, <1>w, <2>1, <2>2, <2>3, <2>6, <2>7 DEF RegistryInv
<1>7. ASSUME NEW r \in GRuns, LoopOver(r) PROVE RegistryInv'
  <2>1. /\ gStatus[r] \in Ended \/ r \notin gActive
        /\ \E k \in gLoops[r] : gLoops' = [gLoops EXCEPT ![r] = gLoops[r] \ {k}]
        /\ UNCHANGED <<gActive, gOrder, gTerm, gStatus, gLast, gCreating, gRetry, gLate, gKept, gWait>>
    BY <1>7 DEF LoopOver
  <2>2. gLoops' \in [GRuns -> SUBSET Nat] /\ \A q \in GRuns : q # r => gLoops'[q] = gLoops[q]
    BY <1>f, <2>1
  <2>3. r \in (gActive \cup gTerm) \ gLate => gStatus[r] # "running"
    BY <1>0, <2>1 DEF StatusInv, Ended
  <2>4. StatusInv'
    BY <1>0, <2>1, <2>2, <2>3 DEF StatusInv
  <2> QED BY <1>f, <1>m, <1>t, <1>u, <1>w, <2>1, <2>2, <2>4 DEF RegistryInv
<1>8. ASSUME NEW r \in GRuns, RetryStarts(r) PROVE RegistryInv'
  <2>1. /\ r \in gActive \cup gTerm /\ gStatus[r] = "failed"
        /\ IF r \in gTerm THEN Resurrect(r) ELSE UNCHANGED <<gTerm, gOrder, gActive>>
        /\ gRetry' = gRetry \cup {r}
        /\ UNCHANGED <<gStatus, gLoops, gLast, gCreating, gLate, gKept, gWait>>
    BY <1>8 DEF RetryStarts
  <2>2. /\ gActive' \cup gTerm' = gActive \cup gTerm /\ gTerm' \subseteq gTerm
        /\ gOrder' \in Seq(GRuns) /\ MapsInv'
    <3>1. CASE r \in gTerm
      <4>1. /\ gActive' = gActive \cup {r} /\ gTerm' = gTerm \ {r}
            /\ gOrder' \in Seq(GRuns) /\ MapsInv'
        BY <1>0, <2>1, <3>1, ResurrectKeeps
      <4> QED BY <3>1, <4>1
    <3>2. CASE r \notin gTerm
      BY <1>f, <1>m, <2>1, <3>2
    <3> QED BY <3>1, <3>2
  <2>3. StatusInv'
    <3>1. \A q \in GRuns : /\ q \in gActive' \cup gTerm' <=> q \in gActive \cup gTerm
                           /\ q \in gTerm' => q \in gTerm
                           /\ q \in gRetry' => q \in gRetry \/ gStatus[q] = "failed"
                           /\ gStatus[q] = "failed" => gStatus[q] # "none"
      BY <2>1, <2>2
    <3> QED BY <1>0, <2>1, <3>1 DEF StatusInv
  <2>4. gActive' \subseteq GRuns /\ gTerm' \subseteq GRuns /\ gRetry' \subseteq GRuns
    BY <1>f, <2>1, <2>2
  <2> QED BY <1>f, <1>t, <1>u, <1>w, <2>1, <2>2, <2>3, <2>4 DEF RegistryInv
<1>9. ASSUME NEW r \in GRuns, RetryRefused(r) PROVE RegistryInv'
  <2>1. /\ gRetry' = gRetry \ {r}
        /\ UNCHANGED <<gActive, gOrder, gTerm, gStatus, gLoops, gLast, gCreating, gLate, gKept, gWait>>
    BY <1>9 DEF RetryRefused
  <2>2. StatusInv'
    BY <1>0, <2>1 DEF StatusInv
  <2>3. gRetry' \subseteq GRuns
    BY <1>f, <2>1
  <2> QED BY <1>f, <1>m, <1>t, <1>u, <1>w, <2>1, <2>2, <2>3 DEF RegistryInv
<1>10. ASSUME NEW r \in GRuns, CleanupRun(r) PROVE RegistryInv'
  <2>1. /\ gActive' = gActive \ {r} /\ gTerm' = gTerm \ {r} /\ gOrder' = Without(gOrder, r)
        /\ gKept' = gKept \ {r}
        /\ UNCHANGED <<gStatus, gLoops, gLast, gCreating, gRetry, gLate, gWait>>
    BY <1>10 DEF CleanupRun
  <2>2. /\ gOrder' \in Seq(GRuns) /\ IsInjective(gOrder')
        /\ ToSet(gOrder') = gTerm \ {r} /\ Len(gOrder') <= GKeep
    <3>1. gOrder \in Seq(GRuns) /\ IsInjective(gOrder) /\ ToSet(gOrder) = gTerm /\ Len(gOrder) <= GKeep
      BY <1>0 DEF MapsInv, RegistryTypeOK
    <3>2. /\ gOrder' \in Seq(GRuns) /\ IsInjective(gOrder')
          /\ ToSet(gOrder') = gTerm \ {r} /\ Len(gOrder') <= Len(gOrder)
      BY <2>1, <3>1, WithoutKeeps
    <3>3. Len(gOrder) \in Nat /\ Len(gOrder') \in Nat /\ GKeep \in Nat
      BY <3>1, <3>2, RegistryAssumption
    <3>4. Len(gOrder') <= GKeep
      BY <3>1, <3>2, <3>3
    <3> QED BY <3>2, <3>4
  <2>3. MapsInv'
    BY <1>f, <2>1, <2>2 DEF MapsInv
  <2>4. StatusInv'
    BY <1>0, <2>1 DEF StatusInv
  <2>5. gActive' \subseteq GRuns /\ gTerm' \subseteq GRuns
    BY <1>f, <2>1
  <2> QED BY <1>f, <1>t, <1>u, <1>w, <2>1, <2>2, <2>3, <2>4, <2>5 DEF RegistryInv
<1>11. ASSUME Shutdown PROVE RegistryInv'
  <2>1. /\ gStatus' = [r \in GRuns |-> IF r \in gActive /\ gStatus[r] \notin Ended
                                   THEN "failed" ELSE gStatus[r]]
        /\ UNCHANGED <<gActive, gOrder, gTerm, gLoops, gLast, gCreating, gRetry, gLate, gKept, gWait>>
    BY <1>11 DEF Shutdown
  <2>2. \A q \in GRuns : gStatus'[q] = gStatus[q] \/ (q \in gActive /\ gStatus'[q] = "failed")
    BY <2>1
  <2>3. gStatus' \in [GRuns -> Statuses]
    BY <1>f, <2>1 DEF Statuses, Ended
  <2>4. StatusInv'
    BY <1>0, <1>f, <2>1, <2>2 DEF StatusInv, Ended
  <2> QED BY <1>f, <1>m, <1>t, <1>u, <1>w, <2>1, <2>3, <2>4 DEF RegistryInv
<1>12. ASSUME WaitPolls \/ WaitEnds \/ \E r \in GRuns : WaitStarts(r) PROVE RegistryInv'
  <2>1. UNCHANGED <<gActive, gOrder, gTerm, gStatus, gLoops, gLast, gCreating, gRetry, gLate, gKept>>
    BY <1>12 DEF WaitPolls, WaitEnds, WaitStarts
  <2>2. StatusInv' /\ MapsInv'
    BY <1>0, <2>1 DEF StatusInv, MapsInv
  <2>g. \A q \in GRuns : GetRun(q) \in Statuses
    BY <1>f DEF GetRun, Statuses
  <2>h. gWait \in Wait /\ \A q \in GRuns : gLast[q] \in Nat
    BY <1>0, <1>f DEF RegistryTypeOK
  <2>a. ASSUME NEW w \in Wait, w.run \in GRuns, NEW a \in Statuses \cup {"timeout"}
        PROVE  /\ Answered(w, a) \in Wait /\ Answered(w, a).pc = "done" /\ Answered(w, a).ans = a
               /\ Answered(w, a).loop = w.loop /\ Answered(w, a).run = w.run
               /\ Answered(w, a).now = gLast[w.run]
    <3>1. gLast[w.run] \in Nat
      BY <2>a, <2>h
    <3> QED BY <2>a, <3>1 DEF Answered, Wait
  <2>b. ASSUME gWait'.pc = "done",
               gWait'.ans \notin Ended \cup {"none", "timeout"} =>
                  gWait'.now > gWait'.loop \/ gWait'.loop = 0 \/ gWait'.run \in gLate
        PROVE  WaitInv'
    BY <2>1, <2>b DEF WaitInv, WaiterTold, Ended
  <2>c. ASSUME gWait'.pc \in {"poll", "await"}, gWait'.run \in GRuns,
               gWait'.pc = "poll" => gWait'.loop = 0,
               gWait'.pc = "await" => gWait'.loop \in Nat /\ gWait'.loop > 0 /\ gWait'.loop <= gLast[gWait'.run]
        PROVE  WaitInv'
    BY <2>1, <2>c DEF WaitInv, WaiterTold
  <2>3. gWait' \in Wait /\ WaitInv'
    <3>1. CASE WaitPolls
      <4>1. gWait.run \in GRuns /\ gWait.loop = 0 /\ gWait.pc = "poll"
        BY <1>0, <3>1 DEF WaitInv, WaitPolls
      <4>2. CASE gLast[gWait.run] > 0 /\ GetRun(gWait.run) # "none"
        <5>1. gWait' = [gWait EXCEPT !.pc = "await", !.loop = gLast[gWait.run]]
          BY <3>1, <4>2 DEF WaitPolls
        <5>2. gWait' \in Wait /\ gWait'.pc = "await" /\ gWait'.loop = gLast[gWait.run] /\ gWait'.run = gWait.run
          BY <2>h, <4>1, <5>1 DEF Wait
        <5>3. gLast[gWait.run] \in Nat /\ gLast[gWait.run] <= gLast[gWait.run]
          BY <2>h, <4>1
        <5> QED BY <2>c, <4>1, <4>2, <5>2, <5>3
      <4>3. CASE ~(gLast[gWait.run] > 0 /\ GetRun(gWait.run) # "none")
        <5>1. gWait' = Answered(gWait, GetRun(gWait.run))
          BY <3>1, <4>3 DEF WaitPolls
        <5> QED BY <2>a, <2>b, <2>g, <2>h, <4>1, <5>1
      <4> QED BY <4>2, <4>3
    <3>2. CASE WaitEnds
      <4>1. /\ gWait.pc = "await" /\ gWait.run \in GRuns /\ gWait.loop \in Nat
            /\ gWait.loop > 0 /\ gWait.loop <= gLast[gWait.run]
        BY <1>0, <3>2 DEF WaitInv, WaitEnds
      <4>2. CASE gWait' = Answered(gWait, "timeout")
        BY <2>a, <2>b, <2>h, <4>1, <4>2
      <4>3. CASE gWait.loop \notin gLoops[gWait.run] /\ gWait' = Answered(gWait, GetRun(gWait.run))
        <5> DEFINE r == gWait.run
        <5>1. /\ gWait' \in Wait /\ gWait'.pc = "done" /\ gWait'.ans = GetRun(r)
              /\ gWait'.loop = gWait.loop /\ gWait'.run = r /\ gWait'.now = gLast[r]
          BY <2>a, <2>g, <2>h, <4>1, <4>3
        <5>2. ASSUME GetRun(r) \notin Ended \cup {"none", "timeout"}, r \notin gLate
              PROVE  gLast[r] > gWait.loop
          <6>1. r \in (gActive \cup gTerm) \ gLate /\ GetRun(r) = gStatus[r]
            BY <5>2 DEF GetRun
          <6>2. gStatus[r] \in {"created", "running"}
            BY <1>f, <4>1, <5>2, <6>1 DEF Statuses
          <6>3. gLast[r] \in Nat
            BY <2>h, <4>1
          <6>4. gStatus[r] # "created"
            BY <1>0, <4>1, <6>3 DEF StatusInv
          <6>5. gLast[r] \in gLoops[r]
            BY <1>0, <4>1, <6>1, <6>2, <6>4 DEF StatusInv
          <6>6. gLast[r] # gWait.loop
            BY <4>3, <6>5
          <6> QED BY <4>1, <6>3, <6>6
        <5> QED BY <2>b, <5>1, <5>2
      <4> QED BY <3>2, <4>2, <4>3 DEF WaitEnds
    <3>3. ASSUME NEW r \in GRuns, WaitStarts(r) PROVE gWait' \in Wait /\ WaitInv'
      <4> DEFINE w == [NoWait EXCEPT !.run = r, !.loop = gLast[r]]
      <4>1. gWait' = IF GetRun(r) = "none" THEN Answered(w, "none")
                     ELSE IF gLast[r] > 0 THEN [w EXCEPT !.pc = "await"]
                     ELSE IF GetRun(r) \in Ended THEN Answered(w, GetRun(r))
                     ELSE [w EXCEPT !.pc = "poll"]
        BY <3>3 DEF WaitStarts
      <4>2. w \in Wait /\ w.run = r /\ w.loop = gLast[r] /\ gLast[r] \in Nat
        BY <2>h DEF NoWait, Wait, Statuses
      <4>3. \A pc \in {"poll", "await"} :
               /\ [w EXCEPT !.pc = pc] \in Wait /\ [w EXCEPT !.pc = pc].pc = pc
               /\ [w EXCEPT !.pc = pc].run = r /\ [w EXCEPT !.pc = pc].loop = gLast[r]
        <5> HIDE DEF w
        <5> QED BY <4>2 DEF Wait
      <4> HIDE DEF w
      <4>4. CASE GetRun(r) = "none"
        <5>1. gWait' = Answered(w, "none") /\ "none" \in Statuses
          BY <4>1, <4>4 DEF Statuses
        <5> QED BY <2>a, <2>b, <4>2, <5>1
      <4>5. CASE GetRun(r) # "none" /\ gLast[r] > 0
        <5>1. gWait' = [w EXCEPT !.pc = "await"]
          BY <4>1, <4>5
        <5>2. gLast[r] <= gLast[r]
          BY <4>2
        <5> QED BY <2>c, <4>2, <4>3, <4>5, <5>1, <5>2
      <4>6. CASE GetRun(r) # "none" /\ ~(gLast[r] > 0) /\ GetRun(r) \in Ended
        <5>1. gWait' = Answered(w, GetRun(r))
          BY <4>1, <4>6
        <5> QED BY <2>a, <2>b, <2>g, <4>2, <4>6, <5>1
      <4>7. CASE GetRun(r) # "none" /\ ~(gLast[r] > 0) /\ GetRun(r) \notin Ended
        <5>1. gWait' = [w EXCEPT !.pc = "poll"]
          BY <4>1, <4>7
        <5>2. gLast[r] = 0
          BY <4>2, <4>7
        <5> QED BY <2>c, <4>2, <4>3, <5>1, <5>2
      <4> QED BY <4>4, <4>5, <4>6, <4>7
    <3> QED BY <1>12, <3>1, <3>2, <3>3
  <2>4. RegistryTypeOK'
    BY <1>0, <2>1, <2>3 DEF RegistryTypeOK
  <2> QED BY <2>2, <2>3, <2>4 DEF RegistryInv
<1>13. CASE UNCHANGED registryVars
  <2>1. UNCHANGED <<gActive, gOrder, gTerm, gStatus, gLoops, gLast, gCreating, gRetry, gLate, gKept, gWait>>
    BY <1>13 DEF registryVars
  <2>2. StatusInv'
    BY <1>0, <2>1 DEF StatusInv
  <2> QED BY <1>f, <1>m, <1>t, <1>u, <1>w, <2>1, <2>2 DEF RegistryInv
<1> QED BY <1>1, <1>2, <1>3, <1>4, <1>5, <1>6, <1>7, <1>8, <1>9, <1>10, <1>11, <1>12, <1>13
        DEF RegistryNext

-----------------------------------------------------------------------------
(* Memory. *)

\* What purging a run from a store keeps.
LEMMA UnpurgedFilters ==
  ASSUME NEW S, NEW s \in Seq(S), NEW r
  PROVE  /\ Unpurged(s, r) \in Seq(S) /\ Len(Unpurged(s, r)) <= Len(s)
         /\ FilteredFrom(Unpurged(s, r), s, {i \in 1..Len(s) : s[i].run # r})
<1> DEFINE K == {i \in 1..Len(s) : s[i].run # r}
           Eq(f) == f = [i \in 0..Len(s) |-> IF i = 0 THEN <<>>
                           ELSE IF s[i].run # r THEN Append(f[i - 1], s[i]) ELSE f[i - 1]]
           k == CHOOSE f : Eq(f)
<1>0. Len(s) \in Nat
  OBVIOUS
<1>1. PICK f : FilterIs(f, s, K, Len(s))
  <2> HIDE DEF K, Eq, k
  <2> QED BY <1>0, FilterExists
<1>2. \A i \in 0..Len(s) : i # 0 => (i \in K <=> s[i].run # r)
  BY <1>0
<1>3. Eq(f)
  BY <1>1, <1>2 DEF FilterIs
<1>4. Eq(k)
  BY <1>3
<1>5. Unpurged(s, r) = k[Len(s)]
  BY DEF Unpurged
<1> HIDE DEF k
<1>6. \A i \in 1..Len(s) : i \in 0..Len(s) /\ i # 0
  BY <1>0
<1>7. Filters(k, s, K, Len(s))
  <2>1. k[0] = <<>>
    <3>1. 0 \in 0..Len(s)
      BY <1>0
    <3> QED BY <1>4, <3>1
  <2>2. \A i \in 1..Len(s) : k[i] = IF i \in K THEN Append(k[i - 1], s[i]) ELSE k[i - 1]
    <3>1. \A i \in 1..Len(s) : k[i] = IF s[i].run # r THEN Append(k[i - 1], s[i]) ELSE k[i - 1]
      BY <1>4, <1>6
    <3> QED BY <1>2, <1>6, <3>1
  <2> QED BY <2>1, <2>2 DEF Filters
<1>8. K \subseteq 1..Len(s)
  OBVIOUS
<1> HIDE DEF K
<1> QED BY <1>0, <1>5, <1>7, <1>8, FilterKeeps DEF K

MemoryText == [source: {"tool", "model"}, keyword: BOOLEAN, secret: BOOLEAN, topic: Nat, value: Nat]
MemoryStatus == {"active", "evicted", "archived"}
MemoryRecord ==
    [source: {"tool", "model"}, keyword: BOOLEAN, secret: BOOLEAN, topic: Nat, value: Nat,
     run: MRuns \cup {Shared}, by: MRuns \cup {Shared}, absorbed: BOOLEAN,
     org: {"undefined"}, status: MemoryStatus,
     explicit: BOOLEAN, quarantined: BOOLEAN, conflict: BOOLEAN]

\* The records that may stand in a store when the runs P are purged: those of
\* other runs, and in long-term memory only what is not doubtful, was approved or
\* came in by a merge; the text is of the run itself but for a merge into a
\* shared record.
Allowed(scope, P) ==
    {x \in MemoryRecord :
       /\ x.run \notin P
       /\ x.by = x.run \/ (x.run = Shared /\ x.absorbed)
       /\ scope = "longterm" => x.absorbed \/ x.explicit \/ ~(x.secret \/ (x.source = "model" /\ x.keyword))}

\* A store of records with no more active ones than a limit.
Limited(s, n) == Cardinality(ActiveOf(s)) <= n

MemoryInv ==
    /\ DOMAIN mStore = Scopes /\ mPurged \subseteq MRuns
    /\ mWrites \in Nat /\ mHeld \in Nat
    /\ \A s \in Scopes : mStore[s] \in Seq(Allowed(s, mPurged))
    /\ Limited(mStore["working"], MMaxWorking + mHeld)
    /\ Limited(mStore["longterm"], MMaxLong)
    /\ mWrites = 0 => \A s \in Scopes : mStore[s] = <<>>

\* The active records of a store are finitely many.
LEMMA ActiveFinite ==
  ASSUME NEW S, NEW s \in Seq(S)
  PROVE  /\ IsFiniteSet(ActiveOf(s)) /\ Cardinality(ActiveOf(s)) \in Nat
         /\ Cardinality(ActiveOf(s)) <= Len(s) /\ ActiveOf(s) \subseteq 1..Len(s)
<1>1. ActiveOf(s) \subseteq 1..Len(s) /\ Len(s) \in Nat
  BY DEF ActiveOf
<1>2. IsFiniteSet(1..Len(s)) /\ Cardinality(1..Len(s)) = Len(s)
  <2>1. IsFiniteSet(1..Len(s)) /\ Cardinality(1..Len(s)) = IF 1 > Len(s) THEN 0 ELSE Len(s) - 1 + 1
    BY <1>1, FS_Interval
  <2> QED BY <1>1, <2>1
<1>3. /\ IsFiniteSet(ActiveOf(s)) /\ Cardinality(ActiveOf(s)) <= Cardinality(1..Len(s))
  BY <1>1, <1>2, FS_Subset
<1>4. Cardinality(ActiveOf(s)) \in Nat
  BY <1>3, FS_CardinalityType
<1> QED BY <1>1, <1>2, <1>3, <1>4

\* No store has active records at first.
LEMMA MemoryInvInit == MemoryInit => MemoryInv
<1> SUFFICES ASSUME MemoryInit PROVE MemoryInv
  OBVIOUS
<1>1. /\ DOMAIN mStore = Scopes /\ mPurged = {} /\ mWrites = 0 /\ mHeld = 0
      /\ \A s \in Scopes : mStore[s] = <<>>
  BY DEF MemoryInit
<1>2. ActiveOf(<<>>) = {} /\ Cardinality({}) = 0
  BY FS_EmptySet DEF ActiveOf
<1>3. MMaxWorking \in Nat /\ MMaxLong \in Nat /\ 0 <= MMaxWorking + 0 /\ 0 <= MMaxLong
  BY MemoryAssumption
<1>4. Limited(mStore["working"], MMaxWorking + mHeld) /\ Limited(mStore["longterm"], MMaxLong)
  BY <1>1, <1>2, <1>3 DEF Limited, Scopes
<1>5. \A s \in Scopes : mStore[s] \in Seq(Allowed(s, mPurged))
  <2> SUFFICES ASSUME NEW s \in Scopes PROVE mStore[s] \in Seq(Allowed(s, mPurged))
    OBVIOUS
  <2>1. mStore[s] = <<>>
    BY <1>1
  <2> QED BY <2>1
<1>6. mWrites \in Nat /\ mHeld \in Nat /\ mPurged \subseteq MRuns
  BY <1>1
<1> QED BY <1>1, <1>4, <1>5, <1>6 DEF MemoryInv

\* What holds of memory is what is promised of it.
LEMMA MemoryInvSound == MemoryInv => MemoryTrusted
<1> SUFFICES ASSUME MemoryInv PROVE MemoryTrusted
  OBVIOUS
<1>1. ASSUME NEW s \in Scopes, NEW i \in DOMAIN mStore[s]
      PROVE  mStore[s][i] \in Allowed(s, mPurged)
  BY <1>1 DEF MemoryInv
<1>2. ASSUME NEW s \in Scopes, NEW r \in MRuns, NEW i \in Visible(mStore[s], r)
      PROVE  mStore[s][i].run \in {r, Shared}
  <2>1. mStore[s][i] \in MemoryRecord
    BY <1>1, <1>2 DEF Visible, Allowed
  <2>2. mStore[s][i].org = "undefined"
    BY <2>1 DEF MemoryRecord
  <2> QED BY <1>2, <2>2, MemoryAssumption DEF Visible
<1>3. \A s \in Scopes : \A i \in DOMAIN mStore[s] :
          /\ mStore[s][i].run \notin mPurged
          /\ mStore[s][i].by \notin mPurged \/ (mStore[s][i].run = Shared /\ mStore[s][i].absorbed)
  BY <1>1 DEF Allowed
<1>5. ASSUME NEW s \in Scopes, NEW r \in MRuns, NEW i \in Visible(mStore[s], r)
      PROVE  mStore[s][i].by = r \/ mStore[s][i].run = Shared
  <2>1. i \in DOMAIN mStore[s]
    BY DEF Visible
  <2>2. mStore[s][i].by = mStore[s][i].run \/ mStore[s][i].run = Shared
    BY <1>1, <2>1 DEF Allowed
  <2> QED BY <1>2, <2>2
<1>4. \A i \in DOMAIN mStore["longterm"] :
          LET r == mStore["longterm"][i] IN
          r.absorbed \/ r.explicit \/ ~(r.secret \/ (r.source = "model" /\ r.keyword))
  BY <1>1 DEF Allowed, Scopes
<1> QED BY <1>2, <1>3, <1>4, <1>5 DEF MemoryTrusted, MemoryInv, Limited

\* Sequences over a larger set.
LEMMA SeqWider == ASSUME NEW A, NEW B, A \subseteq B, NEW s \in Seq(A) PROVE s \in Seq(B)
<1>1. s = [i \in 1..Len(s) |-> s[i]] /\ Len(s) \in Nat /\ \A i \in 1..Len(s) : s[i] \in B
  OBVIOUS
<1> QED BY <1>1

\* A record joins a store: one active record more.
LEMMA AppendActive ==
  ASSUME NEW A, NEW s \in Seq(A), NEW rec \in A, rec.status = "active"
  PROVE  /\ Append(s, rec) \in Seq(A) /\ Len(Append(s, rec)) = Len(s) + 1
         /\ ActiveOf(Append(s, rec)) = ActiveOf(s) \cup {Len(s) + 1}
         /\ Cardinality(ActiveOf(Append(s, rec))) = Cardinality(ActiveOf(s)) + 1
<1> DEFINE t == Append(s, rec)
<1>1. /\ t \in Seq(A) /\ Len(t) = Len(s) + 1 /\ Len(s) \in Nat /\ DOMAIN s = 1..Len(s)
      /\ DOMAIN t = 1..(Len(s) + 1)
      /\ t[Len(s) + 1] = rec /\ \A i \in 1..Len(s) : t[i] = s[i]
  BY AppendProperties
<1> HIDE DEF t
<1>2. \A i \in 1..(Len(s) + 1) : i \in 1..Len(s) \/ i = Len(s) + 1
  BY <1>1
<1>3. Len(s) + 1 \in 1..(Len(s) + 1) /\ \A i \in 1..Len(s) : i \in 1..(Len(s) + 1) /\ i # Len(s) + 1
  BY <1>1
<1>4. ActiveOf(t) = ActiveOf(s) \cup {Len(s) + 1} /\ Len(s) + 1 \notin ActiveOf(s)
  BY <1>1, <1>2, <1>3 DEF ActiveOf
<1>5. Cardinality(ActiveOf(t)) = Cardinality(ActiveOf(s)) + 1
  BY <1>4, ActiveFinite, FS_AddElement
<1> QED BY <1>1, <1>4, <1>5 DEF t

\* The records of a set that is closed under a change of status.
AnyStatus(A) == \A x \in A, st \in MemoryStatus : [x EXCEPT !.status = st] \in A

\* The oldest active record of a store loses its status.
LEMMA StatusLost ==
  ASSUME NEW A, A \subseteq MemoryRecord, AnyStatus(A), NEW s \in Seq(A), NEW i \in ActiveOf(s),
         NEW st \in {"evicted", "archived"}
  PROVE  /\ [s EXCEPT ![i].status = st] \in Seq(A)
         /\ ActiveOf([s EXCEPT ![i].status = st]) = ActiveOf(s) \ {i}
         /\ Cardinality(ActiveOf([s EXCEPT ![i].status = st])) = Cardinality(ActiveOf(s)) - 1
<1> DEFINE x == [s[i] EXCEPT !.status = st]
           t == [s EXCEPT ![i] = x]
<1>1. i \in 1..Len(s) /\ s[i] \in A /\ DOMAIN s = 1..Len(s)
  BY DEF ActiveOf
<1>2. x \in A /\ x.status = st
  <2>1. x \in A
    BY <1>1 DEF AnyStatus, MemoryStatus
  <2>2. s[i] \in MemoryRecord
    BY <1>1
  <2> QED BY <2>1, <2>2 DEF MemoryRecord
<1>3. [s EXCEPT ![i].status = st] = t
  OBVIOUS
<1> HIDE DEF x
<1>4. /\ t \in Seq(A) /\ DOMAIN t = 1..Len(s) /\ t[i] = x
      /\ \A j \in 1..Len(s) : j # i => t[j] = s[j]
  BY <1>1, <1>2
<1> HIDE DEF t
<1>5. ActiveOf(t) = ActiveOf(s) \ {i}
  BY <1>1, <1>2, <1>4 DEF ActiveOf
<1>6. Cardinality(ActiveOf(s) \ {i}) = Cardinality(ActiveOf(s)) - 1
  BY ActiveFinite, FS_RemoveElement
<1> QED BY <1>3, <1>4, <1>5, <1>6

\* Storing within a limit: beyond it the oldest active record is evicted.
LEMMA StoredKeeps ==
  ASSUME NEW A, A \subseteq MemoryRecord, AnyStatus(A), NEW s \in Seq(A), NEW rec \in A,
         rec.status = "active", NEW st \in {"evicted", "archived"}, NEW limit \in Nat, NEW h \in Nat,
         Limited(s, limit + h)
  PROVE  Stored(s, rec, limit, st) \in Seq(A) /\ Limited(Stored(s, rec, limit, st), limit + h)
<1> DEFINE t == Append(s, rec)
<1>1. /\ t \in Seq(A) /\ Len(t) = Len(s) + 1 /\ Len(s) \in Nat
      /\ ActiveOf(t) = ActiveOf(s) \cup {Len(s) + 1}
      /\ Cardinality(ActiveOf(t)) = Cardinality(ActiveOf(s)) + 1
  BY AppendActive
<1>2. /\ Cardinality(ActiveOf(s)) \in Nat /\ Cardinality(ActiveOf(s)) <= limit + h
  BY ActiveFinite DEF Limited
<1> HIDE DEF t
<1>3. Cardinality(ActiveOf(t)) <= Len(t) /\ ActiveOf(t) \subseteq Nat
  <2>1. ActiveOf(t) \subseteq 1..Len(t) /\ Cardinality(ActiveOf(t)) <= Len(t)
    BY <1>1, ActiveFinite
  <2> QED BY <2>1
<1>4. CASE Len(t) > limit
  <2>1. PICK m \in ActiveOf(t) : \A y \in ActiveOf(t) : m <= y
    BY <1>1, <1>3, LeastNat
  <2>2. Min(ActiveOf(t)) \in ActiveOf(t)
    BY <2>1 DEF Min
  <2>3. Stored(s, rec, limit, st) = [t EXCEPT ![Min(ActiveOf(t))].status = st]
    BY <1>1, <1>4 DEF Stored, EvictOldest, t
  <2>4. /\ Stored(s, rec, limit, st) \in Seq(A)
        /\ Cardinality(ActiveOf(Stored(s, rec, limit, st))) = Cardinality(ActiveOf(t)) - 1
    <3> DEFINE i == Min(ActiveOf(t))
    <3>1. i \in ActiveOf(t)
      BY <2>2
    <3> HIDE DEF i
    <3>2. /\ [t EXCEPT ![i].status = st] \in Seq(A)
          /\ Cardinality(ActiveOf([t EXCEPT ![i].status = st])) = Cardinality(ActiveOf(t)) - 1
      BY <1>1, <3>1, StatusLost
    <3> QED BY <2>3, <3>2 DEF i
  <2>5. Cardinality(ActiveOf(Stored(s, rec, limit, st))) <= limit + h
    BY <1>1, <1>2, <2>4
  <2> QED BY <2>4, <2>5 DEF Limited
<1>5. CASE ~(Len(t) > limit)
  <2>1. Stored(s, rec, limit, st) = t
    BY <1>5 DEF Stored, t
  <2>2. Cardinality(ActiveOf(t)) <= limit + h
    BY <1>1, <1>2, <1>3, <1>5
  <2> QED BY <1>1, <2>1, <2>2 DEF Limited
<1> QED BY <1>4, <1>5

\* Purging a run leaves fewer active records, none of them the run's.
LEMMA UnpurgedKeeps ==
  ASSUME NEW A, NEW s \in Seq(A), NEW r, NEW n \in Nat, Limited(s, n)
  PROVE  Unpurged(s, r) \in Seq({x \in A : x.run # r}) /\ Limited(Unpurged(s, r), n)
<1> DEFINE K == {i \in 1..Len(s) : s[i].run # r}
           t == Unpurged(s, r)
<1>1. t \in Seq(A) /\ FilteredFrom(t, s, K)
  BY UnpurgedFilters
<1>2. Len(s) \in Nat /\ Len(t) \in Nat /\ DOMAIN t = 1..Len(t) /\ t = [a \in 1..Len(t) |-> t[a]]
      /\ DOMAIN s = 1..Len(s)
  BY <1>1
<1> HIDE DEF t
<1>3. PICK e \in [1..Len(t) -> K] :
              /\ \A a, b \in 1..Len(t) : e[a] = e[b] => a = b
              /\ \A j \in K : \E a \in 1..Len(t) : e[a] = j
              /\ \A a \in 1..Len(t) : t[a] = s[e[a]]
  BY <1>1 DEF FilteredFrom
<1>4. \A a \in 1..Len(t) : e[a] \in 1..Len(s) /\ s[e[a]].run # r
  OBVIOUS
<1>5. t \in Seq({x \in A : x.run # r})
  <2>1. \A a \in 1..Len(t) : t[a] \in {x \in A : x.run # r}
    BY <1>1, <1>3, <1>4
  <2> QED BY <1>2, <2>1
<1>6. Cardinality(ActiveOf(t)) <= Cardinality(ActiveOf(s))
  <2> DEFINE g == [a \in ActiveOf(t) |-> e[a]]
  <2>1. ActiveOf(t) \subseteq 1..Len(t)
    BY <1>2 DEF ActiveOf
  <2>2. \A a \in ActiveOf(t) : e[a] \in ActiveOf(s)
    BY <1>2, <1>3, <1>4, <2>1 DEF ActiveOf
  <2>3. g \in [ActiveOf(t) -> ActiveOf(s)] /\ \A a, b \in ActiveOf(t) : g[a] = g[b] => a = b
    BY <1>3, <2>1, <2>2
  <2>4. g \in Injection(ActiveOf(t), ActiveOf(s))
    BY <2>3 DEF Injection, IsInjective
  <2>5. IsFiniteSet(ActiveOf(s))
    BY ActiveFinite
  <2> QED BY <2>4, <2>5, FS_Injection
<1>7. Cardinality(ActiveOf(t)) <= n
  <2>1. Cardinality(ActiveOf(t)) \in Nat /\ Cardinality(ActiveOf(s)) \in Nat
    BY <1>1, ActiveFinite
  <2> QED BY <1>6, <2>1 DEF Limited
<1> QED BY <1>5, <1>7 DEF Limited, t

\* What may be stored is a matter of anything but the status, and the more of it
\* the fewer runs are purged.
LEMMA AllowedClosed ==
  ASSUME NEW scope, NEW P
  PROVE  /\ Allowed(scope, P) \subseteq MemoryRecord /\ AnyStatus(Allowed(scope, P))
         /\ \A Q \in SUBSET P : Allowed(scope, P) \subseteq Allowed(scope, Q)
<1>1. Allowed(scope, P) \subseteq MemoryRecord
  BY DEF Allowed
<1>2. ASSUME NEW x \in MemoryRecord, NEW st \in MemoryStatus
      PROVE  /\ [x EXCEPT !.status = st] \in MemoryRecord
             /\ [x EXCEPT !.status = st].run = x.run
             /\ [x EXCEPT !.status = st].by = x.by
             /\ [x EXCEPT !.status = st].absorbed = x.absorbed
             /\ [x EXCEPT !.status = st].explicit = x.explicit
             /\ [x EXCEPT !.status = st].secret = x.secret
             /\ [x EXCEPT !.status = st].source = x.source
             /\ [x EXCEPT !.status = st].keyword = x.keyword
  BY DEF MemoryRecord
<1>3. AnyStatus(Allowed(scope, P))
  <2> SUFFICES ASSUME NEW x \in Allowed(scope, P), NEW st \in MemoryStatus
               PROVE  [x EXCEPT !.status = st] \in Allowed(scope, P)
    BY DEF AnyStatus
  <2> DEFINE y == [x EXCEPT !.status = st]
  <2>1. /\ y \in MemoryRecord /\ y.run = x.run /\ y.by = x.by /\ y.absorbed = x.absorbed
        /\ y.explicit = x.explicit /\ y.secret = x.secret /\ y.source = x.source
        /\ y.keyword = x.keyword
    BY <1>1, <1>2
  <2> HIDE DEF y
  <2>2. y \in Allowed(scope, P)
    BY <2>1 DEF Allowed
  <2> QED BY <2>2 DEF y
<1>4. \A Q \in SUBSET P : Allowed(scope, P) \subseteq Allowed(scope, Q)
  BY DEF Allowed
<1> QED BY <1>1, <1>3, <1>4

\* An active record of a text, for a run.
Describes(x, c, run, e) ==
    /\ x \in MemoryRecord /\ x.status = "active" /\ x.run = run /\ x.by = run /\ x.explicit = e
    /\ x.secret = c.secret /\ x.source = c.source /\ x.keyword = c.keyword

\* What createMemoryRecord returns.
LEMMA RecordTyped ==
  ASSUME NEW c \in MemoryText, NEW run \in MRuns \cup {Shared}, NEW e \in BOOLEAN, NEW q \in BOOLEAN,
         NEW clash \in BOOLEAN
  PROVE  /\ Describes(CreateMemoryRecord(c, run, e, q), c, run, e)
         /\ Describes([CreateMemoryRecord(c, run, e, q) EXCEPT !.conflict = clash], c, run, e)
<1> DEFINE x == CreateMemoryRecord(c, run, e, q)
           y == [x EXCEPT !.conflict = clash]
<1>1. /\ x \in MemoryRecord /\ x.status = "active" /\ x.run = run /\ x.by = run /\ x.explicit = e
      /\ x.secret = c.secret /\ x.source = c.source /\ x.keyword = c.keyword
  BY DEF CreateMemoryRecord, MemoryRecord, MemoryText, MemoryStatus
<1> HIDE DEF x
<1>2. /\ y \in MemoryRecord /\ y.status = "active" /\ y.run = run /\ y.by = run /\ y.explicit = e
      /\ y.secret = c.secret /\ y.source = c.source /\ y.keyword = c.keyword
  BY <1>1 DEF MemoryRecord
<1> QED BY <1>1, <1>2 DEF x, Describes

\* What is not quarantined may be durable.
LEMMA NotQuarantined ==
  ASSUME NEW c \in MemoryText, NEW e \in BOOLEAN, NEW d \in BOOLEAN, ~Quarantines(c, e, d)
  PROVE  e \/ ~(c.secret \/ (c.source = "model" /\ c.keyword))
<1>1. CASE e
  BY <1>1
<1>2. CASE ~e /\ c.secret
  <2>1. Classify(c, FALSE) = "secret_or_unsafe"
    BY <1>2 DEF Classify
  <2> QED BY <1>2, <2>1 DEF Quarantines
<1>3. CASE ~e /\ ~c.secret /\ c.source = "model" /\ c.keyword
  <2>1. Classify(c, FALSE) = "unvetted_model_output"
    BY <1>3 DEF Classify
  <2> QED BY <1>3, <2>1 DEF Quarantines
<1> QED BY <1>1, <1>2, <1>3

\* A write to long-term memory.
LEMMA LongTermKeeps ==
  ASSUME MemoryInv, NEW run \in MRuns, NEW c \in MCandidates, NEW e \in BOOLEAN, NEW d \in BOOLEAN,
         NEW clash \in BOOLEAN, Wrote(run), LongTermWritten(run, c, e, d, clash)
  PROVE  MemoryInv'
<1> DEFINE x == [CreateMemoryRecord(c, run, FALSE, TRUE) EXCEPT !.conflict = clash]
           y == [CreateMemoryRecord(c, run, e, FALSE) EXCEPT !.conflict = clash]
<1>0. /\ DOMAIN mStore = Scopes /\ mPurged \subseteq MRuns /\ mWrites \in Nat /\ mHeld \in Nat
      /\ mWrites' = mWrites + 1 /\ mPurged' = mPurged \ {run}
      /\ mStore["working"] \in Seq(Allowed("working", mPurged'))
      /\ mStore["longterm"] \in Seq(Allowed("longterm", mPurged'))
      /\ Limited(mStore["working"], MMaxWorking + mHeld)
      /\ Limited(mStore["longterm"], MMaxLong)
  <2>1. /\ DOMAIN mStore = Scopes /\ mPurged \subseteq MRuns /\ mWrites \in Nat /\ mHeld \in Nat
        /\ \A s \in Scopes : mStore[s] \in Seq(Allowed(s, mPurged))
        /\ Limited(mStore["working"], MMaxWorking + mHeld)
        /\ Limited(mStore["longterm"], MMaxLong)
    BY DEF MemoryInv
  <2>2. mWrites' = mWrites + 1 /\ mPurged' = mPurged \ {run}
    BY DEF Wrote
  <2>3. \A s \in Scopes : mStore[s] \in Seq(Allowed(s, mPurged'))
    <3> SUFFICES ASSUME NEW s \in Scopes PROVE mStore[s] \in Seq(Allowed(s, mPurged'))
      OBVIOUS
    <3>1. Allowed(s, mPurged) \subseteq Allowed(s, mPurged')
      BY <2>2, AllowedClosed
    <3> QED BY <2>1, <3>1, SeqWider
  <2> QED BY <2>1, <2>2, <2>3 DEF Scopes
<1>1. c \in MemoryText /\ MMaxWorking \in Nat /\ MMaxLong \in Nat
  BY MemoryAssumption DEF MemoryText
<1>2. /\ x \in MemoryRecord /\ x.status = "active" /\ x.run = run /\ x.by = run
      /\ y \in MemoryRecord /\ y.status = "active" /\ y.run = run /\ y.by = run /\ y.explicit = e
      /\ y.secret = c.secret /\ y.source = c.source /\ y.keyword = c.keyword
  <2>1. run \in MRuns \cup {Shared} /\ FALSE \in BOOLEAN /\ TRUE \in BOOLEAN
    OBVIOUS
  <2>2. Describes(x, c, run, FALSE) /\ Describes(y, c, run, e)
    BY <1>1, <2>1, RecordTyped
  <2> QED BY <2>2 DEF Describes
<1>3. CASE Quarantines(c, e, d)
  <2>1. mStore' = [mStore EXCEPT !["working"] = Append(mStore["working"], x)] /\ mHeld' = mHeld + 1
    BY <1>3 DEF LongTermWritten
  <2> HIDE DEF x, y
  <2>2. x \in Allowed("working", mPurged')
    BY <1>0, <1>2 DEF Allowed
  <2>3. /\ DOMAIN mStore' = Scopes /\ mStore'["working"] = Append(mStore["working"], x)
        /\ mStore'["longterm"] = mStore["longterm"]
    BY <1>0, <2>1 DEF Scopes
  <2>4. /\ mStore'["working"] \in Seq(Allowed("working", mPurged'))
        /\ Cardinality(ActiveOf(mStore'["working"])) = Cardinality(ActiveOf(mStore["working"])) + 1
    BY <1>0, <1>2, <2>2, <2>3, AppendActive
  <2>5. Cardinality(ActiveOf(mStore["working"])) \in Nat
    BY <1>0, ActiveFinite
  <2>6. Cardinality(ActiveOf(mStore'["working"])) <= MMaxWorking + mHeld'
    BY <1>0, <1>1, <2>1, <2>4, <2>5 DEF Limited
  <2>7. mWrites' \in Nat /\ mWrites' # 0 /\ mHeld' \in Nat /\ mPurged' \subseteq MRuns
    BY <1>0, <2>1
  <2> QED BY <1>0, <2>3, <2>4, <2>6, <2>7 DEF MemoryInv, Limited, Scopes
<1>4. CASE ~Quarantines(c, e, d)
  <2> DEFINE t == Stored(mStore["longterm"], y, MMaxLong, "archived")
  <2>1. mStore' = [mStore EXCEPT !["longterm"] = t] /\ mHeld' = mHeld
    BY <1>4 DEF LongTermWritten
  <2>2. e \/ ~(c.secret \/ (c.source = "model" /\ c.keyword))
    BY <1>1, <1>4, NotQuarantined
  <2> HIDE DEF x, y
  <2>3. y \in Allowed("longterm", mPurged')
    BY <1>0, <1>2, <2>2 DEF Allowed
  <2>4. Limited(mStore["longterm"], MMaxLong + 0)
    BY <1>0, <1>1
  <2>5. t \in Seq(Allowed("longterm", mPurged')) /\ Limited(t, MMaxLong + 0)
    BY <1>0, <1>1, <1>2, <2>3, <2>4, AllowedClosed, StoredKeeps
  <2> HIDE DEF t
  <2>6. /\ DOMAIN mStore' = Scopes /\ mStore'["longterm"] = t /\ mStore'["working"] = mStore["working"]
    BY <1>0, <2>1 DEF Scopes
  <2>7. mWrites' \in Nat /\ mWrites' # 0 /\ mPurged' \subseteq MRuns /\ Limited(t, MMaxLong)
    BY <1>0, <1>1, <2>5
  <2> QED BY <1>0, <2>1, <2>5, <2>6, <2>7 DEF MemoryInv, Scopes
<1> QED BY <1>3, <1>4

\* What a merge makes of a record of the run or of a shared one.
LEMMA MergedAllowed ==
  ASSUME NEW run \in MRuns, NEW P, NEW c \in MemoryText, NEW x \in Allowed("longterm", P),
         x.run \in {run, Shared}, x.status = "active", NEW rec \in Merged(x, c, run)
  PROVE  rec \in Allowed("longterm", P) /\ rec.status = "active"
<1> DEFINE y == [x EXCEPT !.keyword = c.keyword, !.secret = c.secret, !.by = run, !.absorbed = TRUE]
<1>1. x \in MemoryRecord /\ x.run \notin P
  BY DEF Allowed
<1>2. y \in MemoryRecord
  BY <1>1 DEF MemoryRecord, MemoryText
<1>3. y.run = x.run /\ y.by = run /\ y.absorbed = TRUE /\ y.status = "active"
  BY <1>1 DEF MemoryRecord
<1>4. rec = x \/ rec = y
  BY DEF Merged
<1> HIDE DEF y
<1>5. y \in Allowed("longterm", P)
  BY <1>1, <1>2, <1>3 DEF Allowed
<1> QED BY <1>3, <1>4, <1>5

\* One active record in the place of another.
LEMMA ReplacedKeeps ==
  ASSUME NEW A, NEW s \in Seq(A), NEW i \in ActiveOf(s), NEW x \in A, x.status = "active"
  PROVE  [s EXCEPT ![i] = x] \in Seq(A) /\ ActiveOf([s EXCEPT ![i] = x]) = ActiveOf(s)
<1> DEFINE t == [s EXCEPT ![i] = x]
<1>1. i \in 1..Len(s) /\ s[i].status = "active" /\ DOMAIN s = 1..Len(s)
  BY DEF ActiveOf
<1>2. /\ t \in Seq(A) /\ DOMAIN t = 1..Len(s) /\ t[i] = x
      /\ \A j \in 1..Len(s) : j # i => t[j] = s[j]
  BY <1>1
<1> HIDE DEF t
<1>3. ActiveOf(t) = ActiveOf(s)
  BY <1>1, <1>2 DEF ActiveOf
<1> QED BY <1>2, <1>3 DEF t

\* However writes, consolidations, evictions and purges interleave.
LEMMA MemoryInvStep == MemoryInv /\ [MemoryNext]_memoryVars => MemoryInv'
<1> SUFFICES ASSUME MemoryInv, [MemoryNext]_memoryVars PROVE MemoryInv'
  OBVIOUS
<1>0. /\ DOMAIN mStore = Scopes /\ mPurged \subseteq MRuns /\ mWrites \in Nat /\ mHeld \in Nat
      /\ \A s \in Scopes : mStore[s] \in Seq(Allowed(s, mPurged))
      /\ Limited(mStore["working"], MMaxWorking + mHeld)
      /\ Limited(mStore["longterm"], MMaxLong)
      /\ mWrites = 0 => \A s \in Scopes : mStore[s] = <<>>
  BY DEF MemoryInv
<1>c. /\ MCandidates \subseteq MemoryText /\ MMaxWorking \in Nat /\ MMaxLong \in Nat
      /\ MMaxWorking > 0 /\ MMaxLong > 0
  BY MemoryAssumption DEF MemoryText
<1>w. ASSUME NEW run, Wrote(run)
      PROVE  /\ mWrites' \in Nat /\ mWrites' # 0 /\ mPurged' = mPurged \ {run} /\ mPurged' \subseteq MRuns
             /\ \A s \in Scopes : mStore[s] \in Seq(Allowed(s, mPurged'))
  <2>1. mWrites' = mWrites + 1 /\ mPurged' = mPurged \ {run}
    BY <1>w DEF Wrote
  <2>2. ASSUME NEW s \in Scopes PROVE mStore[s] \in Seq(Allowed(s, mPurged'))
    <3>1. Allowed(s, mPurged) \subseteq Allowed(s, mPurged')
      BY <2>1, AllowedClosed
    <3> QED BY <1>0, <3>1, SeqWider
  <2>3. mWrites' \in Nat /\ mWrites' # 0 /\ mPurged' \subseteq MRuns
    BY <1>0, <2>1
  <2> QED BY <2>1, <2>2, <2>3
<1>1. ASSUME SeedMemory PROVE MemoryInv'
  <2>1. PICK c \in MCandidates, s \in Scopes :
          mStore' = [mStore EXCEPT ![s] = Append(mStore[s], CreateMemoryRecord(c, Shared, TRUE, FALSE))]
    BY <1>1 DEF SeedMemory
  <2>2. mWrites = 0 /\ Wrote(Shared) /\ mHeld' = mHeld
    BY <1>1 DEF SeedMemory
  <2> DEFINE x == CreateMemoryRecord(c, Shared, TRUE, FALSE)
  <2>3. x \in MemoryRecord /\ x.status = "active" /\ x.run = Shared /\ x.by = Shared /\ x.explicit = TRUE
    <3>1. c \in MemoryText /\ Shared \in MRuns \cup {Shared} /\ FALSE \in BOOLEAN /\ TRUE \in BOOLEAN
      BY <1>c
    <3>2. Describes(x, c, Shared, TRUE)
      BY <3>1, RecordTyped
    <3> QED BY <3>2 DEF Describes
  <2> HIDE DEF x
  <2>4. x \in Allowed(s, mPurged')
    BY <1>w, <2>2, <2>3 DEF Allowed
  <2>5. /\ Append(mStore[s], x) \in Seq(Allowed(s, mPurged'))
        /\ Cardinality(ActiveOf(Append(mStore[s], x))) = Cardinality(ActiveOf(mStore[s])) + 1
    BY <1>w, <2>2, <2>3, <2>4, AppendActive
  <2>6. \A q \in Scopes : mStore[q] = <<>> /\ Cardinality(ActiveOf(mStore[q])) = 0
    <3>1. ActiveOf(<<>>) = {} /\ Cardinality({}) = 0
      BY FS_EmptySet DEF ActiveOf
    <3> QED BY <1>0, <2>2, <3>1
  <2>7. /\ DOMAIN mStore' = Scopes
        /\ \A q \in Scopes : mStore'[q] = IF q = s THEN Append(mStore[s], x) ELSE mStore[q]
    BY <1>0, <2>1 DEF x
  <2>8. \A q \in Scopes : /\ mStore'[q] \in Seq(Allowed(q, mPurged'))
                          /\ Cardinality(ActiveOf(mStore'[q])) \in {0, 1}
    <3> SUFFICES ASSUME NEW q \in Scopes
                 PROVE  /\ mStore'[q] \in Seq(Allowed(q, mPurged'))
                        /\ Cardinality(ActiveOf(mStore'[q])) \in {0, 1}
      OBVIOUS
    <3>1. CASE q = s
      <4>1. Cardinality(ActiveOf(mStore'[q])) = 0 + 1 /\ mStore'[q] \in Seq(Allowed(q, mPurged'))
        BY <2>5, <2>6, <2>7, <3>1
      <4> QED BY <4>1
    <3>2. CASE q # s
      BY <1>w, <2>2, <2>6, <2>7, <3>2
    <3> QED BY <3>1, <3>2
  <2>9. \A k \in {0, 1} : k <= MMaxWorking + mHeld /\ k <= MMaxLong
    BY <1>0, <1>c
  <2>10. Limited(mStore'["working"], MMaxWorking + mHeld') /\ Limited(mStore'["longterm"], MMaxLong)
    BY <2>2, <2>8, <2>9 DEF Limited, Scopes
  <2> QED BY <1>0, <1>w, <2>2, <2>7, <2>8, <2>10 DEF MemoryInv
<1>2. ASSUME EvictMemory PROVE MemoryInv'
  <2>1. PICK s \in Scopes : \E i \in DOMAIN mStore[s] :
          /\ mStore[s][i].status = "active"
          /\ mStore' = [mStore EXCEPT ![s][i].status = "evicted"]
    BY <1>2 DEF EvictMemory
  <2>2. PICK i \in DOMAIN mStore[s] :
          /\ mStore[s][i].status = "active"
          /\ mStore' = [mStore EXCEPT ![s] = [mStore[s] EXCEPT ![i].status = "evicted"]]
    BY <2>1
  <2>3. UNCHANGED <<mPurged, mWrites, mHeld>>
    BY <1>2 DEF EvictMemory
  <2> DEFINE t == [mStore[s] EXCEPT ![i].status = "evicted"]
  <2>4. i \in ActiveOf(mStore[s])
    BY <2>2 DEF ActiveOf
  <2>5. t \in Seq(Allowed(s, mPurged)) /\ Cardinality(ActiveOf(t)) = Cardinality(ActiveOf(mStore[s])) - 1
    <3>1. /\ Allowed(s, mPurged) \subseteq MemoryRecord /\ AnyStatus(Allowed(s, mPurged))
          /\ mStore[s] \in Seq(Allowed(s, mPurged)) /\ "evicted" \in {"evicted", "archived"}
      BY <1>0, AllowedClosed
    <3> QED BY <2>4, <3>1, StatusLost
  <2>6. Cardinality(ActiveOf(mStore[s])) \in Nat
    BY <1>0, ActiveFinite
  <2> HIDE DEF t
  <2>7. /\ DOMAIN mStore' = Scopes
        /\ \A q \in Scopes : mStore'[q] = IF q = s THEN t ELSE mStore[q]
    BY <1>0, <2>2 DEF t
  <2>8. mWrites # 0
    BY <1>0, <2>2
  <2>9. \A q \in Scopes, n \in Nat : Limited(mStore[q], n) => Limited(mStore'[q], n)
    <3> SUFFICES ASSUME NEW q \in Scopes, NEW n \in Nat, Limited(mStore[q], n) PROVE Limited(mStore'[q], n)
      OBVIOUS
    <3>1. CASE q = s
      BY <2>5, <2>6, <2>7, <3>1 DEF Limited
    <3>2. CASE q # s
      BY <2>7, <3>2
    <3> QED BY <3>1, <3>2
  <2>10. Limited(mStore'["working"], MMaxWorking + mHeld') /\ Limited(mStore'["longterm"], MMaxLong)
    <3>1. MMaxWorking + mHeld \in Nat
      BY <1>0, <1>c
    <3> QED BY <1>0, <1>c, <2>3, <2>9, <3>1 DEF Scopes
  <2>11. \A q \in Scopes : mStore'[q] \in Seq(Allowed(q, mPurged'))
    BY <1>0, <2>3, <2>5, <2>7
  <2> QED BY <1>0, <2>3, <2>7, <2>8, <2>10, <2>11 DEF MemoryInv
<1>3. ASSUME NEW run \in MRuns, WriteWorkingMemory(run) PROVE MemoryInv'
  <2>1. PICK c \in MCandidates :
          mStore' = [mStore EXCEPT !["working"] =
                       Stored(mStore["working"], CreateMemoryRecord(c, run, FALSE, FALSE), MMaxWorking, "evicted")]
    BY <1>3 DEF WriteWorkingMemory
  <2>2. Wrote(run) /\ mHeld' = mHeld
    BY <1>3 DEF WriteWorkingMemory
  <2> DEFINE x == CreateMemoryRecord(c, run, FALSE, FALSE)
             t == Stored(mStore["working"], x, MMaxWorking, "evicted")
  <2>3. x \in MemoryRecord /\ x.status = "active" /\ x.run = run /\ x.by = run
    <3>1. c \in MemoryText /\ run \in MRuns \cup {Shared} /\ FALSE \in BOOLEAN
      BY <1>c
    <3>2. Describes(x, c, run, FALSE)
      BY <3>1, RecordTyped
    <3> QED BY <3>2 DEF Describes
  <2> HIDE DEF x
  <2>4. x \in Allowed("working", mPurged')
    BY <1>w, <2>2, <2>3 DEF Allowed
  <2>5. mStore["working"] \in Seq(Allowed("working", mPurged'))
    BY <1>w, <2>2 DEF Scopes
  <2>6. t \in Seq(Allowed("working", mPurged')) /\ Limited(t, MMaxWorking + mHeld)
    BY <1>0, <1>c, <2>3, <2>4, <2>5, AllowedClosed, StoredKeeps
  <2> HIDE DEF t
  <2>7. /\ DOMAIN mStore' = Scopes /\ mStore'["working"] = t /\ mStore'["longterm"] = mStore["longterm"]
    BY <1>0, <2>1 DEF Scopes, x, t
  <2>8. \A q \in Scopes : mStore'[q] \in Seq(Allowed(q, mPurged'))
    BY <1>w, <2>2, <2>6, <2>7 DEF Scopes
  <2> QED BY <1>0, <1>w, <2>2, <2>6, <2>7, <2>8 DEF MemoryInv
<1>4. ASSUME NEW run \in MRuns, WriteLongTermMemory(run) PROVE MemoryInv'
  <2>1. Wrote(run) /\ \E c \in MCandidates, e, d \in BOOLEAN : LongTermWritten(run, c, e, d, FALSE)
    BY <1>4 DEF WriteLongTermMemory
  <2> QED BY <2>1, LongTermKeeps
<1>5. ASSUME NEW run \in MRuns, WriteLongTermConsolidated(run) PROVE MemoryInv'
  <2>1. /\ Wrote(run)
        /\ \/ \E c \in MCandidates, d \in BOOLEAN, clash \in BOOLEAN : LongTermWritten(run, c, FALSE, d, clash)
           \/ \E c \in MCandidates, best \in Visible(mStore["longterm"], run) :
                 /\ \E rec \in Merged(mStore["longterm"][best], c, run) :
                       mStore' = [mStore EXCEPT !["longterm"][best] = rec]
                 /\ UNCHANGED mHeld
    BY <1>5 DEF WriteLongTermConsolidated
  <2>2. CASE \E c \in MCandidates, d \in BOOLEAN, clash \in BOOLEAN : LongTermWritten(run, c, FALSE, d, clash)
    BY <2>1, <2>2, LongTermKeeps
  <2>3. CASE \E c \in MCandidates, best \in Visible(mStore["longterm"], run) :
                /\ \E rec \in Merged(mStore["longterm"][best], c, run) :
                      mStore' = [mStore EXCEPT !["longterm"][best] = rec]
                /\ UNCHANGED mHeld
    <3> DEFINE s == mStore["longterm"]
    <3>1. PICK c \in MCandidates, best \in Visible(s, run) :
             /\ \E rec \in Merged(s[best], c, run) : mStore' = [mStore EXCEPT !["longterm"] = [s EXCEPT ![best] = rec]]
             /\ UNCHANGED mHeld
      BY <2>3
    <3>2. PICK rec \in Merged(s[best], c, run) : mStore' = [mStore EXCEPT !["longterm"] = [s EXCEPT ![best] = rec]]
      BY <3>1
    <3>3. s \in Seq(Allowed("longterm", mPurged')) /\ best \in ActiveOf(s) /\ best \in DOMAIN s
      BY <1>w, <2>1 DEF Visible, ActiveOf, Scopes
    <3>4. s[best] \in Allowed("longterm", mPurged') /\ s[best].status = "active" /\ s[best].run \in {run, Shared}
      <4>1. s[best] \in Allowed("longterm", mPurged')
        BY <3>3
      <4>2. s[best] \in MemoryRecord
        BY <4>1 DEF Allowed
      <4>3. s[best].org = "undefined" /\ MOrgOf[run] # "undefined"
        BY <4>2, MemoryAssumption DEF MemoryRecord
      <4> QED BY <4>1, <4>3 DEF Visible
    <3>5. rec \in Allowed("longterm", mPurged') /\ rec.status = "active"
      <4>1. c \in MemoryText
        BY <1>c
      <4> QED BY <3>4, <4>1, MergedAllowed
    <3> DEFINE t == [s EXCEPT ![best] = rec]
    <3>6. t \in Seq(Allowed("longterm", mPurged')) /\ ActiveOf(t) = ActiveOf(s)
      BY <3>3, <3>5, ReplacedKeeps
    <3>7. mStore' = [mStore EXCEPT !["longterm"] = t]
      BY <3>2
    <3> HIDE DEF t
    <3>8. DOMAIN mStore' = Scopes /\ mStore'["longterm"] = t /\ mStore'["working"] = mStore["working"]
      BY <1>0, <3>7 DEF Scopes
    <3>9. Limited(mStore'["longterm"], MMaxLong) /\ Limited(mStore'["working"], MMaxWorking + mHeld')
      BY <1>0, <3>1, <3>6, <3>8 DEF Limited
    <3>10. \A q \in Scopes : mStore'[q] \in Seq(Allowed(q, mPurged'))
      BY <1>w, <2>1, <3>6, <3>8 DEF Scopes
    <3> QED BY <1>0, <1>w, <2>1, <3>1, <3>8, <3>9, <3>10 DEF MemoryInv
  <2> QED BY <2>1, <2>2, <2>3
<1>6. ASSUME NEW run \in MRuns, PurgeRun(run) PROVE MemoryInv'
  <2>1. /\ mStore' = [s \in Scopes |-> Unpurged(mStore[s], run)]
        /\ mPurged' = mPurged \cup {run} /\ UNCHANGED <<mWrites, mHeld>>
    BY <1>6 DEF PurgeRun
  <2>2. ASSUME NEW s \in Scopes, NEW n \in Nat, Limited(mStore[s], n)
        PROVE  mStore'[s] \in Seq(Allowed(s, mPurged')) /\ Limited(mStore'[s], n)
    <3>1. /\ mStore'[s] \in Seq({x \in Allowed(s, mPurged) : x.run # run}) /\ Limited(mStore'[s], n)
      BY <1>0, <2>1, <2>2, UnpurgedKeeps
    <3>2. {x \in Allowed(s, mPurged) : x.run # run} \subseteq Allowed(s, mPurged')
      BY <2>1 DEF Allowed
    <3> QED BY <3>1, <3>2, SeqWider
  <2>3. MMaxWorking + mHeld \in Nat
    BY <1>0, <1>c
  <2>4. /\ mStore'["working"] \in Seq(Allowed("working", mPurged')) /\ Limited(mStore'["working"], MMaxWorking + mHeld)
        /\ mStore'["longterm"] \in Seq(Allowed("longterm", mPurged')) /\ Limited(mStore'["longterm"], MMaxLong)
    BY <1>0, <1>c, <2>2, <2>3 DEF Scopes
  <2>5. ASSUME mWrites = 0, NEW s \in Scopes PROVE mStore'[s] = <<>>
    <3>1. mStore[s] = <<>> /\ mStore[s] \in Seq(Allowed(s, mPurged)) /\ mStore'[s] = Unpurged(mStore[s], run)
      BY <1>0, <2>1, <2>5
    <3>2. Unpurged(mStore[s], run) \in Seq(Allowed(s, mPurged)) /\ Len(Unpurged(mStore[s], run)) <= Len(mStore[s])
      BY <3>1, UnpurgedFilters
    <3>3. Len(mStore'[s]) = 0
      BY <3>1, <3>2
    <3> QED BY <3>1, <3>2, <3>3
  <2>6. DOMAIN mStore' = Scopes /\ mPurged' \subseteq MRuns
    BY <1>0, <2>1
  <2> QED BY <1>0, <2>1, <2>4, <2>5, <2>6 DEF MemoryInv, Scopes
<1>7. CASE UNCHANGED memoryVars
  <2>1. UNCHANGED <<mStore, mPurged, mWrites, mHeld>>
    BY <1>7 DEF memoryVars
  <2> QED BY <1>0, <2>1 DEF MemoryInv
<1> QED BY <1>1, <1>2, <1>3, <1>4, <1>5, <1>6, <1>7 DEF MemoryNext

-----------------------------------------------------------------------------
(* What is learned. *)

LearnedRecord == [attempts: Nat, successes: Nat, latency: Nat, failures: Nat]
TenantEnds == [proof: Nat, decisive: Nat, ends: Nat]

\* The counters of a tenant rest on its ends.
CountedFrom(c, n) ==
    /\ c.successes <= n.proof /\ c.attempts <= n.decisive /\ c.latency <= n.ends
    /\ c.successes + c.failures = c.attempts

\* The evaluations rest on the ends of their tenants.
EvaluatedFrom(evals, ends) ==
    /\ evals \in Seq([run: LRuns, success: {"yes", "no", "unknown"}])
    /\ \A i \in 1..Len(evals), t \in LTenants :
          evals[i].success = "yes" /\ LTenantOf[evals[i].run] = t => ends[t].proof > 0

LearnedFrom(rec, evals, ends) ==
    /\ rec \in [LTenants -> LearnedRecord]
    /\ \A t \in LTenants : CountedFrom(rec[t], ends[t])
    /\ EvaluatedFrom(evals, ends)

LearningInv ==
    /\ lEnds \in [LTenants -> TenantEnds]
    /\ LearnedFrom(lRec, lEvals, lEnds)
    /\ LearnedFrom(lDisk.rec, lDisk.evals, lEnds)

\* Nothing is learned at first.
LEMMA LearningInvInit == LearningInit => LearningInv
<1> SUFFICES ASSUME LearningInit PROVE LearningInv
  OBVIOUS
<1>1. /\ lRec = [t \in LTenants |-> [attempts |-> 0, successes |-> 0, latency |-> 0, failures |-> 0]]
      /\ lEnds = [t \in LTenants |-> [proof |-> 0, decisive |-> 0, ends |-> 0]]
      /\ lEvals = <<>> /\ lDisk = Store
  BY DEF LearningInit
<1>2. lEnds \in [LTenants -> TenantEnds] /\ lRec \in [LTenants -> LearnedRecord]
  BY <1>1 DEF TenantEnds, LearnedRecord
<1>3. \A t \in LTenants : CountedFrom(lRec[t], lEnds[t])
  BY <1>1 DEF CountedFrom
<1>4. EvaluatedFrom(lEvals, lEnds)
  BY <1>1 DEF EvaluatedFrom
<1>5. lDisk.rec = lRec /\ lDisk.evals = lEvals
  BY <1>1 DEF Store
<1> QED BY <1>2, <1>3, <1>4, <1>5 DEF LearningInv, LearnedFrom

\* The mean of a rate and a prior below one, in thousandths.
LEMMA MeanBounded ==
  \A s, a, f \in Nat : s + f = a => (1000 * s + 2800) \div (a + 4) \in 0..1000
<1> SUFFICES ASSUME NEW s \in Nat, NEW a \in Nat, NEW f \in Nat, s + f = a
             PROVE  (1000 * s + 2800) \div (a + 4) \in 0..1000
  OBVIOUS
<1> DEFINE x == 1000 * s + 2800
           d == a + 4
<1>1. x \in Nat /\ d \in Nat /\ d > 0 /\ x <= 1000 * d
  OBVIOUS
<1> HIDE DEF x, d
<1>2. x \div d \in 0..1000
  BY <1>1
<1> QED BY <1>2 DEF x, d

\* The prediction from counters of which the successes are attempts is a
\* probability.
LEMMA PredictedBounded ==
  ASSUME NEW r \in LearnedRecord, r.successes + r.failures = r.attempts
  PROVE  Predicted(r) \in 0..1000
<1>1. r.successes \in Nat /\ r.attempts \in Nat /\ r.failures \in Nat
  BY DEF LearnedRecord
<1> DEFINE s == r.successes
           a == r.attempts
           f == r.failures
<1>2. Predicted(r) = (1000 * s + 2800) \div (a + 4)
  BY DEF Predicted
<1>3. s \in Nat /\ a \in Nat /\ f \in Nat /\ s + f = a
  BY <1>1
<1> HIDE DEF s, a, f
<1>4. (1000 * s + 2800) \div (a + 4) \in 0..1000
  BY <1>3, MeanBounded
<1> QED BY <1>2, <1>4

\* What holds of what is learned is what is promised of it.
LEMMA LearningInvSound == LearningInv => LearnedFromEvidence
<1> SUFFICES ASSUME LearningInv, NEW t \in LTenants
             PROVE  /\ lRec[t].successes <= lEnds[t].proof
                    /\ lRec[t].attempts <= lEnds[t].decisive
                    /\ lRec[t].latency <= lEnds[t].ends
                    /\ lRec[t].successes + lRec[t].failures = lRec[t].attempts
                    /\ Predicted(lRec[t]) \in 0..1000
                    /\ \A i \in DOMAIN lEvals :
                          lEvals[i].success = "yes" /\ LTenantOf[lEvals[i].run] = t => lEnds[t].proof > 0
  BY DEF LearnedFromEvidence
<1>1. lRec[t] \in LearnedRecord /\ CountedFrom(lRec[t], lEnds[t]) /\ EvaluatedFrom(lEvals, lEnds)
  BY DEF LearningInv, LearnedFrom
<1>2. Predicted(lRec[t]) \in 0..1000
  BY <1>1, PredictedBounded DEF CountedFrom
<1> QED BY <1>1, <1>2 DEF CountedFrom, EvaluatedFrom

\* An outcome counts as a success on passed tests only, and is decided on
\* decisive evidence only.
LEMMA SuccessNeedsProof ==
  ASSUME NEW completed, NEW tests, NEW fb
  PROVE  /\ TaskSuccess(completed, tests, fb) \in {"yes", "no", "unknown"}
         /\ TaskSuccess(completed, tests, fb) = "yes" => Passed(tests)
         /\ TaskSuccess(completed, tests, fb) # "unknown" =>
              Passed(tests) \/ Failed(tests) \/ ~completed \/ fb.signal = "negative"
BY DEF TaskSuccess

\* The ends of a tenant after one more.
EndsOf(n, p, d) == [proof |-> n.proof + p, decisive |-> n.decisive + d, ends |-> n.ends + 1]

\* One end of a run of a tenant.
LEMMA RecordedCounts ==
  ASSUME NEW c \in LearnedRecord, NEW n \in TenantEnds, CountedFrom(c, n),
         NEW u \in {"yes", "no", "unknown"}, NEW p \in {0, 1}, NEW d \in {0, 1},
         u = "yes" => p = 1, u # "unknown" => d = 1
  PROVE  /\ Recorded(c, u) \in LearnedRecord /\ EndsOf(n, p, d) \in TenantEnds
         /\ CountedFrom(Recorded(c, u), EndsOf(n, p, d))
         /\ (u = "yes" => EndsOf(n, p, d).proof > 0)
         /\ n.proof <= EndsOf(n, p, d).proof /\ n.decisive <= EndsOf(n, p, d).decisive
         /\ n.ends <= EndsOf(n, p, d).ends
<1>1. /\ c.attempts \in Nat /\ c.successes \in Nat /\ c.latency \in Nat /\ c.failures \in Nat
      /\ n.proof \in Nat /\ n.decisive \in Nat /\ n.ends \in Nat
  BY DEF LearnedRecord, TenantEnds
<1> DEFINE m == EndsOf(n, p, d)
           q == Recorded(c, u)
<1>2. /\ m \in TenantEnds /\ m.proof = n.proof + p /\ m.decisive = n.decisive + d /\ m.ends = n.ends + 1
  BY <1>1 DEF TenantEnds, EndsOf
<1> HIDE DEF m
<1>4. /\ q.attempts = c.attempts + (IF u = "unknown" THEN 0 ELSE 1)
      /\ q.successes = c.successes + (IF u = "yes" THEN 1 ELSE 0)
      /\ q.latency = c.latency + 1
      /\ q.failures = c.failures + (IF u = "no" THEN 1 ELSE 0)
      /\ q \in LearnedRecord
  BY <1>1 DEF Recorded, LearnedRecord
<1> HIDE DEF q
<1>5. CountedFrom(q, m)
  BY <1>1, <1>2, <1>4 DEF CountedFrom
<1>6. /\ (u = "yes" => m.proof > 0)
      /\ n.proof <= m.proof /\ n.decisive <= m.decisive /\ n.ends <= m.ends
  BY <1>1, <1>2
<1> QED BY <1>2, <1>4, <1>5, <1>6 DEF q, m

\* The ends of the tenants only grow.
Grown(ends, later) ==
    \A t \in LTenants : /\ ends[t].proof <= later[t].proof /\ ends[t].decisive <= later[t].decisive
                        /\ ends[t].ends <= later[t].ends

\* What rests on some ends rests on more of them.
LEMMA GrownKeeps ==
  ASSUME NEW ends \in [LTenants -> TenantEnds], NEW later \in [LTenants -> TenantEnds],
         Grown(ends, later), NEW rec, NEW evals, LearnedFrom(rec, evals, ends)
  PROVE  LearnedFrom(rec, evals, later)
<1>1. ASSUME NEW t \in LTenants PROVE CountedFrom(rec[t], later[t])
  <2>1. /\ rec[t] \in LearnedRecord /\ CountedFrom(rec[t], ends[t])
        /\ ends[t] \in TenantEnds /\ later[t] \in TenantEnds
        /\ ends[t].proof <= later[t].proof /\ ends[t].decisive <= later[t].decisive
        /\ ends[t].ends <= later[t].ends
    BY <1>1 DEF LearnedFrom, Grown
  <2> QED BY <2>1 DEF CountedFrom, LearnedRecord, TenantEnds
<1>2. EvaluatedFrom(evals, later)
  <2>1. ASSUME NEW t \in LTenants, ends[t].proof > 0 PROVE later[t].proof > 0
    <3>1. ends[t].proof \in Nat /\ later[t].proof \in Nat /\ ends[t].proof <= later[t].proof
      BY <2>1 DEF TenantEnds, Grown
    <3> QED BY <2>1, <3>1
  <2>2. EvaluatedFrom(evals, ends)
    BY DEF LearnedFrom
  <2> QED BY <2>1, <2>2, Zenon DEF EvaluatedFrom
<1> QED BY <1>1, <1>2 DEF LearnedFrom

\* A list of evaluations stays within what the ends prove when one joins it, and
\* when the oldest leaves.
LEMMA EvaluatedLonger ==
  ASSUME NEW ends, NEW evals, EvaluatedFrom(evals, ends), NEW run \in LRuns,
         NEW u \in {"yes", "no", "unknown"},
         \A t \in LTenants : u = "yes" /\ LTenantOf[run] = t => ends[t].proof > 0
  PROVE  /\ EvaluatedFrom(Append(evals, [run |-> run, success |-> u]), ends)
         /\ EvaluatedFrom(Tail(Append(evals, [run |-> run, success |-> u])), ends)
<1> DEFINE e == [run |-> run, success |-> u]
           list == Append(evals, e)
           n == Len(evals)
           Rests(x) == \A t \in LTenants : x.success = "yes" /\ LTenantOf[x.run] = t => ends[t].proof > 0
           E == [run: LRuns, success: {"yes", "no", "unknown"}]
<1>1. evals \in Seq(E) /\ n \in Nat /\ \A i \in 1..n : Rests(evals[i])
  BY DEF EvaluatedFrom
<1>2. Rests(e) /\ e \in E
  OBVIOUS
<1> HIDE DEF e, Rests, E
<1>4. /\ list \in Seq(E) /\ Len(list) = n + 1
      /\ \A i \in 1..(n + 1) : list[i] = IF i = n + 1 THEN e ELSE evals[i]
  BY <1>1, <1>2, AppendProperties
<1> HIDE DEF n
<1>5. \A i \in 1..(n + 1) : Rests(list[i])
  <2> SUFFICES ASSUME NEW i \in 1..(n + 1) PROVE Rests(list[i])
    OBVIOUS
  <2>1. CASE i = n + 1
    BY <1>2, <1>4, <2>1
  <2>2. CASE i # n + 1
    <3>1. i \in 1..n
      BY <1>1, <2>2
    <3> QED BY <1>1, <1>4, <2>2, <3>1
  <2> QED BY <2>1, <2>2
<1>6. EvaluatedFrom(list, ends)
  BY <1>4, <1>5 DEF EvaluatedFrom, Rests, E
<1> HIDE DEF list
<1>7. /\ Tail(list) \in Seq(E) /\ Len(Tail(list)) = n
      /\ \A i \in 1..n : Tail(list)[i] = list[i + 1]
  <2>1. list # <<>>
    BY <1>1, <1>4
  <2> QED BY <1>1, <1>4, <2>1, HeadTailProperties
<1>8. \A i \in 1..n : Rests(Tail(list)[i])
  <2>1. \A i \in 1..n : i + 1 \in 1..(n + 1)
    BY <1>1
  <2> QED BY <1>5, <1>7, <2>1
<1>9. EvaluatedFrom(Tail(list), ends)
  BY <1>7, <1>8 DEF EvaluatedFrom, Rests, E
<1> QED BY <1>6, <1>9 DEF list, e

\* One end of a run: what was learned before and what is learned of it rests on
\* the ends of the tenants.
LEMMA IngestKeeps ==
  ASSUME LearningInv, NEW run \in LRuns, NEW completed \in BOOLEAN, NEW tests,
         IngestRunOutcome(run, completed, tests), UNCHANGED lDisk
  PROVE  LearningInv'
<1> DEFINE t == LTenantOf[run]
           u == TaskSuccess(completed, tests, lFb[run])
           p == IF Passed(tests) THEN 1 ELSE 0
           d == IF Passed(tests) \/ Failed(tests) \/ ~completed \/ lFb[run].signal = "negative" THEN 1 ELSE 0
           more == EndsOf(lEnds[t], p, d)
           list == Append(lEvals, [run |-> run, success |-> u])
<1>0. /\ lEnds \in [LTenants -> TenantEnds] /\ lRec \in [LTenants -> LearnedRecord]
      /\ LearnedFrom(lRec, lEvals, lEnds) /\ LearnedFrom(lDisk.rec, lDisk.evals, lEnds)
      /\ \A q \in LTenants : CountedFrom(lRec[q], lEnds[q])
  BY DEF LearningInv, LearnedFrom
<1>1. /\ lRec' = [lRec EXCEPT ![t] = Recorded(lRec[t], u)]
      /\ lEvals' = IF Len(list) > LMaxEvals THEN Tail(list) ELSE list
      /\ lEnds' = [lEnds EXCEPT ![t] = more]
  BY DEF IngestRunOutcome, EndsOf
<1>2. /\ u \in {"yes", "no", "unknown"} /\ p \in {0, 1} /\ d \in {0, 1}
      /\ (u = "yes" => p = 1) /\ (u # "unknown" => d = 1)
  BY SuccessNeedsProof
<1> HIDE DEF u, p, d
<1>3. ASSUME t \in LTenants
      PROVE  /\ Recorded(lRec[t], u) \in LearnedRecord /\ more \in TenantEnds
             /\ CountedFrom(Recorded(lRec[t], u), more)
             /\ u = "yes" => more.proof > 0
             /\ lEnds[t].proof <= more.proof /\ lEnds[t].decisive <= more.decisive
             /\ lEnds[t].ends <= more.ends
  <2>1. lRec[t] \in LearnedRecord /\ lEnds[t] \in TenantEnds /\ CountedFrom(lRec[t], lEnds[t])
    BY <1>0, <1>3
  <2> HIDE DEF t
  <2> QED BY <1>2, <2>1, RecordedCounts
<1> HIDE DEF more
<1>4. /\ lEnds' \in [LTenants -> TenantEnds] /\ lRec' \in [LTenants -> LearnedRecord]
      /\ \A q \in LTenants : q # t => lEnds'[q] = lEnds[q] /\ lRec'[q] = lRec[q]
      /\ t \in LTenants => lEnds'[t] = more /\ lRec'[t] = Recorded(lRec[t], u)
  <2> HIDE DEF t
  <2>1. CASE t \in LTenants
    BY <1>0, <1>1, <1>3, <2>1 DEF t
  <2>2. CASE t \notin LTenants
    <3>1. lEnds' = lEnds /\ lRec' = lRec
      BY <1>0, <1>1, <2>2
    <3> QED BY <1>0, <2>2, <3>1
  <2> QED BY <2>1, <2>2
<1>5. Grown(lEnds, lEnds')
  <2> SUFFICES ASSUME NEW q \in LTenants
               PROVE  /\ lEnds[q].proof <= lEnds'[q].proof /\ lEnds[q].decisive <= lEnds'[q].decisive
                      /\ lEnds[q].ends <= lEnds'[q].ends
    BY DEF Grown
  <2>1. CASE q = t
    BY <1>3, <1>4, <2>1
  <2>2. CASE q # t
    <3>1. lEnds'[q] = lEnds[q] /\ lEnds[q].proof \in Nat /\ lEnds[q].decisive \in Nat /\ lEnds[q].ends \in Nat
      BY <1>0, <1>4, <2>2 DEF TenantEnds
    <3> QED BY <3>1
  <2> QED BY <2>1, <2>2
<1>6. LearnedFrom(lRec, lEvals, lEnds') /\ LearnedFrom(lDisk.rec, lDisk.evals, lEnds')
  BY <1>0, <1>4, <1>5, GrownKeeps
<1>7. ASSUME NEW q \in LTenants PROVE CountedFrom(lRec'[q], lEnds'[q])
  <2>1. CASE q = t
    BY <1>3, <1>4, <1>7, <2>1
  <2>2. CASE q # t
    BY <1>0, <1>4, <1>7, <2>2
  <2> QED BY <2>1, <2>2
<1>8. EvaluatedFrom(lEvals', lEnds')
  <2>1. EvaluatedFrom(lEvals, lEnds')
    BY <1>6 DEF LearnedFrom
  <2>2. \A q \in LTenants : u = "yes" /\ LTenantOf[run] = q => lEnds'[q].proof > 0
    BY <1>3, <1>4
  <2>3. EvaluatedFrom(list, lEnds') /\ EvaluatedFrom(Tail(list), lEnds')
    BY <1>2, <2>1, <2>2, EvaluatedLonger
  <2> QED BY <1>1, <2>3
<1>9. lDisk' = lDisk
  OBVIOUS
<1> QED BY <1>4, <1>6, <1>7, <1>8, <1>9 DEF LearningInv, LearnedFrom

\* Ends, feedback, saves and restarts in any order keep it so.
LEMMA LearningInvStep == LearningInv /\ [LearningNext]_learningVars => LearningInv'
<1> SUFFICES ASSUME LearningInv, [LearningNext]_learningVars PROVE LearningInv'
  OBVIOUS
<1>0. /\ lEnds \in [LTenants -> TenantEnds]
      /\ LearnedFrom(lRec, lEvals, lEnds) /\ LearnedFrom(lDisk.rec, lDisk.evals, lEnds)
  BY DEF LearningInv
<1>1. CASE SaveIntelligence
  <2>1. lDisk'.rec = lRec /\ lDisk'.evals = lEvals /\ UNCHANGED <<lRec, lEvals, lEnds>>
    BY <1>1 DEF SaveIntelligence, Store
  <2> QED BY <1>0, <2>1 DEF LearningInv
<1>2. CASE LoadIntelligence
  <2>1. lRec' = lDisk.rec /\ lEvals' = lDisk.evals /\ UNCHANGED <<lDisk, lEnds>>
    BY <1>2 DEF LoadIntelligence
  <2> QED BY <1>0, <2>1 DEF LearningInv
<1>3. ASSUME NEW r \in LRuns, RecordRunEnd(r) PROVE LearningInv'
  BY <1>3, IngestKeeps DEF RecordRunEnd
<1>4. ASSUME NEW r \in LRuns, RecordFeedback(r) PROVE LearningInv'
  <2>1. UNCHANGED <<lRec, lEvals, lEnds>>
    BY <1>4 DEF RecordFeedback
  <2>2. CASE lDisk' = lDisk
    BY <1>0, <2>1, <2>2 DEF LearningInv
  <2>3. CASE lDisk' = [Store EXCEPT !.fb = lFb']
    <3>1. lDisk'.rec = lRec /\ lDisk'.evals = lEvals
      BY <2>3 DEF Store
    <3> QED BY <1>0, <2>1, <3>1 DEF LearningInv
  <2> QED BY <1>4, <2>2, <2>3 DEF RecordFeedback
<1>5. CASE UNCHANGED learningVars
  <2>1. UNCHANGED <<lRec, lEvals, lEnds, lDisk>>
    BY <1>5 DEF learningVars
  <2> QED BY <1>0, <2>1 DEF LearningInv
<1> QED BY <1>1, <1>2, <1>3, <1>4, <1>5 DEF LearningNext

-----------------------------------------------------------------------------
(* The user's constraints. *)

\* A tool's write that heeds the user, as the gate understands paths.
GateKept(w) ==
    w.how = "tool" =>
       /\ w.path \in QPaths /\ w.asked \subseteq QPaths /\ w.scope \subseteq QPaths
       /\ \A f \in w.asked : ~Under(w.path, f)
       /\ w.scope # {} => \E f \in w.scope : WithinScope(w.path, f)

\* What was forbidden while there was room is in the list, the paths a run is
\* limited to are of those the user named, and what the user said only grows
\* under a write that is past its gate.
ConstraintInv ==
    /\ qForbid \in Seq(QPaths) /\ qOnly \in Seq(QPaths) /\ Len(qOnly) <= QLimit
    /\ qAsked \subseteq ToSet(qForbid)
    /\ ToSet(qOnly) \subseteq qScope /\ (qScope # {} => qOnly # <<>>)
    /\ qAsked \subseteq QPaths /\ qScope \subseteq QPaths
    /\ GateKept(qGate) /\ GateKept(qWrote)

\* Nothing is asked at first.
LEMMA ConstraintInvInit == PlansInit => ConstraintInv
<1> SUFFICES ASSUME PlansInit PROVE ConstraintInv
  OBVIOUS
<1>1. ToSet(qOnly) = {} /\ Len(qOnly) = 0
  BY DEF PlansInit, ToSet
<1> QED BY <1>1, PlansAssumption DEF PlansInit, ConstraintInv, GateKept, NoWrite

\* A list keeps its paths, takes the new one while there is room, and is not
\* empty afterwards.
LEMMA KeptKeeps ==
  ASSUME NEW list \in Seq(QPaths), NEW p \in QPaths
  PROVE  /\ Kept(list, p) \in Seq(QPaths)
         /\ ToSet(list) \subseteq ToSet(Kept(list, p))
         /\ ToSet(Kept(list, p)) \subseteq ToSet(list) \cup {p}
         /\ Len(list) < QLimit => p \in ToSet(Kept(list, p))
         /\ Len(list) <= QLimit => Len(Kept(list, p)) <= QLimit
         /\ Kept(list, p) # <<>>
<1>0. QLimit \in Nat \ {0}
  BY PlansAssumption
<1>1. CASE p \in ToSet(list) \/ Len(list) >= QLimit
  <2>1. Kept(list, p) = list
    BY <1>1 DEF Kept
  <2>2. list # <<>>
    BY <1>0, <1>1 DEF ToSet
  <2> QED BY <1>0, <1>1, <2>1, <2>2
<1>2. CASE p \notin ToSet(list) /\ Len(list) < QLimit
  <2>1. Kept(list, p) = Append(list, p)
    BY <1>0, <1>2 DEF Kept
  <2>2. /\ Append(list, p) \in Seq(QPaths) /\ Len(Append(list, p)) = Len(list) + 1
        /\ \A i \in 1..Len(list) : Append(list, p)[i] = list[i]
        /\ Append(list, p)[Len(list) + 1] = p
        /\ DOMAIN list = 1..Len(list) /\ DOMAIN Append(list, p) = 1..(Len(list) + 1)
    OBVIOUS
  <2>3. ToSet(Append(list, p)) = ToSet(list) \cup {p}
    BY <2>2 DEF ToSet
  <2>4. Append(list, p) # <<>>
    BY <2>2
  <2> QED BY <1>0, <1>2, <2>1, <2>2, <2>3, <2>4
<1> QED BY <1>0, <1>1, <1>2

\* Every step keeps the constraints.
LEMMA ConstraintInvStep ==
  ASSUME ConstraintInv, ConstraintNext \/ UNCHANGED constraintPart
  PROVE  ConstraintInv'
<1>0. qForbid \in Seq(QPaths) /\ qOnly \in Seq(QPaths) /\ QLimit \in Nat \ {0}
  BY PlansAssumption DEF ConstraintInv
<1>1. CASE UserCommand
  <2>1. PICK kind \in {"forbid", "only"}, p \in QPaths :
          /\ ApplyCommand(kind, p)
          /\ qAsked' = IF kind = "forbid" /\ Len(qForbid) < QLimit THEN qAsked \cup {p} ELSE qAsked
          /\ qScope' = IF kind = "only" THEN qScope \cup {p} ELSE qScope
    BY <1>1 DEF UserCommand
  <2>2. qGate' = qGate /\ qWrote' = qWrote
    BY <1>1 DEF UserCommand
  <2>3. CASE kind = "forbid"
    <3>1. qForbid' = Kept(qForbid, p) /\ qOnly' = qOnly /\ qScope' = qScope
      BY <2>1, <2>3 DEF ApplyCommand
    <3>2. qAsked' \subseteq ToSet(qForbid')
      BY <1>0, <2>1, <2>3, <3>1, KeptKeeps DEF ConstraintInv
    <3>3. qAsked' \subseteq QPaths
      BY <2>1 DEF ConstraintInv
    <3> QED BY <1>0, <2>2, <3>1, <3>2, <3>3, KeptKeeps DEF ConstraintInv
  <2>4. CASE kind = "only"
    <3>1. qForbid' = qForbid /\ qOnly' = Kept(qOnly, p) /\ qScope' = qScope \cup {p} /\ qAsked' = qAsked
      BY <2>1, <2>4 DEF ApplyCommand
    <3>2. ToSet(qOnly') \subseteq qScope' /\ qOnly' # <<>> /\ qOnly' \in Seq(QPaths) /\ Len(qOnly') <= QLimit
      BY <1>0, <3>1, KeptKeeps DEF ConstraintInv
    <3> QED BY <1>0, <2>2, <3>1, <3>2 DEF ConstraintInv
  <2> QED BY <2>1, <2>3, <2>4
<1>2. CASE GateWrite
  <2>1. PICK p \in QPaths : CheckWrite(p) /\ qGate' = Write("tool", p)
    BY <1>2 DEF GateWrite
  <2>2. UNCHANGED <<qForbid, qOnly, qAsked, qScope, qWrote>>
    BY <1>2 DEF GateWrite
  <2>3. \A f \in qAsked : ~Under(p, f)
    BY <2>1 DEF CheckWrite, ConstraintInv, ToSet
  <2>4. qScope # {} => \E f \in qScope : WithinScope(p, f)
    BY <2>1 DEF CheckWrite, ConstraintInv, ToSet
  <2>5. GateKept(Write("tool", p))
    BY <2>3, <2>4 DEF GateKept, Write, ConstraintInv
  <2> QED BY <2>1, <2>2, <2>5 DEF ConstraintInv
<1>3. CASE WriteDone
  <2>1. GateKept(NoWrite)
    BY DEF GateKept, NoWrite
  <2> QED BY <1>3, <2>1 DEF WriteDone, ConstraintInv
<1>5. CASE ChangesetWritten
  <2>1. PICK p \in QPaths : qWrote' = Write("changeset", p)
    BY <1>5 DEF ChangesetWritten
  <2>2. GateKept(Write("changeset", p))
    BY DEF GateKept, Write
  <2> QED BY <1>5, <2>1, <2>2 DEF ChangesetWritten, ConstraintInv
<1>4. CASE UNCHANGED constraintPart
  BY <1>4 DEF constraintPart, ConstraintInv
<1> QED BY <1>1, <1>2, <1>3, <1>4, <1>5 DEF ConstraintNext

\* Between plain paths the texts tell where they lead.
LEMMA ConstraintInvHeeds == ConstraintInv => UserInCharge
<1> SUFFICES ASSUME ConstraintInv, qWrote.how = "tool", qWrote.path \in QPlain
             PROVE  /\ \A f \in qWrote.asked \cap QPlain : <<qWrote.path, f>> \notin QBeneath
                    /\ qWrote.scope # {} =>
                          \E f \in qWrote.scope : <<qWrote.path, f>> \in QBeneath \cup QEnds
                                                 \/ <<f, qWrote.path>> \in QEnds
  BY DEF UserInCharge
<1>1. /\ qWrote.asked \subseteq QPaths /\ qWrote.scope \subseteq QPaths
      /\ \A f \in qWrote.asked : ~Under(qWrote.path, f)
      /\ qWrote.scope # {} => \E f \in qWrote.scope : WithinScope(qWrote.path, f)
  BY DEF ConstraintInv, GateKept
<1>2. \A f \in QPaths : <<qWrote.path, f>> \in QInside => <<qWrote.path, f>> \in QBeneath
  BY PathsAssumption
<1>3. ASSUME NEW f \in qWrote.asked \cap QPlain PROVE <<qWrote.path, f>> \notin QBeneath
  BY <1>1, PathsAssumption DEF Under
<1>4. ASSUME qWrote.scope # {}
      PROVE  \E f \in qWrote.scope : <<qWrote.path, f>> \in QBeneath \cup QEnds
                                     \/ <<f, qWrote.path>> \in QEnds
  <2>1. PICK f \in qWrote.scope : WithinScope(qWrote.path, f)
    BY <1>1, <1>4
  <2> QED BY <1>1, <1>2, <2>1 DEF WithinScope, Under
<1> QED BY <1>3, <1>4

-----------------------------------------------------------------------------
(* The plan. *)

\* While no dependencies were replaced, a step depends on earlier steps only,
\* or (0) on one that is not in the plan.
PlanStep == [status: StepStatus, deps: SUBSET Nat]
PlanInv ==
    /\ qSteps \in Seq(PlanStep) /\ qRewired \in BOOLEAN
    /\ ~qRewired => \A i \in DOMAIN qSteps : qSteps[i].deps \subseteq 0..(i - 1)

\* There is no plan at first.
LEMMA PlanInvInit == PlansInit => PlanInv
<1> SUFFICES ASSUME PlansInit PROVE PlanInv
  OBVIOUS
<1>1. qSteps = <<>> /\ qRewired = FALSE /\ DOMAIN qSteps = {}
  BY DEF PlansInit
<1>2. qSteps \in Seq(PlanStep)
  BY <1>1
<1>3. \A i \in DOMAIN qSteps : qSteps[i].deps \subseteq 0..(i - 1)
  BY <1>1
<1> QED BY <1>1, <1>2, <1>3 DEF PlanInv

\* A new step is pending.
LEMMA NewStepTyped ==
  ASSUME NEW d \in SUBSET Nat
  PROVE  NewStep(d) \in PlanStep /\ NewStep(d).deps = d
BY DEF NewStep, StepStatus, PlanStep

\* Every step of the client keeps the plan.
LEMMA PlanInvStep ==
  ASSUME PlanInv, PlanNext \/ UNCHANGED planPart
  PROVE  PlanInv'
<1>0. qSteps \in Seq(PlanStep) /\ DOMAIN qSteps = 1..Len(qSteps) /\ Len(qSteps) \in Nat
  BY DEF PlanInv
<1>1. CASE CreatePlan
  <2>0. PICK n \in 1..QMaxSteps : \E old \in SUBSET (1..n) :
           qSteps' = [i \in 1..n |-> NewStep(IF i \in old THEN {0} ELSE {})] /\ qRewired' = FALSE
    BY <1>1 DEF CreatePlan
  <2>1. PICK old \in SUBSET (1..n) :
           qSteps' = [i \in 1..n |-> NewStep(IF i \in old THEN {0} ELSE {})] /\ qRewired' = FALSE
    BY <2>0
  <2>2. n \in Nat
    BY PlansAssumption
  <2>3. \A i \in 1..n : qSteps'[i] \in PlanStep /\ qSteps'[i].deps \subseteq {0}
    BY <2>1, NewStepTyped
  <2>4. qSteps' \in Seq(PlanStep) /\ DOMAIN qSteps' = 1..n
    BY <2>1, <2>2, <2>3
  <2>5. \A i \in DOMAIN qSteps' : qSteps'[i].deps \subseteq 0..(i - 1)
    <3> SUFFICES ASSUME NEW i \in 1..n PROVE qSteps'[i].deps \subseteq 0..(i - 1)
      BY <2>4
    <3>1. 0 \in 0..(i - 1)
      BY <2>2
    <3> QED BY <2>3, <3>1
  <2> QED BY <2>1, <2>4, <2>5 DEF PlanInv
<1>2. CASE AdaptPlan
  <2>1. CASE \E i \in DOMAIN qSteps, d \in SUBSET DOMAIN qSteps :
                ~qRewired /\ qSteps' = [qSteps EXCEPT ![i].deps = d] /\ qRewired' = TRUE
    <3>1. PICK i \in DOMAIN qSteps, d \in SUBSET DOMAIN qSteps :
                qSteps' = [qSteps EXCEPT ![i].deps = d] /\ qRewired' = TRUE
      BY <2>1
    <3>2. d \in SUBSET Nat
      BY <1>0
    <3>3. [qSteps[i] EXCEPT !.deps = d] \in PlanStep
      <4>1. qSteps[i] \in PlanStep
        BY <1>0
      <4> QED BY <3>2, <4>1 DEF PlanStep
    <3>4. qSteps' \in Seq(PlanStep)
      BY <1>0, <3>1, <3>3
    <3> QED BY <3>1, <3>4 DEF PlanInv
  <2>2. CASE \E skip \in SUBSET {i \in DOMAIN qSteps : qSteps[i].status = "PENDING"} :
                /\ qSteps' = [i \in DOMAIN qSteps |->
                      IF i \in skip THEN [qSteps[i] EXCEPT !.status = "SKIPPED"] ELSE qSteps[i]]
                /\ UNCHANGED qRewired
    <3>1. PICK skip \in SUBSET DOMAIN qSteps :
             /\ qSteps' = [i \in DOMAIN qSteps |->
                   IF i \in skip THEN [qSteps[i] EXCEPT !.status = "SKIPPED"] ELSE qSteps[i]]
             /\ UNCHANGED qRewired
      BY <2>2
    <3>2. \A i \in 1..Len(qSteps) : qSteps[i] \in PlanStep
      BY <1>0
    <3>3. \A i \in 1..Len(qSteps) : qSteps'[i] \in PlanStep /\ qSteps'[i].deps = qSteps[i].deps
      BY <1>0, <3>1, <3>2 DEF StepStatus, PlanStep
    <3>4. qSteps' \in Seq(PlanStep) /\ DOMAIN qSteps' = DOMAIN qSteps
      BY <1>0, <3>1, <3>3
    <3> QED BY <1>0, <3>1, <3>3, <3>4 DEF PlanInv
  <2>3. CASE \E d \in SUBSET (0..Len(qSteps)) : qSteps' = Append(qSteps, NewStep(d)) /\ UNCHANGED qRewired
    <3>1. PICK d \in SUBSET (0..Len(qSteps)) : qSteps' = Append(qSteps, NewStep(d)) /\ UNCHANGED qRewired
      BY <2>3
    <3>2. d \in SUBSET Nat
      BY <1>0
    <3>3. NewStep(d) \in PlanStep /\ NewStep(d).deps = d
      BY <3>2, NewStepTyped
    <3>4. /\ qSteps' \in Seq(PlanStep) /\ DOMAIN qSteps' = 1..(Len(qSteps) + 1)
          /\ \A i \in 1..Len(qSteps) : qSteps'[i] = qSteps[i]
          /\ qSteps'[Len(qSteps) + 1] = NewStep(d)
      BY <1>0, <3>1, <3>3
    <3>5. d \subseteq 0..((Len(qSteps) + 1) - 1)
      BY <1>0
    <3>6. ASSUME ~qRewired, NEW i \in DOMAIN qSteps' PROVE qSteps'[i].deps \subseteq 0..(i - 1)
      <4>1. CASE i \in 1..Len(qSteps)
        BY <1>0, <3>4, <3>6, <4>1 DEF PlanInv
      <4>2. CASE i = Len(qSteps) + 1
        BY <3>3, <3>4, <3>5, <4>2
      <4> QED BY <1>0, <3>4, <4>1, <4>2
    <3>7. qRewired' \in BOOLEAN
      BY <3>1 DEF PlanInv
    <3> QED BY <3>1, <3>4, <3>6, <3>7 DEF PlanInv
  <2> QED BY <1>2, <2>1, <2>2, <2>3 DEF AdaptPlan
<1>3. CASE SetStatus
  <2>1. PICK i \in DOMAIN qSteps, s \in StepStatus : qSteps' = [qSteps EXCEPT ![i].status = s]
    BY <1>3 DEF SetStatus
  <2>2. \A x \in 1..Len(qSteps) : qSteps[x] \in PlanStep
    BY <1>0
  <2>3. [qSteps[i] EXCEPT !.status = s] \in PlanStep /\ [qSteps[i] EXCEPT !.status = s].deps = qSteps[i].deps
    BY <1>0, <2>2 DEF PlanStep
  <2>4. /\ qSteps' \in Seq(PlanStep) /\ DOMAIN qSteps' = DOMAIN qSteps
        /\ \A x \in 1..Len(qSteps) : qSteps'[x].deps = qSteps[x].deps
    BY <1>0, <2>1, <2>3
  <2>5. qRewired' = qRewired
    BY <1>3 DEF SetStatus
  <2> QED BY <1>0, <2>4, <2>5 DEF PlanInv
<1>4. CASE UNCHANGED planPart
  BY <1>4 DEF planPart, PlanInv
<1> QED BY <1>1, <1>2, <1>3, <1>4 DEF PlanNext

\* A plan whose steps depend on earlier ones moves: the first pending step is
\* ready, or waits for a step that was skipped or is not in the plan.
LEMMA PlanInvMoves == PlanInv => PlanMoves
<1> SUFFICES ASSUME PlanInv, ~qRewired, ~IsComplete, qSteps # <<>>,
                    \A i \in DOMAIN qSteps : qSteps[i].status \notin {"RUNNING", "FAILED", "BLOCKED", "OTHER"},
                    \A i \in DOMAIN qSteps : \A d \in qSteps[i].deps : d # 0 /\ qSteps[d].status # "SKIPPED"
             PROVE  ReadySteps # {}
  BY DEF PlanMoves
<1>0. qSteps \in Seq(PlanStep) /\ DOMAIN qSteps = 1..Len(qSteps) /\ Len(qSteps) \in Nat
  BY DEF PlanInv
<1>1. \A i \in DOMAIN qSteps : qSteps[i] \in PlanStep /\ qSteps[i].status \in StepStatus /\ qSteps[i].deps \subseteq Nat
  <2>1. \A i \in DOMAIN qSteps : qSteps[i] \in PlanStep
    BY <1>0
  <2> QED BY <2>1 DEF PlanStep
<1> DEFINE T == {i \in DOMAIN qSteps : qSteps[i].status = "PENDING"}
<1>2. T # {} /\ T \subseteq Nat
  BY <1>0, <1>1 DEF IsComplete, StepStatus
<1>3. PICK n \in T : \A m \in T : n <= m
  BY <1>2, LeastNat
<1>4. ASSUME NEW d \in qSteps[n].deps PROVE d \in DOMAIN qSteps /\ qSteps[d].status = "COMPLETED"
  <2>1. d \in Nat /\ d < n /\ d # 0 /\ n \in 1..Len(qSteps) /\ qSteps[d].status # "SKIPPED"
    BY <1>0, <1>1, <1>3 DEF PlanInv
  <2>2. d \in DOMAIN qSteps /\ d \notin T
    BY <1>0, <1>3, <2>1
  <2> QED BY <1>1, <2>1, <2>2 DEF StepStatus
<1>5. n \in ReadySteps
  BY <1>3, <1>4 DEF ReadySteps
<1> QED BY <1>5

-----------------------------------------------------------------------------
(* The episodes. *)

\* The episodes form a chain of which only the last may be open.
Episode == [status: {"RUNNING", "FAILED", "COMPLETED"}, parent: Nat]
EpisodeInv ==
    /\ qEpisodes \in Seq(Episode)
    /\ EpisodesSound

\* There is no episode at first.
LEMMA EpisodeInvInit == PlansInit => EpisodeInv
BY DEF PlansInit, EpisodeInv, EpisodesSound, Running

\* Starts, ends, retries and continuations keep the chain.
LEMMA EpisodeInvStep ==
  ASSUME EpisodeInv, EpisodeNext \/ UNCHANGED episodePart
  PROVE  EpisodeInv'
<1>0. /\ qEpisodes \in Seq(Episode) /\ DOMAIN qEpisodes = 1..Len(qEpisodes) /\ Len(qEpisodes) \in Nat
      /\ \A i \in 1..Len(qEpisodes) : qEpisodes[i] \in Episode
  BY DEF EpisodeInv
<1>1. CASE UNCHANGED qEpisodes
  BY <1>1 DEF EpisodeInv, EpisodesSound, Running
<1>2. CASE qEpisodes = <<>> /\ qEpisodes' = <<NewEpisode>>
  <2>1. /\ qEpisodes' \in Seq(Episode) /\ Len(qEpisodes') = 1 /\ DOMAIN qEpisodes' = {1}
        /\ qEpisodes'[1].parent = 0
    BY <1>0, <1>2 DEF NewEpisode, Episode
  <2> QED BY <2>1 DEF EpisodeInv, EpisodesSound, Running
<1>3. CASE ContinueEpisode
  <2> DEFINE last == Len(qEpisodes)
             closed == IF last > 0 /\ qEpisodes[last].status = "RUNNING"
                       THEN [qEpisodes EXCEPT ![last].status =
                                IF qRun = "failed" THEN "FAILED" ELSE "COMPLETED"]
                       ELSE qEpisodes
  <2>1. qEpisodes' = Append(closed, NewEpisode)
    BY <1>3 DEF ContinueEpisode
  <2>2. NewEpisode \in Episode /\ NewEpisode.parent = Len(qEpisodes)
    BY <1>0 DEF NewEpisode, Episode
  <2>3. /\ closed \in Seq(Episode) /\ Len(closed) = Len(qEpisodes)
        /\ \A i \in 1..Len(qEpisodes) : closed[i].parent = qEpisodes[i].parent /\ closed[i].status # "RUNNING"
    <3>1. \A i \in 1..Len(qEpisodes) : i # last => qEpisodes[i].status # "RUNNING"
      BY <1>0 DEF EpisodeInv, EpisodesSound, Running
    <3>2. CASE last > 0 /\ qEpisodes[last].status = "RUNNING"
      <4>1. ASSUME NEW e \in {"FAILED", "COMPLETED"}
            PROVE  [qEpisodes[last] EXCEPT !.status = e] \in Episode
                   /\ [qEpisodes[last] EXCEPT !.status = e].parent = qEpisodes[last].parent
                   /\ [qEpisodes[last] EXCEPT !.status = e].status = e
        BY <1>0, <3>2 DEF Episode
      <4>2. closed = [qEpisodes EXCEPT ![last] = [qEpisodes[last] EXCEPT !.status =
                                IF qRun = "failed" THEN "FAILED" ELSE "COMPLETED"]]
        BY <3>2
      <4> QED BY <1>0, <3>1, <4>1, <4>2
    <3>3. CASE ~(last > 0 /\ qEpisodes[last].status = "RUNNING")
      BY <1>0, <3>1, <3>3
    <3> QED BY <3>2, <3>3
  <2> HIDE DEF closed
  <2>4. /\ qEpisodes' \in Seq(Episode) /\ Len(qEpisodes') = Len(qEpisodes) + 1
        /\ DOMAIN qEpisodes' = 1..(Len(qEpisodes) + 1)
        /\ \A i \in 1..Len(qEpisodes) : qEpisodes'[i] = closed[i]
        /\ qEpisodes'[Len(qEpisodes) + 1] = NewEpisode
    BY <1>0, <2>1, <2>2, <2>3
  <2>5. \A i \in DOMAIN qEpisodes' : qEpisodes'[i].parent = i - 1
    <3>1. \A i \in 1..Len(qEpisodes) : qEpisodes[i].parent = i - 1
      BY <1>0 DEF EpisodeInv, EpisodesSound
    <3> QED BY <1>0, <2>2, <2>3, <2>4, <3>1
  <2>6. \A i \in DOMAIN qEpisodes' : qEpisodes'[i].status = "RUNNING" => i = Len(qEpisodes')
    BY <1>0, <2>3, <2>4
  <2> QED BY <2>4, <2>5, <2>6 DEF EpisodeInv, EpisodesSound, Running
<1> QED BY <1>1, <1>2, <1>3 DEF EpisodeNext, episodePart, FirstStart, RunEnds, RunRetried

-----------------------------------------------------------------------------
(* Verification. *)

VRecord == [job: VJobs, kind: {"diff", "tests"}, passed: BOOLEAN]
VJob == [pc: {"idle", "diff", "tests", "done"}, arr: Nat, tests: BOOLEAN, ok: BOOLEAN,
         last: Seq(VRecord), met: SUBSET VJobs]

\* An array holds a record, or newer ones may have pushed it out.
Holds(s, rec) == rec \in ToSet(s) \/ Len(s) >= VKeep

\* The arrays in use: the published one and those of verifications under way.
InUse == {vPublished} \cup {vJob[j].arr : j \in Open}

VerificationTypeOK ==
    /\ vArrays \in Seq(Seq(VRecord))
    /\ vPublished \in 1..Len(vArrays)
    /\ vJob \in [VJobs -> VJob]
    /\ \A j \in Open : vJob[j].arr \in 1..Len(vArrays)

\* Verifications under way know of each other, so that one alone finds its own
\* diff at the end of its array; a record of tests that nobody overlapped is in
\* every array that can still be published.
VerificationInv ==
    /\ VerificationTypeOK
    /\ \A j, k \in Open : j # k => k \in vJob[j].met
    /\ \A j \in VJobs : vJob[j].pc = "tests" /\ vJob[j].met = {} =>
          \E p \in BOOLEAN : /\ vArrays[vJob[j].arr] # <<>>
                             /\ vArrays[vJob[j].arr][Len(vArrays[vJob[j].arr])] = Record(j, "diff", p)
    /\ \A j \in VJobs : vJob[j].pc = "done" /\ vJob[j].met = {} =>
          \A a \in InUse : Holds(vArrays[a], Record(j, "tests", vJob[j].tests))
    /\ \A j \in VJobs : vJob[j].pc = "done" =>
          /\ vJob[j].ok => vJob[j].tests
          /\ vJob[j].ok /\ vJob[j].met = {} =>
                vJob[j].last = <<Record(j, "diff", TRUE), Record(j, "tests", TRUE)>>

\* There is one empty array, and no verification.
LEMMA VerificationInvInit == VerificationInit => VerificationInv
<1> SUFFICES ASSUME VerificationInit PROVE VerificationInv
  OBVIOUS
<1>1. vArrays \in Seq(Seq(VRecord)) /\ Len(vArrays) = 1 /\ vPublished = 1
  BY DEF VerificationInit
<1>2. NotStarted \in VJob /\ NotStarted.pc = "idle"
  <2>1. <<>> \in Seq(VRecord)
    OBVIOUS
  <2> QED BY <2>1 DEF NotStarted, VJob
<1>3. vJob \in [VJobs -> VJob] /\ \A j \in VJobs : vJob[j].pc = "idle"
  BY <1>2 DEF VerificationInit
<1>4. Open = {}
  BY <1>3 DEF Open
<1>5. VerificationTypeOK
  BY <1>1, <1>3, <1>4 DEF VerificationTypeOK
<1>6. \A j \in VJobs : vJob[j].pc # "tests" /\ vJob[j].pc # "done"
  BY <1>3
<1> QED BY <1>4, <1>5, <1>6 DEF VerificationInv

\* What holds of the verifications is what is promised of them.
LEMMA VerificationInvSound == VerificationInv => VerdictSound
<1> SUFFICES ASSUME VerificationInv, NEW j \in VJobs, vJob[j].pc = "done"
             PROVE  /\ vJob[j].ok => vJob[j].tests
                    /\ vJob[j].ok /\ vJob[j].met = {} =>
                         vJob[j].last = <<Record(j, "diff", TRUE), Record(j, "tests", TRUE)>>
                    /\ \/ vJob[j].met # {}
                       \/ Record(j, "tests", vJob[j].tests) \in ToSet(vArrays[vPublished])
                       \/ Len(vArrays[vPublished]) >= VKeep
  BY DEF VerdictSound
<1>1. vPublished \in InUse
  BY DEF InUse
<1> QED BY <1>1 DEF VerificationInv, Holds

\* Appending to an array loses no record.
LEMMA AppendHolds ==
  ASSUME NEW s \in Seq(VRecord), NEW e \in VRecord, NEW rec
  PROVE  /\ Append(s, e) \in Seq(VRecord) /\ Len(Append(s, e)) = Len(s) + 1
         /\ Append(s, e)[Len(s) + 1] = e
         /\ \A i \in 1..Len(s) : Append(s, e)[i] = s[i]
         /\ Holds(s, rec) => Holds(Append(s, e), rec)
         /\ Holds(Append(s, e), e)
<1>1. /\ Append(s, e) \in Seq(VRecord) /\ Len(Append(s, e)) = Len(s) + 1 /\ Len(s) \in Nat
      /\ DOMAIN s = 1..Len(s) /\ DOMAIN Append(s, e) = 1..(Len(s) + 1)
      /\ \A i \in 1..Len(s) : Append(s, e)[i] = s[i]
      /\ Append(s, e)[Len(s) + 1] = e
  OBVIOUS
<1>2. VKeep \in Nat
  BY VerificationAssumption
<1> DEFINE t == Append(s, e)
<1> HIDE DEF t
<1>3. ASSUME rec \in ToSet(s) PROVE rec \in ToSet(Append(s, e))
  <2>1. PICK i \in 1..Len(s) : rec = s[i]
    BY <1>1, <1>3 DEF ToSet
  <2>2. i \in 1..(Len(s) + 1)
    BY <1>1
  <2>3. i \in DOMAIN Append(s, e) /\ Append(s, e)[i] = rec
    BY <1>1, <2>1, <2>2
  <2> QED BY <2>3 DEF ToSet
<1>4. e \in ToSet(Append(s, e))
  <2>1. Len(s) + 1 \in DOMAIN Append(s, e)
    BY <1>1
  <2> QED BY <1>1, <2>1 DEF ToSet
<1>5. Len(s) >= VKeep => Len(Append(s, e)) >= VKeep
  BY <1>1, <1>2
<1> QED BY <1>1, <1>3, <1>4, <1>5 DEF Holds

\* The copy that is published keeps what newer records do not push out.
LEMMA KeptHolds ==
  ASSUME NEW s \in Seq(VRecord), NEW rec
  PROVE  Kept50(s) \in Seq(VRecord) /\ (Holds(s, rec) => Holds(Kept50(s), rec))
<1>1. VKeep \in Nat /\ Len(s) \in Nat /\ VKeep > 0
  BY VerificationAssumption
<1>2. CASE Len(s) <= VKeep
  BY <1>2 DEF Kept50
<1>3. CASE ~(Len(s) <= VKeep)
  <2>1. Kept50(s) = SubSeq(s, Len(s) - VKeep + 1, Len(s))
    BY <1>3 DEF Kept50
  <2>2. Len(s) - VKeep + 1 \in 1..Len(s) + 1 /\ Len(s) \in Len(s) - VKeep + 1 - 1 .. Len(s)
        /\ Len(s) - (Len(s) - VKeep + 1) + 1 = VKeep /\ Len(s) - VKeep + 1 <= Len(s)
    BY <1>1, <1>3
  <2>3. /\ Kept50(s) \in Seq(VRecord)
        /\ Len(Kept50(s)) = VKeep
    BY <2>1, <2>2, SubSeqProperties
  <2> QED BY <1>1, <2>3 DEF Holds
<1> QED BY <1>2, <1>3

\* The verdict is about the last two records.
LEMMA Tail2Of ==
  ASSUME NEW s \in Seq(VRecord), NEW e \in VRecord
  PROVE  /\ Tail2(Append(s, e)) \in Seq(VRecord)
         /\ \E i \in DOMAIN Tail2(Append(s, e)) : Tail2(Append(s, e))[i] = e
         /\ s # <<>> => Tail2(Append(s, e)) = <<s[Len(s)], e>>
<1> DEFINE t == Append(s, e)
<1>1. /\ t \in Seq(VRecord) /\ Len(t) = Len(s) + 1 /\ Len(s) \in Nat
      /\ DOMAIN t = 1..(Len(s) + 1)
      /\ t[Len(s) + 1] = e
      /\ \A i \in 1..Len(s) : t[i] = s[i]
      /\ s # <<>> => Len(s) >= 1
  OBVIOUS
<1> HIDE DEF t
<1>2. CASE Len(t) <= 2
  <2>1. Tail2(t) = t
    BY <1>2 DEF Tail2
  <2>2. Len(s) + 1 \in DOMAIN t
    BY <1>1
  <2>3. ASSUME s # <<>> PROVE t = <<s[Len(s)], e>>
    <3>0. ASSUME NEW n \in Nat, NEW m, m = n + 1, m <= 2, n >= 1 PROVE n = 1 /\ m = 2
      BY <3>0
    <3>1. Len(s) = 1 /\ Len(t) = 2
      BY <1>1, <1>2, <2>3, <3>0, Zenon
    <3>2. t[1] = s[Len(s)] /\ t[2] = e
      BY <1>1, <3>1
    <3> QED BY <1>1, <3>1, <3>2
  <2> QED BY <1>1, <2>1, <2>2, <2>3 DEF t
<1>3. CASE ~(Len(t) <= 2)
  <2>1. Tail2(t) = SubSeq(t, Len(t) - 1, Len(t))
    BY <1>3 DEF Tail2
  <2>2. Len(t) \in Nat /\ Len(t) >= 3 /\ Len(t) - 1 >= 1 /\ Len(t) - 1 = Len(s)
        /\ Len(t) - 1 \in 1..Len(t) + 1 /\ Len(t) \in (Len(t) - 1) - 1 .. Len(t)
        /\ Len(t) - (Len(t) - 1) + 1 = 2 /\ Len(t) - 1 <= Len(t)
    BY <1>1, <1>3
  <2>3. /\ Tail2(t) \in Seq(VRecord)
        /\ Len(Tail2(t)) = 2
        /\ \A i \in 1..2 : Tail2(t)[i] = t[Len(t) - 1 + i - 1]
    BY <1>1, <2>1, <2>2, SubSeqProperties
  <2>4. Tail2(t)[1] = t[Len(t) - 1 + 1 - 1] /\ Tail2(t)[2] = t[Len(t) - 1 + 2 - 1]
    BY <2>3
  <2>5. Len(t) - 1 + 1 - 1 = Len(s) /\ Len(t) - 1 + 2 - 1 = Len(s) + 1 /\ Len(s) \in 1..Len(s)
    BY <2>2
  <2>6. Tail2(t)[1] = s[Len(s)] /\ Tail2(t)[2] = e
    BY <1>1, <2>4, <2>5
  <2>7. Tail2(t) = <<s[Len(s)], e>> /\ 2 \in DOMAIN Tail2(t)
    BY <2>3, <2>6
  <2> QED BY <2>3, <2>6, <2>7 DEF t
<1> QED BY <1>2, <1>3

\* A verification that starts.
LEMMA VerifyStartsKeeps ==
  ASSUME VerificationInv, NEW j \in VJobs, VerifyStarts(j)
  PROVE  VerificationInv'
<1>0. VerificationTypeOK
  BY DEF VerificationInv
<1>1. /\ vJob[j].pc = "idle" /\ UNCHANGED <<vArrays, vPublished>>
      /\ \A k \in VJobs : vJob'[k] =
          (CASE k = j -> [NotStarted EXCEPT !.pc = "diff", !.arr = vPublished, !.met = Open]
            [] k # j /\ k \in Open -> [vJob[k] EXCEPT !.met = vJob[k].met \cup {j}]
            [] OTHER -> vJob[k])
      /\ vJob' = [k \in VJobs |-> vJob'[k]]
  BY <1>0 DEF VerifyStarts
<1>2. vJob'[j] = [NotStarted EXCEPT !.pc = "diff", !.arr = vPublished, !.met = Open]
  BY <1>1
<1>3. /\ vJob'[j].pc = "diff" /\ vJob'[j].arr = vPublished /\ vJob'[j].met = Open
      /\ vJob'[j] \in VJob
  <2>1. Open \subseteq VJobs /\ vPublished \in Nat /\ <<>> \in Seq(VRecord)
    BY <1>0 DEF Open, VerificationTypeOK
  <2> QED BY <1>2, <2>1 DEF NotStarted, VJob
<1>4. ASSUME NEW k \in VJobs, k # j
      PROVE  /\ vJob'[k] \in VJob /\ vJob'[k].pc = vJob[k].pc /\ vJob'[k].arr = vJob[k].arr
             /\ vJob'[k].ok = vJob[k].ok /\ vJob'[k].tests = vJob[k].tests /\ vJob'[k].last = vJob[k].last
             /\ vJob'[k].met = IF k \in Open THEN vJob[k].met \cup {j} ELSE vJob[k].met
  <2>1. vJob[k] \in VJob
    BY <1>0 DEF VerificationTypeOK
  <2>2. CASE k \in Open
    <3>1. vJob'[k] = [vJob[k] EXCEPT !.met = vJob[k].met \cup {j}]
      BY <1>1, <1>4, <2>2
    <3> QED BY <2>1, <2>2, <3>1 DEF VJob
  <2>3. CASE k \notin Open
    <3>1. vJob'[k] = vJob[k]
      BY <1>1, <1>4, <2>3
    <3> QED BY <2>1, <2>3, <3>1
  <2> QED BY <2>2, <2>3
<1>5. Open' = Open \cup {j} /\ j \notin Open
  BY <1>1, <1>3, <1>4 DEF Open
<1>6. InUse' \subseteq InUse
  <2>1. ASSUME NEW k \in Open' PROVE vJob'[k].arr \in InUse
    <3>1. CASE k = j
      BY <1>3, <3>1 DEF InUse
    <3>2. CASE k # j
      <4>1. k \in Open /\ k \in VJobs
        BY <1>5, <3>2 DEF Open
      <4> QED BY <1>4, <3>2, <4>1 DEF InUse
    <3> QED BY <3>1, <3>2
  <2> QED BY <1>1, <2>1 DEF InUse
<1>7. VerificationTypeOK'
  <2>1. vJob' \in [VJobs -> VJob]
    BY <1>1, <1>3, <1>4
  <2>2. \A k \in Open' : vJob'[k].arr \in 1..Len(vArrays)
    BY <1>0, <1>3, <1>4, <1>5 DEF VerificationTypeOK, Open
  <2> QED BY <1>0, <1>1, <2>1, <2>2 DEF VerificationTypeOK
<1>8. \A a, b \in Open' : a # b => b \in vJob'[a].met
  <2>0. Open \subseteq VJobs
    BY DEF Open
  <2>1. SUFFICES ASSUME NEW a \in Open', NEW b \in Open', a # b PROVE b \in vJob'[a].met
    OBVIOUS
  <2>2. CASE a = j
    BY <1>3, <1>5, <2>1, <2>2
  <2>3. CASE a # j /\ b = j
    BY <1>4, <1>5, <2>0, <2>3
  <2>4. CASE a # j /\ b # j
    <3>1. a \in Open /\ b \in Open /\ b \in vJob[a].met
      BY <1>5, <2>1, <2>4 DEF VerificationInv
    <3> QED BY <1>4, <2>0, <2>4, <3>1
  <2> QED BY <2>2, <2>3, <2>4
<1>9. \A k \in VJobs : vJob'[k].pc = "tests" => k # j /\ vJob'[k].met # {}
  <2>1. ASSUME NEW k \in VJobs, vJob'[k].pc = "tests" PROVE k # j /\ vJob'[k].met # {}
    <3>1. k # j
      BY <1>3, <2>1
    <3>2. k \in Open
      BY <1>4, <2>1, <3>1 DEF Open
    <3> QED BY <1>4, <3>1, <3>2
  <2> QED BY <2>1
<1>10. \A k \in VJobs : vJob'[k].pc = "done" =>
          /\ k # j /\ vJob[k].pc = "done" /\ vJob'[k].met = vJob[k].met
          /\ vJob'[k].ok = vJob[k].ok /\ vJob'[k].tests = vJob[k].tests /\ vJob'[k].last = vJob[k].last
  <2>1. ASSUME NEW k \in VJobs, vJob'[k].pc = "done" PROVE k # j /\ k \notin Open /\ vJob[k].pc = "done"
    BY <1>3, <1>4, <2>1 DEF Open
  <2> QED BY <1>4, <2>1
<1> QED BY <1>1, <1>6, <1>7, <1>8, <1>9, <1>10 DEF VerificationInv

\* The diff was looked at: a record joins the verification's array.
LEMMA DiffInspectedKeeps ==
  ASSUME VerificationInv, NEW j \in VJobs, DiffInspected(j)
  PROVE  VerificationInv'
<1> DEFINE a == vJob[j].arr
<1>0. VerificationTypeOK /\ j \in Open /\ vJob[j].pc = "diff"
  BY DEF VerificationInv, DiffInspected, Open
<1>1. a \in 1..Len(vArrays) /\ vArrays[a] \in Seq(VRecord) /\ DOMAIN vArrays = 1..Len(vArrays)
  BY <1>0 DEF VerificationTypeOK
<1>2. PICK p \in BOOLEAN : vArrays' = [vArrays EXCEPT ![a] = Append(vArrays[a], Record(j, "diff", p))]
  BY DEF DiffInspected
<1>3. /\ vJob' = [vJob EXCEPT ![j].pc = "tests"] /\ vPublished' = vPublished
  BY DEF DiffInspected
<1> DEFINE rec == Record(j, "diff", p)
<1>4. rec \in VRecord
  BY DEF Record, VRecord
<1> HIDE DEF rec, a
<1>5. /\ vArrays' \in Seq(Seq(VRecord)) /\ Len(vArrays') = Len(vArrays)
      /\ vArrays'[a] = Append(vArrays[a], rec)
      /\ \A i \in 1..Len(vArrays) : i # a => vArrays'[i] = vArrays[i]
  <2>1. Append(vArrays[a], rec) \in Seq(VRecord)
    BY <1>1, <1>4
  <2> QED BY <1>0, <1>1, <1>2, <2>1 DEF VerificationTypeOK, rec
<1>6. \A x : \A i \in 1..Len(vArrays) : Holds(vArrays[i], x) => Holds(vArrays'[i], x)
  <2>1. ASSUME NEW i \in 1..Len(vArrays), NEW x, Holds(vArrays[i], x) PROVE Holds(vArrays'[i], x)
    <3>1. Holds(vArrays[a], x) => Holds(Append(vArrays[a], rec), x)
      BY <1>1, <1>4, AppendHolds
    <3> QED BY <1>5, <2>1, <3>1
  <2> QED BY <2>1
<1>7. /\ vJob' \in [VJobs -> VJob] /\ vJob'[j].pc = "tests" /\ vJob'[j].arr = a
      /\ vJob'[j].met = vJob[j].met
      /\ \A k \in VJobs : k # j => vJob'[k] = vJob[k]
  BY <1>0, <1>3 DEF VerificationTypeOK, VJob, a
<1>8. Open' = Open /\ \A k \in Open : vJob'[k].arr = vJob[k].arr /\ vJob'[k].met = vJob[k].met
  BY <1>0, <1>7 DEF Open, a
<1>9. InUse' = InUse /\ InUse \subseteq 1..Len(vArrays)
  BY <1>0, <1>3, <1>8 DEF InUse, VerificationTypeOK
<1>10. VerificationTypeOK'
  BY <1>0, <1>3, <1>5, <1>7, <1>8 DEF VerificationTypeOK
<1>11. ASSUME NEW k \in VJobs, vJob'[k].pc = "tests", vJob'[k].met = {}
       PROVE  \E x \in BOOLEAN : /\ vArrays'[vJob'[k].arr] # <<>>
                                 /\ vArrays'[vJob'[k].arr][Len(vArrays'[vJob'[k].arr])] = Record(k, "diff", x)
  <2>1. k = j
    BY <1>0, <1>7, <1>11 DEF VerificationInv, Open
  <2>2. vArrays'[a] = Append(vArrays[a], rec) /\ vJob'[k].arr = a
    BY <1>5, <1>7, <2>1
  <2>3. Append(vArrays[a], rec) # <<>> /\ Append(vArrays[a], rec)[Len(Append(vArrays[a], rec))] = rec
    BY <1>1, <1>4
  <2> QED BY <2>1, <2>2, <2>3 DEF rec
<1>12. \A k \in VJobs : vJob'[k].pc = "done" => vJob'[k] = vJob[k]
  BY <1>7
<1> QED BY <1>6, <1>8, <1>9, <1>10, <1>11, <1>12 DEF VerificationInv

\* The tests answered: the verdict is taken and the array's tail published.
LEMMA TestsDoneKeeps ==
  ASSUME VerificationInv, NEW j \in VJobs, TestsDone(j)
  PROVE  VerificationInv'
<1> DEFINE a == vJob[j].arr
<1>0. VerificationTypeOK /\ j \in Open /\ vJob[j].pc = "tests"
  BY DEF VerificationInv, TestsDone, Open
<1>1. a \in 1..Len(vArrays) /\ vArrays[a] \in Seq(VRecord) /\ DOMAIN vArrays = 1..Len(vArrays)
      /\ Len(vArrays) \in Nat /\ vJob[j] \in VJob
  BY <1>0 DEF VerificationTypeOK
<1>2. PICK p \in BOOLEAN :
        LET recs == Append(vArrays[a], Record(j, "tests", p))
            last == Tail2(recs)
        IN  /\ vArrays' = Append([vArrays EXCEPT ![a] = recs], Kept50(recs))
            /\ vPublished' = Len(vArrays) + 1
            /\ vJob' = [vJob EXCEPT ![j] = [vJob[j] EXCEPT !.pc = "done", !.tests = p, !.last = last,
                             !.ok = \A i \in DOMAIN last : last[i].passed]]
  BY DEF TestsDone
<1> DEFINE rec == Record(j, "tests", p)
           recs == Append(vArrays[a], rec)
           last == Tail2(recs)
           ok == \A i \in DOMAIN last : last[i].passed
<1>3. rec \in VRecord /\ rec.passed = p
  BY DEF Record, VRecord
<1> HIDE DEF rec, a
<1>4. recs \in Seq(VRecord) /\ Holds(recs, rec)
  BY <1>1, <1>3, AppendHolds
<1>5. /\ last \in Seq(VRecord) /\ (\E i \in DOMAIN last : last[i] = rec)
      /\ vArrays[a] # <<>> => last = <<vArrays[a][Len(vArrays[a])], rec>>
  BY <1>1, <1>3, Tail2Of
<1>6. Kept50(recs) \in Seq(VRecord) /\ \A x : Holds(recs, x) => Holds(Kept50(recs), x)
  BY <1>4, KeptHolds
<1>7. ok \in BOOLEAN /\ (ok => p)
  BY <1>3, <1>5
<1>8. vJob' = [vJob EXCEPT ![j] = [vJob[j] EXCEPT !.pc = "done", !.tests = p, !.last = last, !.ok = ok]]
  BY <1>2 DEF rec, a
<1>9. vArrays' = Append([vArrays EXCEPT ![a] = recs], Kept50(recs)) /\ vPublished' = Len(vArrays) + 1
  BY <1>2 DEF rec, a
<1>ar. \A x : Holds(vArrays[a], x) => Holds(recs, x)
  BY <1>1, <1>3, AppendHolds
<1> HIDE DEF ok, last, recs
<1>10. /\ vJob' \in [VJobs -> VJob] /\ vJob'[j].pc = "done" /\ vJob'[j].met = vJob[j].met
       /\ vJob'[j].tests = p /\ vJob'[j].last = last /\ vJob'[j].ok = ok
       /\ \A k \in VJobs : k # j => vJob'[k] = vJob[k]
  BY <1>0, <1>1, <1>5, <1>7, <1>8 DEF VerificationTypeOK, VJob
<1>11. /\ vArrays' \in Seq(Seq(VRecord)) /\ Len(vArrays') = Len(vArrays) + 1
       /\ vArrays'[a] = recs /\ vArrays'[Len(vArrays) + 1] = Kept50(recs)
       /\ \A i \in 1..Len(vArrays) : i # a => vArrays'[i] = vArrays[i]
  <2> DEFINE w == [vArrays EXCEPT ![a] = recs]
             kept == Kept50(recs)
  <2>1. /\ w \in Seq(Seq(VRecord)) /\ Len(w) = Len(vArrays) /\ w[a] = recs
        /\ \A i \in 1..Len(vArrays) : i # a => w[i] = vArrays[i]
    BY <1>0, <1>1, <1>4 DEF VerificationTypeOK
  <2>2. kept \in Seq(VRecord) /\ vArrays' = Append(w, kept)
    BY <1>6, <1>9
  <2> HIDE DEF w, kept
  <2>3. /\ Append(w, kept) \in Seq(Seq(VRecord)) /\ Len(Append(w, kept)) = Len(w) + 1
        /\ \A i \in 1..Len(w) : Append(w, kept)[i] = w[i]
        /\ Append(w, kept)[Len(w) + 1] = kept
    BY <2>1, <2>2
  <2> QED BY <1>1, <2>1, <2>2, <2>3 DEF kept
<1>12. \A x : \A i \in 1..Len(vArrays) : Holds(vArrays[i], x) => Holds(vArrays'[i], x)
  BY <1>11, <1>ar
<1>13. \A x : Holds(recs, x) => Holds(vArrays'[vPublished'], x)
  BY <1>6, <1>9, <1>11
<1>14. Open' = Open \ {j} /\ \A k \in Open' : k # j /\ vJob'[k] = vJob[k]
  BY <1>10 DEF Open
<1>15. InUse' \subseteq {vPublished'} \cup InUse /\ InUse \subseteq 1..Len(vArrays) /\ a \in InUse
  BY <1>0, <1>14 DEF InUse, VerificationTypeOK, a
<1>16. VerificationTypeOK'
  <2>1. vPublished' \in 1..Len(vArrays')
    BY <1>1, <1>9, <1>11
  <2>2. \A k \in Open' : vJob'[k].arr \in 1..Len(vArrays')
    <3>1. \A k \in Open' : vJob'[k].arr \in 1..Len(vArrays)
      BY <1>0, <1>14 DEF VerificationTypeOK
    <3> QED BY <1>1, <1>11, <3>1
  <2> QED BY <1>10, <1>11, <2>1, <2>2 DEF VerificationTypeOK
<1>17. ASSUME NEW k \in VJobs, vJob'[k].pc = "tests", vJob'[k].met = {} PROVE FALSE
  <2>1. k # j /\ k \in Open /\ vJob[k].met = {}
    BY <1>10, <1>17 DEF Open
  <2> QED BY <1>0, <2>1 DEF VerificationInv
<1>18. ASSUME NEW k \in VJobs, vJob'[k].pc = "done", vJob'[k].met = {}, NEW b \in InUse'
       PROVE  Holds(vArrays'[b], Record(k, "tests", vJob'[k].tests))
  <2>1. CASE k = j
    <3>1. Open = {j}
      BY <1>0, <1>10, <1>18, <2>1 DEF VerificationInv
    <3>2. b = vPublished'
      BY <1>14, <1>18, <3>1 DEF InUse
    <3>3. Record(k, "tests", vJob'[k].tests) = rec
      BY <1>10, <2>1 DEF rec
    <3> QED BY <1>4, <1>13, <3>2, <3>3
  <2>2. CASE k # j
    <3> DEFINE x == Record(k, "tests", vJob[k].tests)
    <3>1. vJob'[k] = vJob[k] /\ \A c \in InUse : Holds(vArrays[c], x)
      BY <1>10, <1>18, <2>2 DEF VerificationInv
    <3> HIDE DEF x
    <3>2. CASE b = vPublished'
      BY <1>13, <1>15, <1>ar, <3>1, <3>2 DEF x
    <3>3. CASE b # vPublished'
      BY <1>12, <1>15, <1>18, <3>1, <3>3 DEF x
    <3> QED BY <3>2, <3>3
  <2> QED BY <2>1, <2>2
<1>19. ASSUME vJob[j].met = {}, ok PROVE last = <<Record(j, "diff", TRUE), Record(j, "tests", TRUE)>>
  <2>1. PICK x \in BOOLEAN : vArrays[a] # <<>> /\ vArrays[a][Len(vArrays[a])] = Record(j, "diff", x)
    BY <1>0, <1>19 DEF VerificationInv, a
  <2>2. last = <<Record(j, "diff", x), rec>>
    BY <1>5, <2>1 DEF last, recs
  <2>3. 1 \in DOMAIN last /\ last[1] = Record(j, "diff", x)
    BY <2>2
  <2>4. last[1].passed
    BY <1>19, <2>3 DEF ok
  <2>5. x = TRUE
    BY <2>3, <2>4 DEF Record
  <2>6. p = TRUE
    BY <1>7, <1>19
  <2> QED BY <2>2, <2>5, <2>6 DEF rec
<1>20. ASSUME NEW k \in VJobs, vJob'[k].pc = "done"
       PROVE  /\ vJob'[k].ok => vJob'[k].tests
              /\ vJob'[k].ok /\ vJob'[k].met = {} =>
                    vJob'[k].last = <<Record(k, "diff", TRUE), Record(k, "tests", TRUE)>>
  <2>1. CASE k = j
    BY <1>7, <1>10, <1>19, <2>1
  <2>2. CASE k # j
    BY <1>10, <1>20, <2>2 DEF VerificationInv
  <2> QED BY <2>1, <2>2
<1>21. \A k, l \in Open' : k # l => l \in vJob'[k].met
  BY <1>14 DEF VerificationInv
<1> QED BY <1>16, <1>17, <1>18, <1>20, <1>21 DEF VerificationInv

\* However verifications overlap.
LEMMA VerificationInvStep ==
  VerificationInv /\ [VerificationNext]_verificationVars => VerificationInv'
<1> SUFFICES ASSUME VerificationInv, [VerificationNext]_verificationVars PROVE VerificationInv'
  OBVIOUS
<1>1. ASSUME UNCHANGED <<vArrays, vPublished, vJob>> PROVE VerificationInv'
  BY <1>1 DEF VerificationInv, VerificationTypeOK, Open, InUse
<1>2. CASE ChangeApplied \/ GetResult \/ UNCHANGED verificationVars
  BY <1>1, <1>2 DEF ChangeApplied, GetResult, verificationVars
<1> QED BY <1>2, VerifyStartsKeeps, DiffInspectedKeeps, TestsDoneKeeps DEF VerificationNext

-----------------------------------------------------------------------------
(* Accounts and sessions. *)

AccountsTypeOK ==
    /\ uRemote \in BOOLEAN
    /\ uUsers \subseteq [email: UEmails, user: URequests]
    /\ uSignup \in [URequests -> [pc: {"idle", "org", "user", "project", "created", "unsaved",
                                       "conflict", "failed"},
                                  email: UEmails \cup {0}]]
    /\ uNext \in Nat
    /\ DOMAIN uSaved = {"users", "projects"}

\* One user per address; what the files hold is part of what the memory holds,
\* and a sign-up that was answered as saved is in both.
SignupInv ==
    /\ \A a, b \in uUsers : a.email = b.email => a = b
    /\ \A a \in uUsers : a.user \in uOrgs
    /\ uSaved.users \subseteq uUsers /\ uSaved.projects \subseteq uProjects
    /\ \A q \in URequests : uSignup[q].pc = "created" =>
          /\ [email |-> uSignup[q].email, user |-> q] \in uUsers /\ q \in uProjects
          /\ uRemote \/ ([email |-> uSignup[q].email, user |-> q] \in uSaved.users
                         /\ q \in uSaved.projects)
    /\ \A q \in URequests : uSignup[q].pc \in {"org", "user", "project"} =>
          uRemote /\ uSignup[q].email \in UEmails
    /\ \A q \in URequests : uSignup[q].pc \in {"user", "project"} => q \in uOrgs
    /\ \A q \in URequests : uSignup[q].pc = "project" =>
          [email |-> uSignup[q].email, user |-> q] \in uUsers

\* Sessions are numbered, and one that ended for good is neither in memory nor
\* in the file that a restart reads.
SessionInv ==
    /\ \A s \in uSessions \cup uFile : s.id \in Nat /\ s.id < uNext
    /\ \A i \in uRevoked : i \in Nat /\ i < uNext
    /\ \A s \in uSessions : s.id \notin uRevoked
    /\ ~uRemote => \A s \in uFile : s.id \notin uRevoked
    /\ \A a \in uAuth : ~a.ended
    /\ ~uLate

AccountsInv == AccountsTypeOK /\ SignupInv /\ SessionInv

\* A deployment begins without users and sessions.
LEMMA AccountsInvInit == AccountsInit => AccountsInv
BY DEF AccountsInit, AccountsInv, AccountsTypeOK, SignupInv, SessionInv

\* What holds of accounts and sessions is what is promised of them.
LEMMA AccountsInvSound == AccountsInv => AccountsSound
BY DEF AccountsInv, SignupInv, SessionInv, AccountsSound

\* A sign-up that starts.
LEMMA SignupStartsKeeps ==
  ASSUME AccountsInv, NEW q \in URequests, NEW e \in UEmails, SignupStarts(q, e)
  PROVE  AccountsTypeOK' /\ SignupInv'
<1>0. AccountsTypeOK /\ SignupInv /\ uRemote' = uRemote /\ uNext' = uNext
  BY DEF AccountsInv, SignupStarts
<1>1. CASE uRemote \/ Registered(e)
  <2>1. /\ uSignup' = [uSignup EXCEPT ![q] =
                         [email |-> e, pc |-> IF Registered(e) THEN "conflict" ELSE "org"]]
        /\ UNCHANGED <<uUsers, uOrgs, uProjects, uSaved, uFaults>>
    BY <1>1 DEF SignupStarts
  <2>2. uSignup'[q].pc \in {"conflict", "org"} /\ uSignup'[q].email = e
    BY <1>0, <2>1 DEF AccountsTypeOK
  <2>3. uSignup'[q].pc = "org" => uRemote
    BY <1>0, <1>1, <2>1 DEF AccountsTypeOK
  <2>4. \A k \in URequests : k # q => uSignup'[k] = uSignup[k]
    BY <1>0, <2>1 DEF AccountsTypeOK
  <2>5. AccountsTypeOK'
    BY <1>0, <2>1 DEF AccountsTypeOK
  <2>6. SignupInv'
    BY <1>0, <2>1, <2>2, <2>3, <2>4 DEF SignupInv
  <2> QED BY <2>5, <2>6
<1>2. CASE ~(uRemote \/ Registered(e))
  <2>1. PICK saved \in SUBSET {"users", "projects"} :
            /\ uUsers' = uUsers \cup {[email |-> e, user |-> q]}
            /\ uOrgs' = uOrgs \cup {q}
            /\ uProjects' = uProjects \cup {q}
            /\ uSaved' = [users |-> IF "users" \in saved THEN uUsers' ELSE uSaved.users,
                          projects |-> IF "projects" \in saved THEN uProjects' ELSE uSaved.projects]
            /\ uSignup' = [uSignup EXCEPT ![q] =
                  [email |-> e, pc |-> IF saved = {"users", "projects"} THEN "created" ELSE "unsaved"]]
    BY <1>2 DEF SignupStarts
  <2>2. uSignup'[q].pc \in {"created", "unsaved"} /\ uSignup'[q].email = e
    BY <1>0, <2>1 DEF AccountsTypeOK
  <2>3. uSignup'[q].pc = "created" => uSaved'.users = uUsers' /\ uSaved'.projects = uProjects'
    BY <1>0, <2>1 DEF AccountsTypeOK
  <2>4. \A k \in URequests : k # q => uSignup'[k] = uSignup[k]
    BY <1>0, <2>1 DEF AccountsTypeOK
  <2>5. /\ uSaved.users \subseteq uSaved'.users /\ uSaved'.users \subseteq uUsers'
        /\ uSaved.projects \subseteq uSaved'.projects /\ uSaved'.projects \subseteq uProjects'
    BY <1>0, <2>1 DEF SignupInv
  <2>6. \A a \in uUsers : a.email # e
    BY <1>2 DEF Registered
  <2>7. \A a, b \in uUsers' : a.email = b.email => a = b
    BY <1>0, <2>1, <2>6 DEF SignupInv
  <2>8. AccountsTypeOK'
    BY <1>0, <2>1 DEF AccountsTypeOK
  <2>9. SignupInv'
    BY <1>0, <2>1, <2>2, <2>3, <2>4, <2>5, <2>7 DEF SignupInv
  <2> QED BY <2>8, <2>9
<1> QED BY <1>1, <1>2

\* The queries of a sign-up with a database.
LEMMA StoreSignupKeeps ==
  ASSUME AccountsInv, NEW q \in URequests, StoreSignup(q)
  PROVE  AccountsTypeOK' /\ SignupInv'
<1> DEFINE e == uSignup[q].email
<1>0. AccountsTypeOK /\ SignupInv /\ UNCHANGED <<uRemote, uSaved, uNext>>
  BY DEF AccountsInv, StoreSignup
<1>1. uSignup[q].pc \in {"org", "user", "project"} /\ uRemote /\ e \in UEmails
  BY <1>0 DEF StoreSignup, SignupInv
<1>2. PICK pc \in {"user", "project", "failed", "created"} :
        /\ uSignup' = [uSignup EXCEPT ![q].pc = pc]
        /\ uUsers \subseteq uUsers' /\ uOrgs \subseteq uOrgs' /\ uProjects \subseteq uProjects'
        /\ uUsers' = uUsers \/ (uUsers' = uUsers \cup {[email |-> e, user |-> q]} /\ ~Registered(e)
                                /\ uSignup[q].pc = "user")
        /\ uOrgs' \in {uOrgs, uOrgs \cup {q}}
        /\ pc = "user" => q \in uOrgs'
        /\ pc = "project" => [email |-> e, user |-> q] \in uUsers' /\ uSignup[q].pc = "user"
        /\ pc = "created" => q \in uProjects' /\ uSignup[q].pc = "project"
  <2>1. CASE uSignup[q].pc = "org"
    BY <2>1 DEF StoreSignup
  <2>2. CASE uSignup[q].pc = "user" /\ Registered(e)
    BY <2>2 DEF StoreSignup
  <2>3. CASE uSignup[q].pc = "user" /\ ~Registered(e)
    BY <2>3 DEF StoreSignup
  <2>4. CASE uSignup[q].pc = "project"
    BY <2>4 DEF StoreSignup
  <2> QED BY <1>1, <2>1, <2>2, <2>3, <2>4
<1>3. uSignup'[q].pc = pc /\ uSignup'[q].email = e
      /\ \A k \in URequests : k # q => uSignup'[k] = uSignup[k]
  BY <1>0, <1>2 DEF AccountsTypeOK
<1>4. AccountsTypeOK'
  <2>1. uSignup' \in [URequests -> [pc: {"idle", "org", "user", "project", "created", "unsaved",
                                       "conflict", "failed"},
                                  email: UEmails \cup {0}]]
    BY <1>0, <1>2 DEF AccountsTypeOK
  <2>2. uUsers' \subseteq [email: UEmails, user: URequests]
    BY <1>0, <1>1, <1>2 DEF AccountsTypeOK
  <2> QED BY <1>0, <2>1, <2>2 DEF AccountsTypeOK
<1>5. \A a, b \in uUsers' : a.email = b.email => a = b
  BY <1>0, <1>2 DEF SignupInv, Registered
<1>6. \A a \in uUsers' : a.user \in uOrgs'
  <2>1. uSignup[q].pc = "user" => q \in uOrgs
    BY <1>0 DEF SignupInv
  <2> QED BY <1>0, <1>2, <2>1 DEF SignupInv
<1>7. q \in uOrgs' \/ pc \notin {"user", "project"}
  BY <1>0, <1>2 DEF SignupInv
<1>8. pc = "created" => [email |-> e, user |-> q] \in uUsers
  BY <1>0, <1>2 DEF SignupInv
<1> HIDE DEF e
<1>9. SignupInv'
  <2>1. \A k \in URequests : uSignup'[k].pc = "created" =>
          /\ [email |-> uSignup'[k].email, user |-> k] \in uUsers' /\ k \in uProjects'
    BY <1>0, <1>2, <1>3, <1>8 DEF SignupInv
  <2>2. \A k \in URequests : uSignup'[k].pc \in {"org", "user", "project"} =>
          uRemote /\ uSignup'[k].email \in UEmails
    BY <1>0, <1>1, <1>3 DEF SignupInv, e
  <2>3. \A k \in URequests : uSignup'[k].pc \in {"user", "project"} => k \in uOrgs'
    BY <1>0, <1>2, <1>3, <1>7 DEF SignupInv
  <2>4. \A k \in URequests : uSignup'[k].pc = "project" =>
          [email |-> uSignup'[k].email, user |-> k] \in uUsers'
    BY <1>0, <1>2, <1>3 DEF SignupInv
  <2>5. uSaved'.users \subseteq uUsers' /\ uSaved'.projects \subseteq uProjects'
    BY <1>0, <1>2 DEF SignupInv
  <2> QED BY <1>0, <1>1, <1>5, <1>6, <2>1, <2>2, <2>3, <2>4, <2>5 DEF SignupInv
<1> QED BY <1>4, <1>9

\* However sign-ups interleave, fail and are cut by a restart.
LEMMA AccountsInvStep == AccountsInv /\ [AccountsNext]_accountVars => AccountsInv'
<1> SUFFICES ASSUME AccountsInv, [AccountsNext]_accountVars PROVE AccountsInv'
  OBVIOUS
<1>0. AccountsTypeOK /\ SignupInv /\ SessionInv
  BY DEF AccountsInv
<1>1. ASSUME UNCHANGED <<uRemote, uSessions, uFile, uRevoked, uAuth, uLate, uNext>> PROVE SessionInv'
  BY <1>0, <1>1 DEF SessionInv
<1>2. ASSUME UNCHANGED <<uRemote, uUsers, uOrgs, uProjects, uSignup, uSaved>>,
             uNext' \in Nat
      PROVE  AccountsTypeOK' /\ SignupInv'
  BY <1>0, <1>2 DEF AccountsTypeOK, SignupInv
<1>3. ASSUME NEW q \in URequests, NEW e \in UEmails, SignupStarts(q, e) PROVE AccountsInv'
  <2>1. UNCHANGED <<uRemote, uSessions, uFile, uRevoked, uAuth, uLate, uNext>>
    BY <1>3 DEF SignupStarts
  <2> QED BY <1>1, <1>3, <2>1, SignupStartsKeeps DEF AccountsInv
<1>4. ASSUME NEW q \in URequests, StoreSignup(q) PROVE AccountsInv'
  <2>1. UNCHANGED <<uRemote, uSessions, uFile, uRevoked, uAuth, uLate, uNext>>
    BY <1>4 DEF StoreSignup
  <2> QED BY <1>1, <1>4, <2>1, StoreSignupKeeps DEF AccountsInv
<1>5. ASSUME NEW q \in URequests, SignupFails(q) PROVE AccountsInv'
  <2>1. /\ uSignup' = [uSignup EXCEPT ![q].pc = "failed"]
        /\ UNCHANGED <<uRemote, uUsers, uOrgs, uProjects, uSaved, uSessions, uFile, uRevoked, uAuth, uLate, uNext>>
    BY <1>5 DEF SignupFails
  <2>2. uSignup'[q].pc = "failed" /\ \A k \in URequests : k # q => uSignup'[k] = uSignup[k]
    BY <1>0, <2>1 DEF AccountsTypeOK
  <2>3. AccountsTypeOK'
    BY <1>0, <2>1 DEF AccountsTypeOK
  <2>4. SignupInv'
    BY <1>0, <2>1, <2>2 DEF SignupInv
  <2> QED BY <1>1, <2>1, <2>3, <2>4 DEF AccountsInv
<1>6. ASSUME ServerRestarts PROVE AccountsInv'
  <2>1. /\ uSignup' = [q \in URequests |-> IF uSignup[q].pc \in {"org", "user", "project"}
                                       THEN [uSignup[q] EXCEPT !.pc = "failed"] ELSE uSignup[q]]
        /\ uSessions' = IF uRemote THEN uSessions ELSE uFile
        /\ uUsers' = IF uRemote THEN uUsers ELSE uSaved.users
        /\ uProjects' = IF uRemote THEN uProjects ELSE uSaved.projects
        /\ uAuth' = {}
        /\ UNCHANGED <<uRemote, uOrgs, uFile, uSaved, uRevoked, uServed, uLate, uNext>>
    BY <1>6 DEF ServerRestarts
  <2>2. \A q \in URequests :
          \/ uSignup'[q] = uSignup[q] /\ uSignup[q].pc \notin {"org", "user", "project"}
          \/ uSignup'[q].pc = "failed"
    BY <1>0, <2>1 DEF AccountsTypeOK
  <2>3. uUsers' \subseteq uUsers
    BY <1>0, <2>1 DEF SignupInv
  <2>4. AccountsTypeOK'
    <3>1. ASSUME NEW q \in URequests
          PROVE  uSignup'[q] \in [pc: {"idle", "org", "user", "project", "created", "unsaved",
                                       "conflict", "failed"}, email: UEmails \cup {0}]
      BY <1>0, <2>1 DEF AccountsTypeOK
    <3> QED BY <1>0, <2>1, <2>3, <3>1 DEF AccountsTypeOK
  <2>5. SignupInv'
    BY <1>0, <2>1, <2>2, <2>3 DEF SignupInv
  <2>6. SessionInv'
    BY <1>0, <2>1 DEF SessionInv
  <2> QED BY <2>4, <2>5, <2>6 DEF AccountsInv
<1>7. ASSUME NEW e \in UEmails, Login(e) PROVE AccountsInv'
  <2>1. /\ uSessions' = uSessions \cup {[id |-> uNext, user |-> UserOf(e).user]}
        /\ uNext' = uNext + 1
        /\ uFile' = uFile \/ uFile' = uSessions'
        /\ uRemote => uFile' = uFile
        /\ UNCHANGED <<uRemote, uUsers, uOrgs, uProjects, uSignup, uSaved, uRevoked, uAuth, uServed, uLate>>
    BY <1>7 DEF Login, Persist
  <2>2. uNext \in Nat /\ uNext' \in Nat
    BY <1>0, <2>1 DEF AccountsTypeOK
  <2>3. \A s \in uSessions' \cup uFile' : s.id \in Nat /\ s.id < uNext'
    <3>1. \A s \in uSessions \cup uFile : s.id \in Nat /\ s.id < uNext + 1
      BY <1>0, <2>2 DEF SessionInv
    <3> QED BY <2>1, <2>2, <3>1
  <2>4. \A i \in uRevoked : i \in Nat /\ i < uNext + 1 /\ i # uNext
    BY <1>0, <2>2 DEF SessionInv
  <2>5. SessionInv'
    BY <1>0, <2>1, <2>3, <2>4 DEF SessionInv
  <2> QED BY <1>2, <2>1, <2>2, <2>5 DEF AccountsInv
<1>8. ASSUME NEW i \in 1..UMaxSessions, AuthStarts(i) PROVE AccountsInv'
  <2>1. /\ \E s \in uSessions : s.id = i
        /\ \/ uAuth' = uAuth \cup {[id |-> i, ended |-> i \in uRevoked]} /\ uLate' = uLate
           \/ uAuth' = uAuth /\ uLate' = (uLate \/ i \in uRevoked)
        /\ UNCHANGED <<uRemote, uUsers, uOrgs, uProjects, uSignup, uSessions, uFile, uSaved, uRevoked, uNext>>
    BY <1>8 DEF AuthStarts, Served
  <2>2. i \notin uRevoked
    BY <1>0, <2>1 DEF SessionInv
  <2>a. ~uLate'
    BY <1>0, <2>1, <2>2 DEF SessionInv
  <2>b. ~[id |-> i, ended |-> i \in uRevoked].ended
    BY <2>2, Zenon
  <2>c. \A a \in uAuth : ~a.ended
    BY <1>0 DEF SessionInv
  <2>3. ~uLate' /\ \A a \in uAuth' : ~a.ended
    BY <2>1, <2>a, <2>b, <2>c, Zenon
  <2>4. SessionInv'
    BY <1>0, <2>1, <2>3 DEF SessionInv
  <2>5. uNext' \in Nat
    BY <1>0, <2>1 DEF AccountsTypeOK
  <2> QED BY <1>2, <2>1, <2>4, <2>5 DEF AccountsInv
<1>11. ASSUME NEW a \in uAuth, AuthEnds(a) PROVE AccountsInv'
  <2>1. /\ uAuth' \subseteq uAuth
        /\ uLate' = uLate \/ uLate' = (uLate \/ a.ended)
        /\ UNCHANGED <<uRemote, uUsers, uOrgs, uProjects, uSignup, uSessions, uFile, uSaved, uRevoked, uNext>>
    BY <1>11 DEF AuthEnds, Served
  <2>a. ~uLate /\ \A b \in uAuth : ~b.ended
    BY <1>0 DEF SessionInv
  <2>b. ~a.ended
    BY <2>a
  <2>c. ~uLate'
    <3>1. CASE uLate' = uLate
      BY <2>a, <3>1, Zenon
    <3>2. CASE uLate' = (uLate \/ a.ended)
      BY <2>a, <2>b, <3>2, Zenon
    <3> QED BY <2>1, <3>1, <3>2
  <2>2. ~uLate' /\ \A b \in uAuth' : ~b.ended
    BY <2>1, <2>a, <2>c
  <2>3. SessionInv'
    BY <1>0, <2>1, <2>2 DEF SessionInv
  <2>4. uNext' \in Nat
    BY <1>0, <2>1 DEF AccountsTypeOK
  <2> QED BY <1>2, <2>1, <2>3, <2>4 DEF AccountsInv
<1>9. ASSUME NEW i \in 1..UMaxSessions, EndSession(i) PROVE AccountsInv'
  <2>1. /\ \E s \in uSessions : s.id = i
        /\ uSessions' = {s \in uSessions : s.id # i}
        /\ uFile' = uFile \/ uFile' = uSessions'
        /\ uRevoked' = IF uRemote \/ i \notin {s.id : s \in uFile'} THEN uRevoked \cup {i} ELSE uRevoked
        /\ UNCHANGED <<uRemote, uUsers, uOrgs, uProjects, uSignup, uSaved, uAuth, uServed, uLate, uNext>>
    BY <1>9 DEF EndSession, Persist
  <2>2. \A k \in uRevoked' : k \in Nat /\ k < uNext
    BY <1>0, <2>1 DEF SessionInv
  <2>3. SessionInv'
    BY <1>0, <2>1, <2>2 DEF SessionInv
  <2>4. uNext' \in Nat
    BY <1>0, <2>1 DEF AccountsTypeOK
  <2> QED BY <1>2, <2>1, <2>3, <2>4 DEF AccountsInv
<1>10. CASE UNCHANGED accountVars
  <2>1. UNCHANGED <<uRemote, uUsers, uOrgs, uProjects, uSignup, uSaved, uSessions, uFile, uRevoked, uAuth, uLate, uNext>>
    BY <1>10 DEF accountVars
  <2>2. uNext' \in Nat
    BY <1>0, <2>1 DEF AccountsTypeOK
  <2> QED BY <1>1, <1>2, <2>1, <2>2 DEF AccountsInv
<1> QED BY <1>3, <1>4, <1>5, <1>6, <1>7, <1>8, <1>9, <1>10, <1>11 DEF AccountsNext
-----------------------------------------------------------------------------
(* Who may see a run, and whose key it uses. *)

Ids == {0} \cup {p.id : p \in TPrincipals}
OrgIds == {0} \cup {p.org : p \in TPrincipals}
TRun == [owner: Ids, org: OrgIds, mode: {"none", "demo", "live"},
         called: {"not_yet", "no_key", "own_key"}]
KeyRecord == [key: TKeys \cup {0}, status: {"none", "connected", "failed"}, readable: BOOLEAN]

\* A run in memory has an owner; before there is a run nobody was answered.
AccessInv ==
    /\ tRun \in TRun /\ tLive \in BOOLEAN /\ tIndexed \in BOOLEAN /\ tSnap \in BOOLEAN
    /\ tLive => tRun.owner # 0
    /\ tRun.org # 0 => tRun.owner # 0
    /\ ~Exists => tAnswer = NoAnswer /\ ~tLive
    /\ AccessUniform

KeysInv ==
    /\ tCreds \in [CredScopes -> KeyRecord]
    /\ tProbes \subseteq [who: TPrincipals, key: TKeys, op: {"connect", "test"}]
    /\ TenantKeys

TenancyInv == AccessInv /\ KeysInv

\* There is no run and no key at first.
LEMMA TenancyInvInit == TenancyInit => TenancyInv
<1> SUFFICES ASSUME TenancyInit PROVE TenancyInv
  OBVIOUS
<1>1. AccessInv
  BY DEF TenancyInit, AccessInv, AccessUniform, Exists, NoRun, NoAnswer, TRun, Ids, OrgIds
<1>2. KeysInv
  BY DEF TenancyInit, KeysInv, TenantKeys, NoKey, NoRun, KeyRecord
<1> QED BY <1>1, <1>2 DEF TenancyInv

\* Every group of routes decides by the one rule.
LEMMA RoutesAgree ==
  ASSUME AccessInv, NEW p \in TPrincipals, NEW r \in Routes
  PROVE  /\ Answer(p, r) = "data" => DevMode \/ Owns(p)
         /\ Answer(p, r) = "refused" => ~Owns(p) \/ ~(tLive \/ tIndexed)
<1>0. (tLive => tRun.owner # 0) /\ (tRun.org # 0 => tRun.owner # 0)
  BY DEF AccessInv
<1>1. Owns(p) <=> IsGlobalAdmin(p) \/ Matches(p)
  BY DEF Owns, IsGlobalAdmin, Matches
<1>2. OwnedByOther(p) <=> ~IsGlobalAdmin(p) /\ ~((tLive \/ tIndexed) /\ Matches(p))
  BY <1>0 DEF OwnedByOther
<1> DEFINE G == IsGlobalAdmin(p)
           M == Matches(p)
           D == DevMode
           Other == OwnedByOther(p)
           Op == RequireRole(p, "operator")
<1>3. (OwnsRun(p) <=> G \/ (tLive /\ M)) /\ (CanAccessRun(p) <=> G \/ M)
  BY DEF OwnsRun, CanAccessRun
<1>4. Matches(p) => tRun.owner # 0
  BY <1>0 DEF Matches
<1> HIDE DEF G, M, D, Other, Op
<1>5. CASE r = "state"
  <2>1. Answer(p, r) = StateRead(p)
    BY <1>5 DEF Answer
  <2> QED BY <1>1, <1>3, <2>1 DEF StateRead, G, M
<1>6. CASE r = "events"
  <2>1. Answer(p, r) = EventsRead(p)
    BY <1>6 DEF Answer
  <2> QED BY <1>1, <1>2, <2>1 DEF EventsRead
<1>7. CASE r = "list"
  <2>1. Answer(p, r) = ListRead(p)
    BY <1>7 DEF Answer
  <2> QED BY <1>1, <1>4, <2>1 DEF ListRead
<1>8. CASE r = "memory"
  <2>1. Answer(p, r) = MemoryRead(p)
    BY <1>8 DEF Answer
  <2> QED BY <1>1, <1>2, <2>1 DEF MemoryRead
<1>9. CASE r = "execution"
  <2>1. Answer(p, r) = ExecutionRead(p)
    BY <1>9 DEF Answer
  <2> QED BY <1>1, <1>2, <2>1 DEF ExecutionRead
<1>10. CASE r = "messages"
  <2>1. Answer(p, r) = MessageSent(p)
    BY <1>10 DEF Answer
  <2> QED BY <1>1, <1>3, <2>1 DEF MessageSent, G, M
<1> QED BY <1>5, <1>6, <1>7, <1>8, <1>9, <1>10 DEF Routes

\* A step that does not change whose run it is keeps the rule.
LEMMA SameOwnerKeeps ==
  ASSUME AccessInv, tRun'.owner = tRun.owner, tRun'.org = tRun.org, UNCHANGED tAnswer,
         tLive' \/ tIndexed' => tLive \/ tIndexed
  PROVE  AccessUniform'
BY DEF AccessInv, AccessUniform, Owns, DevMode

\* Reads, keys and calls in any order.
LEMMA TenancyInvStep ==
  TenancyInv /\ (AccessNext \/ KeysNext \/ UNCHANGED tenancyVars) => TenancyInv'
<1> SUFFICES ASSUME TenancyInv, AccessNext \/ KeysNext \/ UNCHANGED tenancyVars PROVE TenancyInv'
  OBVIOUS
<1>0. /\ tRun \in TRun /\ tLive \in BOOLEAN /\ tIndexed \in BOOLEAN /\ tSnap \in BOOLEAN
      /\ tLive => tRun.owner # 0
      /\ tRun.org # 0 => tRun.owner # 0
      /\ ~Exists => tAnswer = NoAnswer /\ ~tLive
      /\ AccessUniform
      /\ tCreds \in [CredScopes -> KeyRecord]
      /\ tProbes \subseteq [who: TPrincipals, key: TKeys, op: {"connect", "test"}]
      /\ TenantKeys /\ AccessInv
  BY DEF TenancyInv, AccessInv, KeysInv
<1>a. ASSUME UNCHANGED accessPart PROVE AccessInv'
  BY <1>0, <1>a DEF accessPart, AccessInv, AccessUniform, Exists, Owns, DevMode
<1>k. ASSUME UNCHANGED keyPart, tRun'.called \in {"not_yet", "no_key", "own_key"} PROVE KeysInv'
  BY <1>0, <1>k DEF keyPart, KeysInv, TenantKeys
<1>c. tRun.called \in {"not_yet", "no_key", "own_key"}
  BY <1>0 DEF TRun
<1>1. ASSUME NEW p \in TPrincipals, CreateRun(p) PROVE TenancyInv'
  <2>1. PICK mode \in {"demo", "live"} :
          tRun' = [owner |-> p.id, org |-> p.org, mode |-> mode, called |-> "not_yet"]
    BY <1>1 DEF CreateRun
  <2>2. ~Exists /\ tLive' = TRUE /\ tIndexed' = FALSE /\ tSnap' = FALSE /\ tAnswer' = tAnswer /\ UNCHANGED keyPart
    BY <1>1 DEF CreateRun
  <2>3. tRun' \in TRun /\ tRun'.owner # 0 /\ Exists'
    BY <2>1, TenancyAssumption DEF TRun, Ids, OrgIds, Exists, NoRun
  <2>4. AccessUniform'
    BY <1>0, <2>2 DEF AccessUniform, NoAnswer
  <2>5. AccessInv'
    BY <2>2, <2>3, <2>4 DEF AccessInv
  <2> QED BY <1>k, <2>1, <2>2, <2>5 DEF TenancyInv
<1>2. ASSUME LegacyRun PROVE TenancyInv'
  <2>1. /\ ~Exists /\ tRun' = [NoRun EXCEPT !.mode = "demo"] /\ tIndexed' = TRUE /\ tSnap' \in BOOLEAN
        /\ UNCHANGED <<tLive, tAnswer>> /\ UNCHANGED keyPart
    BY <1>2 DEF LegacyRun
  <2>2. tRun' \in TRun /\ tRun'.owner = 0 /\ tRun'.org = 0 /\ Exists' /\ tRun'.called = "not_yet"
    BY <2>1 DEF TRun, Ids, OrgIds, Exists, NoRun
  <2>3. AccessUniform'
    BY <1>0, <2>1 DEF AccessUniform, NoAnswer
  <2>4. AccessInv'
    BY <1>0, <2>1, <2>2, <2>3 DEF AccessInv
  <2> QED BY <1>k, <2>1, <2>2, <2>4 DEF TenancyInv
<1>3. ASSUME PersistRun \/ ForgetLive PROVE TenancyInv'
  <2>1. /\ Exists /\ tLive /\ UNCHANGED <<tRun, tAnswer>> /\ UNCHANGED keyPart
        /\ tLive' \in BOOLEAN /\ tIndexed' \in BOOLEAN /\ tSnap' \in BOOLEAN
    BY <1>0, <1>3 DEF PersistRun, ForgetLive
  <2>2. AccessUniform'
    BY <1>0, <2>1, SameOwnerKeeps
  <2>3. AccessInv'
    <3>1. tLive' => tLive
      BY <2>1
    <3> QED BY <1>0, <2>1, <2>2, <3>1 DEF AccessInv, Exists
  <2> QED BY <1>c, <1>k, <2>1, <2>3 DEF TenancyInv
<1>4. ASSUME NEW p \in TPrincipals, NEW r \in Routes, Request(p, r) PROVE TenancyInv'
  <2>1. /\ Exists /\ UNCHANGED <<tRun, tLive, tIndexed, tSnap>> /\ UNCHANGED keyPart
        /\ tAnswer' = [who |-> p, route |-> r, got |-> Answer(p, r)]
    BY <1>4 DEF Request
  <2>2. /\ Answer(p, r) = "data" => DevMode \/ Owns(p)
        /\ Answer(p, r) = "refused" => ~Owns(p) \/ ~(tLive \/ tIndexed)
    BY <1>0, RoutesAgree
  <2>3. (Owns(p)' <=> Owns(p)) /\ (DevMode' <=> DevMode) /\ tAnswer'.who = p /\ tAnswer'.got = Answer(p, r)
    BY <2>1 DEF Owns, DevMode
  <2>4. AccessUniform'
    BY <2>1, <2>2, <2>3 DEF AccessUniform, Owns, DevMode
  <2>5. AccessInv'
    BY <1>0, <2>1, <2>4 DEF AccessInv, Exists
  <2> QED BY <1>c, <1>k, <2>1, <2>5 DEF TenancyInv
<1>b. ASSUME NEW p \in TPrincipals, ByIdSent(p) PROVE TenancyInv'
  <2>1. /\ Exists /\ UNCHANGED <<tRun, tLive, tIndexed, tSnap>> /\ UNCHANGED keyPart
        /\ tAnswer'.route = "by_id"
    BY <1>b DEF ByIdSent
  <2>2. AccessUniform'
    BY <2>1 DEF AccessUniform
  <2>3. AccessInv'
    BY <1>0, <2>1, <2>2 DEF AccessInv, Exists
  <2> QED BY <1>c, <1>k, <2>1, <2>3 DEF TenancyInv
<1>5. ASSUME RunCalls PROVE TenancyInv'
  <2> DEFINE s == IF tRun.org # 0 THEN tRun.org ELSE tRun.owner
             c == IF Resolve(s) = 0 THEN "no_key"
                  ELSE IF Resolve(s) = GetKey(s) THEN "own_key" ELSE "other_key"
  <2>1. /\ Exists /\ tLive /\ UNCHANGED <<tLive, tIndexed, tSnap, tAnswer>> /\ UNCHANGED keyPart
        /\ tRun' = [tRun EXCEPT !.called = c]
    BY <1>5 DEF RunCalls
  <2>2. s # 0
    BY <1>0, <2>1
  <2>3. c \in {"no_key", "own_key"}
    BY <2>2 DEF Resolve
  <2> HIDE DEF s, c
  <2>4. /\ tRun' \in TRun /\ tRun'.owner = tRun.owner /\ tRun'.org = tRun.org /\ tRun'.called = c
    BY <1>0, <2>1, <2>3 DEF TRun
  <2>5. Exists'
    BY <2>3, <2>4 DEF Exists, NoRun
  <2>6. AccessUniform'
    BY <1>0, <2>1, <2>4, SameOwnerKeeps
  <2>7. AccessInv'
    BY <1>0, <2>1, <2>4, <2>5, <2>6 DEF AccessInv
  <2> QED BY <1>k, <2>1, <2>3, <2>4, <2>7 DEF TenancyInv
<1>6. ASSUME NEW p \in TPrincipals, NEW k \in TKeys, ProbeStarts(p, k) PROVE TenancyInv'
  <2>1. /\ UNCHANGED accessPart /\ UNCHANGED <<tCreds, tVerified>>
        /\ \E op \in {"connect", "test"} : tProbes' = tProbes \cup {[who |-> p, key |-> k, op |-> op]}
    BY <1>6 DEF ProbeStarts
  <2>2. tRun' = tRun
    BY <2>1 DEF accessPart
  <2>3. KeysInv'
    BY <1>0, <2>1, <2>2 DEF KeysInv, TenantKeys
  <2> QED BY <1>a, <2>1, <2>3 DEF TenancyInv
<1>7. ASSUME NEW b \in tProbes, ProbePasses(b) PROVE TenancyInv'
  <2>0. tProbes' \subseteq tProbes /\ UNCHANGED accessPart /\ tRun' = tRun
    BY <1>7 DEF ProbePasses, accessPart
  <2> DEFINE s == CredentialScope(b.who)
             n == [key |-> b.key, status |-> "connected", readable |-> TRUE]
  <2>1. CASE b.op = "connect"
    <3>1. /\ tCreds' = [tCreds EXCEPT ![s] = n]
          /\ tVerified' = tVerified \cup {<<s, b.key>>}
      BY <1>7, <2>1 DEF ProbePasses
    <3>2. n \in KeyRecord /\ n.key = b.key
      BY <1>0 DEF KeyRecord
    <3> HIDE DEF s, n
    <3>3. tCreds' \in [CredScopes -> KeyRecord]
      BY <1>0, <3>1, <3>2
    <3>4. \A t \in CredScopes : tCreds'[t] = IF t = s THEN n ELSE tCreds[t]
      BY <1>0, <3>1
    <3>5. KeysInv'
      BY <1>0, <2>0, <3>1, <3>2, <3>3, <3>4 DEF KeysInv, TenantKeys
    <3> QED BY <1>a, <2>0, <3>5 DEF TenancyInv
  <2>2. CASE b.op # "connect"
    <3>1. UNCHANGED <<tCreds, tVerified>>
      BY <1>7, <2>2 DEF ProbePasses
    <3>2. KeysInv'
      BY <1>0, <2>0, <3>1 DEF KeysInv, TenantKeys
    <3> QED BY <1>a, <2>0, <3>2 DEF TenancyInv
  <2> QED BY <2>1, <2>2
<1>8. ASSUME NEW p \in TPrincipals, RemoveKey(p) PROVE TenancyInv'
  <2>1. /\ UNCHANGED accessPart /\ UNCHANGED <<tProbes, tVerified>> /\ tRun' = tRun
        /\ tCreds' = [tCreds EXCEPT ![CredentialScope(p)] = NoKey]
    BY <1>8 DEF RemoveKey, accessPart
  <2>2. NoKey \in KeyRecord /\ NoKey.status # "connected"
    BY DEF NoKey, KeyRecord
  <2>3. /\ tCreds' \in [CredScopes -> KeyRecord]
        /\ \A t \in CredScopes : tCreds'[t] \in {NoKey, tCreds[t]}
    BY <1>0, <2>1, <2>2
  <2>4. KeysInv'
    BY <1>0, <2>1, <2>2, <2>3 DEF KeysInv, TenantKeys
  <2> QED BY <1>a, <2>1, <2>4 DEF TenancyInv
<1>9. ASSUME NEW b \in tProbes, ProbeFails(b) PROVE TenancyInv'
  <2> DEFINE s == CredentialScope(b.who)
  <2>1. /\ UNCHANGED accessPart /\ tVerified' = tVerified /\ tRun' = tRun /\ tProbes' \subseteq tProbes
        /\ tCreds' = tCreds \/ tCreds' = [tCreds EXCEPT ![s].status = "failed"]
    BY <1>9 DEF ProbeFails, accessPart
  <2> HIDE DEF s
  <2>2. /\ tCreds' \in [CredScopes -> KeyRecord]
        /\ \A t \in CredScopes : tCreds'[t] = tCreds[t] \/ tCreds'[t].status = "failed"
    <3>1. \A t \in CredScopes : [tCreds[t] EXCEPT !.status = "failed"] \in KeyRecord
                                /\ [tCreds[t] EXCEPT !.status = "failed"].status = "failed"
      BY <1>0 DEF KeyRecord
    <3>2. CASE tCreds' = tCreds
      BY <1>0, <3>2
    <3>3. CASE tCreds' = [tCreds EXCEPT ![s] = [tCreds[s] EXCEPT !.status = "failed"]]
      <4>1. /\ DOMAIN tCreds' = CredScopes /\ tCreds' = [t \in CredScopes |-> tCreds'[t]]
            /\ \A t \in CredScopes :
                 tCreds'[t] = IF t = s THEN [tCreds[t] EXCEPT !.status = "failed"] ELSE tCreds[t]
        BY <1>0, <3>3
      <4>2. \A t \in CredScopes : tCreds[t] \in KeyRecord
        BY <1>0
      <4>3. \A t \in CredScopes : /\ tCreds'[t] \in KeyRecord
                                  /\ tCreds'[t] = tCreds[t] \/ tCreds'[t].status = "failed"
        BY <3>1, <4>1, <4>2
      <4> QED BY <4>1, <4>3
    <3> QED BY <2>1, <3>2, <3>3
  <2>3. KeysInv'
    BY <1>0, <2>1, <2>2 DEF KeysInv, TenantKeys
  <2> QED BY <1>a, <2>1, <2>3 DEF TenancyInv
<1>10. ASSUME KeysUnreadable PROVE TenancyInv'
  <2>1. /\ UNCHANGED accessPart /\ UNCHANGED <<tProbes, tVerified>> /\ tRun' = tRun
        /\ tCreds' = [t \in CredScopes |-> [tCreds[t] EXCEPT !.readable = FALSE]]
    BY <1>10 DEF KeysUnreadable, accessPart
  <2>2. \A t \in CredScopes : /\ [tCreds[t] EXCEPT !.readable = FALSE] \in KeyRecord
                              /\ [tCreds[t] EXCEPT !.readable = FALSE].status = tCreds[t].status
                              /\ [tCreds[t] EXCEPT !.readable = FALSE].key = tCreds[t].key
    BY <1>0 DEF KeyRecord
  <2>3. /\ tCreds' \in [CredScopes -> KeyRecord]
        /\ \A t \in CredScopes : tCreds'[t].status = tCreds[t].status /\ tCreds'[t].key = tCreds[t].key
    BY <2>1, <2>2
  <2>4. tRun'.called # "other_key"
    BY <1>c, <2>1
  <2>5. KeysInv'
    BY <1>0, <2>1, <2>3, <2>4 DEF KeysInv, TenantKeys
  <2> QED BY <1>a, <2>1, <2>5 DEF TenancyInv
<1>11. CASE UNCHANGED tenancyVars
  <2>1. UNCHANGED accessPart /\ UNCHANGED keyPart /\ tRun' = tRun
    BY <1>11 DEF tenancyVars, accessPart, keyPart
  <2> QED BY <1>a, <1>c, <1>k, <2>1 DEF TenancyInv
<1> QED BY <1>1, <1>2, <1>3, <1>4, <1>5, <1>6, <1>7, <1>8, <1>9, <1>10, <1>11, <1>b DEF AccessNext, KeysNext

-----------------------------------------------------------------------------
(* Git. *)

GitPlaces == {"idle", "add", "commit", "branch", "committing"}

\* A request holds an operation once its approval was used up.
GitTypeOK ==
    /\ gIndex \subseteq GFiles /\ gMine \subseteq GFiles
    /\ gAsked \subseteq GitOp /\ gGranted \subseteq gGrants /\ gGrants \subseteq GitOp
    /\ gRequest \in [GReq -> [at: GitPlaces, op: GitOp \cup {NoOp}, limited: BOOLEAN,
                              allowed: SUBSET GFiles, late: SUBSET GFiles]]
    /\ \A q \in GReq : gRequest[q].at # "idle" => gRequest[q].op \in gGrants
    /\ \A q \in GReq : gRequest[q].at = "add" => gRequest[q].op.kind = "add"
    /\ \A w \in gWrites : \E op \in gGrants : w = <<op, 1>>

\* An approved operation is in one place: not used, with one request, or done.
GrantInv ==
    /\ gAsked \cap gGrants = {}
    /\ \A q \in GReq : gRequest[q].at # "idle" =>
          /\ gRequest[q].op \notin gGranted
          /\ <<gRequest[q].op, 1>> \notin gWrites
          /\ \A x \in GReq : x # q /\ gRequest[x].at # "idle" => gRequest[x].op # gRequest[q].op
    /\ \A op \in gGranted : <<op, 1>> \notin gWrites

\* What is staged between a limited commit's look and its end is the run's own
\* or came late.
ScopeInv ==
    /\ \A q \in GReq : gRequest[q].at = "committing" /\ gRequest[q].limited
          => gIndex \subseteq gRequest[q].allowed \cup gRequest[q].late
    /\ \A c \in gCommits : c.limited => c.files \subseteq c.allowed \cup c.late

\* What is staged, and who asked for it.
StagedInv ==
    \A p \in gIndex \ gTheirs : \E op \in gGrants :
       op.kind = "add" /\ op.paths \cap GRefused = {} /\ p \in Covered(op)

GitInv == GitTypeOK /\ GrantInv /\ ScopeInv

\* Nothing is asked for at first.
LEMMA GitInvInit == GitInit => GitInv
BY DEF GitInit, GitInv, GitTypeOK, GrantInv, ScopeInv, IdleGit, GitPlaces

\* The first write under an approval carries the number 1.
LEMMA FirstWrite ==
  ASSUME GitTypeOK, NEW op, <<op, 1>> \notin gWrites, GitWrites(op)
  PROVE  gWrites' = gWrites \cup {<<op, 1>>}
<1>1. {w \in gWrites : w[1] = op} = {}
  BY DEF GitTypeOK
<1> QED BY <1>1, FS_EmptySet DEF GitWrites

\* Staging tells only the commits that are under way.
LEMMA StagingTells ==
  ASSUME GitTypeOK, NEW P \in SUBSET GFiles
  PROVE  /\ Staging(P) \in [GReq -> [at: GitPlaces, op: GitOp \cup {NoOp}, limited: BOOLEAN,
                              allowed: SUBSET GFiles, late: SUBSET GFiles]]
         /\ \A x \in GReq :
              /\ Staging(P)[x].at = gRequest[x].at /\ Staging(P)[x].op = gRequest[x].op
              /\ Staging(P)[x].limited = gRequest[x].limited
              /\ Staging(P)[x].allowed = gRequest[x].allowed
              /\ gRequest[x].at = "committing" => Staging(P)[x].late = gRequest[x].late \cup P
BY DEF GitTypeOK, Staging, GitPlaces

\* A request that is answered holds nothing.
LEMMA IdleTyped == IdleGit \in [at: GitPlaces, op: GitOp \cup {NoOp}, limited: BOOLEAN,
                                allowed: SUBSET GFiles, late: SUBSET GFiles]
BY DEF IdleGit, GitPlaces

\* Pathspecs that pass cover files.
LEMMA CoveredFiles ==
  ASSUME NEW op \in GitOp, op.paths \cap GRefused = {}
  PROVE  Covered(op) \subseteq GFiles
<1>1. op.paths \subseteq GSpecs
  BY DEF GitOp
<1> QED BY <1>1, GCoverAssumption DEF Covered

\* Every step keeps the invariant.
LEMMA GitInvStep == GitInv /\ [GitNext]_gitVars => GitInv'
<1> SUFFICES ASSUME GitInv, [GitNext]_gitVars PROVE GitInv'
  OBVIOUS
<1> USE DEF GitInv
<1>1. ASSUME NEW q \in GReq, NEW op \in GOps, GitRequest(q, op) PROVE GitInv'
  <2>1. op \in GitOp /\ op.kind \in GitPlaces \ {"idle", "committing"} /\ Limits(op) \in BOOLEAN
    BY GOpsAssumption DEF GitOp, GitPlaces, Limits
  <2>2. CASE op \in gGranted
    <3>1. /\ gRequest' = [gRequest EXCEPT ![q] =
                [IdleGit EXCEPT !.at = op.kind, !.op = op, !.limited = Limits(op), !.allowed = gMine]]
          /\ gGranted' = gGranted \ {op} /\ UNCHANGED <<gAsked, gIndex, gMine, gGrants, gCommits, gWrites>>
      BY <1>1, <2>2 DEF GitRequest
    <3>2. GitTypeOK'
      BY <3>1, <2>1, <2>2, IdleTyped DEF GitTypeOK, IdleGit
    <3>3. GrantInv'
      BY <3>1, <2>1, <2>2 DEF GitTypeOK, GrantInv, IdleGit
    <3>4. ScopeInv'
      BY <3>1, <2>1 DEF GitTypeOK, ScopeInv, IdleGit
    <3> QED BY <3>2, <3>3, <3>4
  <2>3. CASE op \notin gGranted
    BY <1>1, <2>1, <2>3 DEF GitRequest, GitTypeOK, GrantInv, ScopeInv
  <2> QED BY <2>2, <2>3
<1>2. ASSUME NEW op \in GOps, DecideGit(op) PROVE GitInv'
  BY <1>2 DEF DecideGit, GitTypeOK, GrantInv, ScopeInv
<1>3. ASSUME NEW p \in GFiles, NameFile(p) PROVE GitInv'
  BY <1>3 DEF NameFile, GitTypeOK, GrantInv, ScopeInv
<1>4. ASSUME NEW p \in GFiles, UserStages(p) PROVE GitInv'
  <2>1. CASE p \notin gIndex /\ gIndex' = gIndex \cup {p} /\ gRequest' = Staging({p})
    <3>1. GitTypeOK'
      BY <1>4, <2>1, StagingTells DEF UserStages, GitTypeOK
    <3>2. GrantInv' /\ ScopeInv'
      BY <1>4, <2>1, StagingTells DEF UserStages, GitTypeOK, GrantInv, ScopeInv
    <3> QED BY <3>1, <3>2
  <2>2. CASE p \in gIndex /\ gIndex' = gIndex \ {p} /\ UNCHANGED gRequest
    BY <1>4, <2>2 DEF UserStages, GitTypeOK, GrantInv, ScopeInv
  <2> QED BY <1>4, <2>1, <2>2 DEF UserStages
<1>5. ASSUME NEW q \in GReq, GitAdd(q) PROVE GitInv'
  <2> DEFINE op == gRequest[q].op
  <2>1. gRequest[q].at = "add" /\ op \in gGrants /\ op \in GitOp
    BY <1>5 DEF GitAdd, GitTypeOK
  <2>2. CASE GitAnswer(q) /\ UNCHANGED <<gIndex, gWrites>>
    BY <1>5, <2>2, IdleTyped DEF GitAdd, GitAnswer, GitTypeOK, GrantInv, ScopeInv, IdleGit
  <2>3. CASE /\ op.paths \cap GRefused = {} /\ GitWrites(op)
             /\ \E S \in SUBSET Covered(op) :
                   gIndex' = gIndex \cup S /\ gRequest' = [Staging(S) EXCEPT ![q] = IdleGit]
    <3>0. PICK S \in SUBSET Covered(op) :
             gIndex' = gIndex \cup S /\ gRequest' = [Staging(S) EXCEPT ![q] = IdleGit]
      BY <2>3
    <3>1. S \in SUBSET GFiles
      BY <2>1, <2>3, CoveredFiles
    <3>2. <<op, 1>> \notin gWrites
      BY <2>1 DEF GrantInv
    <3>3. gWrites' = gWrites \cup {<<op, 1>>}
      BY <2>3, <3>2, FirstWrite
    <3>4. /\ UNCHANGED <<gMine, gAsked, gGranted, gGrants, gCommits>>
          /\ gIndex' = gIndex \cup S /\ gRequest' = [Staging(S) EXCEPT ![q] = IdleGit]
      BY <1>5, <3>0 DEF GitAdd
    <3> HIDE DEF op
    <3>5. GitTypeOK'
      BY <2>1, <3>1, <3>3, <3>4, StagingTells, IdleTyped DEF GitTypeOK, IdleGit
    <3>6. \A x \in GReq : gRequest'[x].at # "idle" =>
             /\ x # q /\ gRequest'[x].at = gRequest[x].at /\ gRequest'[x].op = gRequest[x].op
             /\ gRequest'[x].limited = gRequest[x].limited
             /\ gRequest'[x].allowed = gRequest[x].allowed
             /\ gRequest[x].at = "committing" => gRequest'[x].late = gRequest[x].late \cup S
      BY <3>1, <3>4, StagingTells DEF IdleGit, GitTypeOK
    <3>7. GrantInv'
      <4>1. \A x \in GReq : x # q /\ gRequest[x].at # "idle" => gRequest[x].op # op
        BY <2>1 DEF GrantInv, op
      <4>2. op \notin gGranted
        BY <2>1 DEF GrantInv, op
      <4> QED BY <3>3, <3>4, <3>6, <4>1, <4>2 DEF GrantInv
    <3>8. ScopeInv'
      BY <3>4, <3>6 DEF ScopeInv
    <3> QED BY <3>5, <3>7, <3>8
  <2> QED BY <1>5, <2>2, <2>3 DEF GitAdd
<1>6. ASSUME NEW q \in GReq, CommitLooks(q) PROVE GitInv'
  <2>1. CASE GitAnswer(q)
    BY <1>6, <2>1, IdleTyped DEF CommitLooks, GitAnswer, GitTypeOK, GrantInv, ScopeInv, IdleGit
  <2>2. CASE /\ InCommitScope(gRequest[q], gIndex)
             /\ gRequest' = [gRequest EXCEPT ![q].at = "committing", ![q].late = {}]
    <3>1. gRequest[q].at = "commit" /\ UNCHANGED <<gIndex, gMine, gAsked, gGranted, gGrants, gCommits, gWrites>>
      BY <1>6 DEF CommitLooks
    <3>2. GitTypeOK'
      <4>1. /\ gRequest' \in [GReq -> [at: GitPlaces, op: GitOp \cup {NoOp}, limited: BOOLEAN,
                                      allowed: SUBSET GFiles, late: SUBSET GFiles]]
            /\ \A x \in GReq : gRequest'[x].op = gRequest[x].op
            /\ \A x \in GReq : x # q => gRequest'[x] = gRequest[x]
            /\ gRequest'[q].at = "committing"
        BY <2>2 DEF GitTypeOK, GitPlaces
      <4>2. \A x \in GReq : gRequest'[x].at # "idle" => gRequest[x].at # "idle"
        BY <3>1, <4>1
      <4>3. \A x \in GReq : gRequest'[x].at = "add" => gRequest[x].at = "add"
        BY <4>1
      <4> QED BY <3>1, <4>1, <4>2, <4>3 DEF GitTypeOK
    <3>3. GrantInv'
      BY <3>1, <2>2 DEF GitTypeOK, GrantInv
    <3>4. ScopeInv'
      BY <3>1, <2>2 DEF GitTypeOK, ScopeInv, InCommitScope
    <3> QED BY <3>2, <3>3, <3>4
  <2> QED BY <1>6, <2>1, <2>2 DEF CommitLooks
<1>7. ASSUME NEW q \in GReq, CommitDone(q) PROVE GitInv'
  <2> DEFINE r == gRequest[q]
  <2>1. r.at = "committing" /\ r.op \in gGrants /\ <<r.op, 1>> \notin gWrites
    BY <1>7 DEF CommitDone, GitTypeOK, GrantInv
  <2>2. CASE GitAnswer(q) /\ UNCHANGED <<gIndex, gCommits, gWrites>>
    BY <1>7, <2>2, IdleTyped DEF CommitDone, GitAnswer, GitTypeOK, GrantInv, ScopeInv, IdleGit
  <2>3. CASE /\ gCommits' = gCommits \cup
                  {[files |-> gIndex, late |-> r.late, limited |-> r.limited, allowed |-> r.allowed]}
             /\ gIndex' = {} /\ GitWrites(r.op) /\ GitAnswer(q)
    <3>1. gWrites' = gWrites \cup {<<r.op, 1>>}
      BY <2>1, <2>3, FirstWrite
    <3>2. gRequest' = [gRequest EXCEPT ![q] = IdleGit] /\ UNCHANGED <<gMine, gAsked, gGranted, gGrants>>
      BY <1>7, <2>3 DEF CommitDone, GitAnswer
    <3>3. GitTypeOK'
      BY <2>1, <2>3, <3>1, <3>2, IdleTyped DEF GitTypeOK, IdleGit
    <3>4. GrantInv'
      BY <2>1, <3>1, <3>2 DEF GitTypeOK, GrantInv, IdleGit
    <3>5. ScopeInv'
      BY <2>1, <2>3, <3>2 DEF GitTypeOK, ScopeInv, IdleGit
    <3> QED BY <3>3, <3>4, <3>5
  <2> QED BY <1>7, <2>2, <2>3 DEF CommitDone
<1>8. ASSUME NEW q \in GReq, GitBranch(q) PROVE GitInv'
  <2>1. gRequest[q].at = "branch" /\ gRequest[q].op \in gGrants /\ <<gRequest[q].op, 1>> \notin gWrites
    BY <1>8 DEF GitBranch, GitTypeOK, GrantInv
  <2>2. gWrites' = gWrites \/ gWrites' = gWrites \cup {<<gRequest[q].op, 1>>}
    BY <1>8, <2>1, FirstWrite DEF GitBranch
  <2>3. gRequest' = [gRequest EXCEPT ![q] = IdleGit]
        /\ UNCHANGED <<gIndex, gMine, gAsked, gGranted, gGrants, gCommits>>
    BY <1>8 DEF GitBranch, GitAnswer
  <2>4. GitTypeOK'
    BY <2>1, <2>2, <2>3, IdleTyped DEF GitTypeOK, IdleGit
  <2>5. GrantInv' /\ ScopeInv'
    BY <2>1, <2>2, <2>3 DEF GitTypeOK, GrantInv, ScopeInv, IdleGit
  <2> QED BY <2>4, <2>5
<1>9. CASE UNCHANGED gitVars
  BY <1>9 DEF gitVars, GitTypeOK, GrantInv, ScopeInv
<1> QED BY <1>1, <1>2, <1>3, <1>4, <1>5, <1>6, <1>7, <1>8, <1>9 DEF GitNext

\* Nothing is staged at first.
LEMMA StagedInvInit == GitInit => StagedInv
BY DEF GitInit, StagedInv

\* What is staged comes from an approved add or from the user.
LEMMA StagedInvStep == GitInv /\ StagedInv /\ [GitNext]_gitVars => StagedInv'
<1> SUFFICES ASSUME GitInv, StagedInv, [GitNext]_gitVars PROVE StagedInv'
  OBVIOUS
<1>1. CASE \E q \in GReq : GitAdd(q)
  <2>1. PICK q \in GReq : GitAdd(q)
    BY <1>1
  <2>2. UNCHANGED <<gTheirs, gGrants>>
    BY <2>1 DEF GitAdd
  <2>3. CASE gIndex' = gIndex
    BY <2>2, <2>3 DEF StagedInv
  <2>4. CASE gIndex' # gIndex
    <3>1. gRequest[q].at = "add" /\ gRequest[q].op.paths \cap GRefused = {}
      BY <2>1, <2>4 DEF GitAdd
    <3>2. PICK S \in SUBSET Covered(gRequest[q].op) : gIndex' = gIndex \cup S
      BY <2>1, <2>4 DEF GitAdd
    <3>3. gRequest[q].op \in gGrants /\ gRequest[q].op.kind = "add"
      BY <3>1 DEF GitInv, GitTypeOK
    <3> QED BY <2>2, <3>1, <3>2, <3>3 DEF StagedInv
  <2> QED BY <2>3, <2>4
<1>2. CASE \E p \in GFiles : UserStages(p)
  BY <1>2 DEF UserStages, StagedInv
<1>3. CASE \E q \in GReq : CommitDone(q)
  BY <1>3 DEF CommitDone, StagedInv
<1>4. CASE UNCHANGED <<gIndex, gTheirs>> /\ gGrants \subseteq gGrants'
  BY <1>4 DEF StagedInv
<1>5. CASE \/ \E q \in GReq, op \in GOps : GitRequest(q, op)
           \/ \E p \in GFiles : NameFile(p)
           \/ \E q \in GReq : CommitLooks(q) \/ GitBranch(q)
           \/ UNCHANGED gitVars
  <2>1. UNCHANGED <<gIndex, gTheirs, gGrants>>
    BY <1>5 DEF GitRequest, NameFile, CommitLooks, GitBranch, gitVars
  <2> QED BY <1>4, <2>1
<1>6. CASE \E op \in GOps : DecideGit(op)
  <2>1. UNCHANGED <<gIndex, gTheirs>> /\ gGrants \subseteq gGrants'
    BY <1>6 DEF DecideGit
  <2> QED BY <1>4, <2>1
<1> QED BY <1>1, <1>2, <1>3, <1>5, <1>6 DEF GitNext

\* What the invariants are for.
LEMMA GitInvSound == GitInv /\ StagedInv => GitSound
BY DEF GitInv, GitTypeOK, ScopeInv, StagedInv, GitSound

-----------------------------------------------------------------------------
(* Checkpoints and recovery. *)

Checkpoint == [type: {"context_update", "model_execution", "model_switch", "step_complete"},
               step: Nat, completed: BOOLEAN, progress: Nat,
               sealed: BOOLEAN, shares: BOOLEAN, fresh: BOOLEAN]
RunFacts == [status: {"running", "failed", "ended", "gone"},
             at: {"setup", "loop", "first", "again", "tool", "idle"},
             n: Nat, live: Nat, model: BOOLEAN, steps: Nat]

\* Where the completed checkpoints of a list are.
Done(l) == {i \in DOMAIN l : l[i].completed}

\* The newest completed checkpoint of a list, when there is one, was taken
\* after s steps of the run.
Tracks(l, s) == \A i \in Done(l) : (\A j \in Done(l) : j <= i) => l[i].progress = s

\* A list lost its completed checkpoints only to newer ones that fill it.
Behind(l, s) == Done(l) = {} => s = 0 \/ Len(l) = KMax

CheckpointsTypeOK ==
    /\ kList \in Seq(Checkpoint) /\ Len(kList) <= KMax
    /\ kRun \in RunFacts /\ kEffect \in Effect

CheckpointsInv ==
    /\ CheckpointsTypeOK
    /\ Tracks(kList, kRun.steps)
    /\ Behind(kList, kRun.steps) \/ kRun.status = "gone"
    /\ kRun.status = "gone" => kRun.at = "idle" /\ kTries = KMaxTries
    /\ RecoverySound

\* A run begins with no checkpoint and no step.
LEMMA CheckpointsInvInit == CheckpointsInit => CheckpointsInv
<1> SUFFICES ASSUME CheckpointsInit PROVE CheckpointsInv
  OBVIOUS
<1>1. kList = <<>> /\ Len(kList) = 0 /\ Done(kList) = {} /\ kRun.steps = 0
  BY DEF CheckpointsInit, Done
<1>2. kRun \in RunFacts /\ kEffect \in Effect /\ kRun.status = "running"
  BY DEF CheckpointsInit, RunFacts, Effect, NoEffect
<1>3. RecoverySound
  BY DEF CheckpointsInit, RecoverySound, NotResumed, NoEffect
<1> QED BY <1>1, <1>2, <1>3, KAssumption DEF CheckpointsInv, CheckpointsTypeOK, Tracks, Behind

\* getLastCompletedCheckpoint finds the newest completed one.
LEMMA LastCompletedIsNewest ==
  ASSUME NEW l \in Seq(Checkpoint), NEW s, Done(l) # {}, Tracks(l, s)
  PROVE  LastCompleted(l) \in Checkpoint /\ LastCompleted(l).progress = s
<1>0. DOMAIN l = 1..Len(l) /\ Len(l) \in Nat /\ Done(l) \subseteq 1..Len(l)
  BY DEF Done
<1> DEFINE T == {Len(l) - i : i \in Done(l)}
<1>1. T \subseteq Nat /\ T # {}
  BY <1>0
<1>2. PICK n \in T : \A m \in T : n <= m
  BY <1>1, LeastNat
<1>3. PICK x \in Done(l) : n = Len(l) - x
  BY <1>2
<1>4. ASSUME NEW y \in Done(l) PROVE x >= y
  <2>1. Len(l) - y \in T
    OBVIOUS
  <2>2. n <= Len(l) - y
    BY <1>2, <2>1
  <2> QED BY <1>0, <1>3, <2>2
<1>5. Max(Done(l)) \in Done(l) /\ \A y \in Done(l) : Max(Done(l)) >= y
  BY <1>3, <1>4 DEF Max
<1>6. LastCompleted(l) = l[Max(Done(l))]
  BY DEF LastCompleted, Done
<1>7. l[Max(Done(l))].progress = s
  <2>1. \A y \in Done(l) : y <= Max(Done(l))
    BY <1>0, <1>5
  <2> QED BY <1>5, <2>1 DEF Tracks
<1> QED BY <1>0, <1>5, <1>6, <1>7

\* A list whose checkpoints keep what they completed tracks the run as before.
LEMMA SameShape ==
  ASSUME NEW l \in Seq(Checkpoint), NEW m \in Seq(Checkpoint), NEW s, Len(m) = Len(l),
         \A i \in DOMAIN l : m[i].completed = l[i].completed /\ m[i].progress = l[i].progress
  PROVE  (Tracks(l, s) => Tracks(m, s)) /\ (Behind(l, s) => Behind(m, s))
<1>1. DOMAIN m = DOMAIN l
  OBVIOUS
<1>2. Done(m) = Done(l)
  BY <1>1 DEF Done
<1>3. \A i \in Done(l) : m[i].progress = l[i].progress
  BY DEF Done
<1> QED BY <1>2, <1>3 DEF Tracks, Behind

\* What changes under the live context, or with time, is not what was completed.
LEMMA TouchKeeps ==
  ASSUME NEW l \in Seq(Checkpoint), NEW s, NEW m,
         m \in {Touch(l), Unshared(l), [i \in DOMAIN l |-> [l[i] EXCEPT !.fresh = FALSE]]}
  PROVE  /\ m \in Seq(Checkpoint) /\ Len(m) = Len(l)
         /\ (Tracks(l, s) => Tracks(m, s)) /\ (Behind(l, s) => Behind(m, s))
<1>0. DOMAIN l = 1..Len(l) /\ Len(l) \in Nat /\ \A i \in 1..Len(l) : l[i] \in Checkpoint
  OBVIOUS
<1>1. \A i \in 1..Len(l) : /\ m[i] \in Checkpoint
                           /\ m[i].completed = l[i].completed /\ m[i].progress = l[i].progress
  <2>1. ASSUME NEW i \in 1..Len(l), NEW b \in BOOLEAN
        PROVE  /\ [l[i] EXCEPT !.sealed = b] \in Checkpoint
               /\ [l[i] EXCEPT !.sealed = b].completed = l[i].completed
               /\ [l[i] EXCEPT !.sealed = b].progress = l[i].progress
               /\ [l[i] EXCEPT !.shares = b] \in Checkpoint
               /\ [l[i] EXCEPT !.shares = b].completed = l[i].completed
               /\ [l[i] EXCEPT !.shares = b].progress = l[i].progress
               /\ [l[i] EXCEPT !.fresh = b] \in Checkpoint
               /\ [l[i] EXCEPT !.fresh = b].completed = l[i].completed
               /\ [l[i] EXCEPT !.fresh = b].progress = l[i].progress
    <3>1. l[i] \in Checkpoint
      BY <1>0
    <3> QED BY <3>1 DEF Checkpoint
  <2>2. \A i \in 1..Len(l) : (l[i].sealed /\ ~l[i].shares) \in BOOLEAN
    OBVIOUS
  <2> QED BY <1>0, <2>1, <2>2 DEF Touch, Unshared
<1>2. DOMAIN m = 1..Len(l)
  BY <1>0 DEF Touch, Unshared
<1>3. m = [i \in 1..Len(l) |-> m[i]]
  BY <1>0 DEF Touch, Unshared
<1>4. m \in Seq(Checkpoint) /\ Len(m) = Len(l)
  BY <1>0, <1>1, <1>2, <1>3
<1> QED BY <1>0, <1>1, <1>4, SameShape

\* Appending to a list of limited length drops the oldest at most.
LEMMA CreateShifts ==
  ASSUME NEW l \in Seq(Checkpoint), NEW cp \in Checkpoint, Len(l) <= KMax
  PROVE  \E d \in {0, 1} :
           LET m == CreateCheckpoint(l, cp) IN
           /\ m \in Seq(Checkpoint) /\ Len(m) = Len(l) + 1 - d /\ Len(m) <= KMax
           /\ d = 1 => Len(m) = KMax
           /\ \A i \in 1..Len(m) : m[i] = IF i + d = Len(l) + 1 THEN cp ELSE l[i + d]
<1>0. KMax \in Nat \ {0} /\ Len(l) \in Nat /\ DOMAIN l = 1..Len(l)
  BY KAssumption
<1> DEFINE a == Append(l, cp)
<1>1. /\ a \in Seq(Checkpoint) /\ Len(a) = Len(l) + 1 /\ DOMAIN a = 1..(Len(l) + 1) /\ a # <<>>
      /\ \A i \in 1..Len(l) : a[i] = l[i]
      /\ a[Len(l) + 1] = cp
  BY <1>0
<1>2. CASE Len(a) > KMax
  <2>1. CreateCheckpoint(l, cp) = Tail(a)
    BY <1>2 DEF CreateCheckpoint
  <2> HIDE DEF a
  <2>2. /\ Tail(a) \in Seq(Checkpoint) /\ Len(Tail(a)) = Len(a) - 1
        /\ \A i \in 1..Len(Tail(a)) : Tail(a)[i] = a[i + 1]
    BY <1>1, HeadTailProperties
  <2>a. Len(a) = Len(l) + 1 /\ Len(a) > KMax
    BY <1>1, <1>2 DEF a
  <2>b. Len(Tail(a)) = Len(a) - 1
    BY <2>2
  <2>c. ASSUME NEW k \in Nat, NEW n \in Nat, NEW e, NEW f, e = n + 1, e > k, n <= k, f = e - 1
        PROVE  f = n + 1 - 1 /\ n = k /\ f = n
    BY <2>c
  <2>3. Len(Tail(a)) = Len(l) + 1 - 1 /\ Len(l) = KMax /\ Len(Tail(a)) = Len(l)
    BY <1>0, <2>a, <2>b, <2>c, Zenon
  <2>4. \A i \in 1..Len(Tail(a)) : Tail(a)[i] = IF i + 1 = Len(l) + 1 THEN cp ELSE l[i + 1]
    <3> SUFFICES ASSUME NEW i \in 1..Len(Tail(a))
                 PROVE  Tail(a)[i] = IF i + 1 = Len(l) + 1 THEN cp ELSE l[i + 1]
      OBVIOUS
    <3>1. Tail(a)[i] = a[i + 1] /\ i \in 1..Len(l)
      BY <1>0, <2>2, <2>3
    <3>2. CASE i = Len(l)
      BY <1>0, <1>1, <3>1, <3>2
    <3>3. CASE i # Len(l)
      <4>0. i \in 1..Len(l)
        BY <3>1
      <4>c. ASSUME NEW n \in Nat, NEW j \in 1..n, j # n PROVE j + 1 \in 1..n /\ j + 1 # n + 1
        BY <4>c
      <4>1. i + 1 \in 1..Len(l) /\ i + 1 # Len(l) + 1
        BY <1>0, <4>0, <3>3, <4>c, Zenon
      <4> QED BY <1>1, <3>1, <4>1
    <3> QED BY <3>2, <3>3
  <2>5. Len(Tail(a)) <= KMax /\ Len(Tail(a)) = KMax
    BY <1>0, <2>3
  <2> QED BY <2>1, <2>2, <2>3, <2>4, <2>5
<1>3. CASE ~(Len(a) > KMax)
  <2>1. CreateCheckpoint(l, cp) = a
    BY <1>3 DEF CreateCheckpoint
  <2> HIDE DEF a
  <2>2. Len(a) <= KMax /\ Len(a) = Len(l) + 1 - 0
    BY <1>0, <1>1, <1>3
  <2>3. \A i \in 1..Len(a) : a[i] = IF i + 0 = Len(l) + 1 THEN cp ELSE l[i + 0]
    BY <1>0, <1>1
  <2> QED BY <1>1, <2>1, <2>2, <2>3
<1> QED BY <1>2, <1>3

\* A checkpoint that completes no step leaves the newest completed one in place
\* or fills the list; one that completes a step is the newest.
LEMMA CreateKeeps ==
  ASSUME NEW l \in Seq(Checkpoint), NEW cp \in Checkpoint, Len(l) <= KMax, NEW s
  PROVE  LET m == CreateCheckpoint(l, cp) IN
         /\ m \in Seq(Checkpoint) /\ Len(m) <= KMax
         /\ ~cp.completed /\ Tracks(l, s) => Tracks(m, s)
         /\ ~cp.completed /\ Behind(l, s) => Behind(m, s)
         /\ cp.completed => Tracks(m, cp.progress) /\ Behind(m, cp.progress)
<1> DEFINE m == CreateCheckpoint(l, cp)
<1>0. KMax \in Nat \ {0} /\ Len(l) \in Nat /\ DOMAIN l = 1..Len(l)
  BY KAssumption
<1>1. PICK d \in {0, 1} :
        /\ m \in Seq(Checkpoint) /\ Len(m) = Len(l) + 1 - d /\ Len(m) <= KMax
        /\ d = 1 => Len(m) = KMax
        /\ \A i \in 1..Len(m) : m[i] = IF i + d = Len(l) + 1 THEN cp ELSE l[i + d]
  BY CreateShifts
<1> HIDE DEF m
<1>2. DOMAIN m = 1..Len(m) /\ Len(m) \in Nat
  BY <1>1
<1>3. ASSUME ~cp.completed PROVE \A i \in Done(m) : i + d \in Done(l) /\ m[i] = l[i + d]
  <2> SUFFICES ASSUME NEW i \in Done(m) PROVE i + d \in Done(l) /\ m[i] = l[i + d]
    OBVIOUS
  <2>1. i \in 1..Len(m) /\ m[i].completed
    BY <1>2 DEF Done
  <2>2. m[i] = IF i + d = Len(l) + 1 THEN cp ELSE l[i + d]
    BY <1>1, <2>1
  <2>3. i + d # Len(l) + 1 /\ m[i] = l[i + d]
    BY <1>3, <2>1, <2>2
  <2>4. i + d \in 1..Len(l)
    BY <1>0, <1>1, <2>1, <2>3
  <2> QED BY <1>0, <2>1, <2>3, <2>4 DEF Done
<1>4. \A i \in Done(l) : i > d => i - d \in Done(m)
  <2> SUFFICES ASSUME NEW i \in Done(l), i > d PROVE i - d \in Done(m)
    OBVIOUS
  <2>1. i \in 1..Len(l) /\ l[i].completed
    BY <1>0 DEF Done
  <2>2. i - d \in 1..Len(m) /\ (i - d) + d = i /\ i # Len(l) + 1
    BY <1>0, <1>1, <2>1
  <2>3. m[i - d] = l[i]
    BY <1>1, <2>2
  <2> QED BY <1>2, <2>1, <2>2, <2>3 DEF Done
<1>5. ASSUME ~cp.completed, Tracks(l, s) PROVE Tracks(m, s)
  <2> SUFFICES ASSUME NEW i \in Done(m), \A j \in Done(m) : j <= i PROVE m[i].progress = s
    BY DEF Tracks
  <2>1. i + d \in Done(l) /\ m[i] = l[i + d] /\ i \in Nat /\ i >= 1
    BY <1>2, <1>3, <1>5 DEF Done
  <2>2. ASSUME NEW j \in Done(l) PROVE j <= i + d
    <3>1. j \in Nat
      BY <1>0 DEF Done
    <3>2. CASE j > d
      <4>1. j - d \in Done(m) /\ j - d <= i
        BY <1>4, <3>2
      <4> QED BY <2>1, <3>1, <4>1
    <3> QED BY <2>1, <3>1, <3>2
  <2> QED BY <1>5, <2>1, <2>2 DEF Tracks
<1>6. ASSUME ~cp.completed, Behind(l, s) PROVE Behind(m, s)
  <2> SUFFICES ASSUME Done(m) = {} PROVE s = 0 \/ Len(m) = KMax
    BY DEF Behind
  <2>1. CASE Done(l) = {}
    <3>1. s = 0 \/ Len(l) = KMax
      BY <1>6, <2>1 DEF Behind
    <3>2. Len(l) = KMax => Len(m) = KMax
      BY <1>0, <1>1
    <3> QED BY <3>1, <3>2
  <2>2. CASE d = 1
    BY <1>1, <2>2
  <2>3. CASE Done(l) # {} /\ d = 0
    BY <1>0, <1>4, <2>3 DEF Done
  <2> QED BY <2>1, <2>2, <2>3
<1>7. ASSUME cp.completed PROVE Tracks(m, cp.progress) /\ Behind(m, cp.progress)
  <2>1. Len(m) \in 1..Len(m) /\ m[Len(m)] = cp
    BY <1>0, <1>1, <1>2
  <2>2. Len(m) \in Done(m) /\ \A i \in Done(m) : i <= Len(m)
    BY <1>2, <1>7, <2>1 DEF Done
  <2>3. \A i \in Done(m) : i \in Nat
    BY <1>2 DEF Done
  <2> QED BY <1>2, <2>1, <2>2, <2>3 DEF Tracks, Behind
<1> QED BY <1>1, <1>5, <1>6, <1>7 DEF m

\* What a checkpoint of the run is.
LEMMA CheckpointTyped ==
  ASSUME NEW type \in {"context_update", "model_execution", "model_switch", "step_complete"},
         NEW step \in Nat, NEW done \in BOOLEAN, NEW progress \in Nat
  PROVE  /\ ExecutionCheckpoint(type, step, done, progress) \in Checkpoint
         /\ ExecutionCheckpoint(type, step, done, progress).completed <=> done
         /\ ExecutionCheckpoint(type, step, done, progress).progress = progress
BY DEF ExecutionCheckpoint, Checkpoint

\* The facts of the run, one by one.
LEMMA RunTyped ==
  ASSUME kRun \in RunFacts
  PROVE  /\ kRun.n \in Nat /\ kRun.live \in Nat /\ kRun.steps \in Nat
         /\ kRun.at \in {"setup", "loop", "first", "again", "tool", "idle"}
         /\ kRun.status \in {"running", "failed", "ended", "gone"}
BY DEF RunFacts

\* recover never resumes over a tool that may have taken effect and cannot be
\* repeated.
LEMMA PlanIsCautious ==
  ASSUME NEW e \in Effect, NEW v \in {"missing", "stale", "corrupt", "ok"},
         PlanRecovery(v, e) \notin {"ask_user", "mark_unknown", "unrecoverable"}
  PROVE  /\ v \in {"missing", "ok"}
         /\ e.state \in {"in_flight", "unknown"} => e.proved \/ (e.idempotent /\ ~e.destructive)
<1>0. /\ e.state \in {"not_started", "in_flight", "completed", "failed", "unknown"}
      /\ e.proved \in BOOLEAN /\ e.idempotent \in BOOLEAN /\ e.destructive \in BOOLEAN
  BY DEF Effect
<1>1. CASE v = "stale"
  BY <1>1 DEF PlanRecovery
<1>2. CASE v = "corrupt"
  BY <1>2 DEF PlanRecovery
<1>3. CASE e.state \in {"in_flight", "unknown"} /\ v \in {"missing", "ok"}
  <2>1. PlanRecovery(v, e) = DecideRecovery(e)
    BY <1>3 DEF PlanRecovery
  <2> QED BY <1>0, <1>3, <2>1 DEF DecideRecovery
<1> QED BY <1>1, <1>2, <1>3

\* A retry resumes where the last completed step left the run.
LEMMA RetryKeeps == CheckpointsInv /\ RetryRun => CheckpointsInv'
<1> SUFFICES ASSUME CheckpointsInv, RetryRun PROVE CheckpointsInv'
  OBVIOUS
<1> DEFINE v == ValidateCheckpoint(kList)
           plan == PlanRecovery(v, kEffect)
           cp == LastCompleted(kList)
<1>0. /\ kRun.status = "failed" /\ kRun \in RunFacts /\ kEffect \in Effect
      /\ kList \in Seq(Checkpoint) /\ Len(kList) <= KMax
      /\ Tracks(kList, kRun.steps) /\ Behind(kList, kRun.steps)
  BY DEF RetryRun, CheckpointsInv, CheckpointsTypeOK
<1>1. v \in {"missing", "stale", "corrupt", "ok"}
  BY DEF ValidateCheckpoint
<1>2. v = "ok" => Done(kList) # {}
  BY DEF ValidateCheckpoint, Done
<1>3. v = "missing" => Done(kList) = {}
  <2>1. ASSUME Done(kList) # {} PROVE v # "missing"
    <3>1. ~\A i \in DOMAIN kList : ~kList[i].completed
      BY <2>1 DEF Done
    <3> QED BY <3>1 DEF ValidateCheckpoint
  <2> QED BY <2>1
<1>4. CASE plan \in {"ask_user", "mark_unknown", "unrecoverable"}
  <2>1. UNCHANGED <<kList, kRun, kEffect, kResumed>>
    BY <1>4 DEF RetryRun
  <2> QED BY <1>0, <2>1 DEF CheckpointsInv, CheckpointsTypeOK, RecoverySound
<1>5. CASE plan \notin {"ask_user", "mark_unknown", "unrecoverable"}
  <2>1. /\ kRun' = [(IF v = "ok" THEN RestoreRun(cp) ELSE kRun) EXCEPT
                             !.status = "running",
                             !.at = IF kRun.model THEN "loop" ELSE "setup",
                             !.n = IF kRun.model THEN Cursor(v) ELSE 0]
        /\ kList' = IF v = "ok" THEN Unshared(kList) ELSE kList
        /\ kEffect' = [kEffect EXCEPT !.state = IF @ = "in_flight" THEN "unknown" ELSE @]
        /\ kResumed' = [from |-> IF v = "ok" THEN "checkpoint" ELSE "live",
                        progress |-> IF v = "ok" THEN cp.progress ELSE 0,
                        steps |-> kRun.steps, full |-> Len(kList) = KMax, effect |-> kEffect]
    BY <1>5 DEF RetryRun
  <2>2. v \in {"missing", "ok"}
        /\ (kEffect.state \in {"in_flight", "unknown"}
              => kEffect.proved \/ (kEffect.idempotent /\ ~kEffect.destructive))
    BY <1>0, <1>1, <1>5, PlanIsCautious
  <2>3. v = "ok" => cp \in Checkpoint /\ cp.progress = kRun.steps
    BY <1>0, <1>2, LastCompletedIsNewest
  <2>4. v # "ok" => kRun.steps = 0 \/ Len(kList) = KMax
    BY <1>0, <1>3, <2>2 DEF Behind
  <2>5. Cursor(v) \in Nat
    <3>1. v = "ok" => cp.step \in Nat
      BY <2>3 DEF Checkpoint
    <3>2. kRun.live \in Nat
      BY <1>0, RunTyped
    <3> QED BY <3>1, <3>2 DEF Cursor
  <2> HIDE DEF v, cp, plan
  <2>6. kRun' \in RunFacts /\ kRun'.steps = kRun.steps /\ kRun'.status = "running"
    <3>1. ASSUME NEW r \in RunFacts, NEW a \in {"loop", "setup"}, NEW n \in Nat
          PROVE  /\ [r EXCEPT !.status = "running", !.at = a, !.n = n] \in RunFacts
                 /\ [r EXCEPT !.status = "running", !.at = a, !.n = n].steps = r.steps
                 /\ [r EXCEPT !.status = "running", !.at = a, !.n = n].status = "running"
      BY DEF RunFacts
    <3>2. v = "ok" => RestoreRun(cp) \in RunFacts /\ RestoreRun(cp).steps = kRun.steps
      <4>1. v = "ok" => cp.step \in Nat /\ cp.progress = kRun.steps
        BY <2>3 DEF Checkpoint
      <4> QED BY <1>0, <4>1, RunTyped DEF RestoreRun, RunFacts
    <3>3. (IF kRun.model THEN "loop" ELSE "setup") \in {"loop", "setup"}
          /\ (IF kRun.model THEN Cursor(v) ELSE 0) \in Nat
      BY <2>5
    <3> DEFINE a == IF kRun.model THEN "loop" ELSE "setup"
               n == IF kRun.model THEN Cursor(v) ELSE 0
    <3>4. CASE v = "ok"
      <4>1. kRun' = [RestoreRun(cp) EXCEPT !.status = "running", !.at = a, !.n = n]
        BY <2>1, <3>4
      <4> HIDE DEF a, n
      <4>2. RestoreRun(cp) \in RunFacts /\ RestoreRun(cp).steps = kRun.steps
        BY <3>2, <3>4
      <4>3. a \in {"loop", "setup"} /\ n \in Nat
        BY <3>3 DEF a, n
      <4> QED BY <3>1, <4>1, <4>2, <4>3
    <3>5. CASE v # "ok"
      <4>1. kRun' = [kRun EXCEPT !.status = "running", !.at = a, !.n = n]
        BY <2>1, <3>5
      <4> HIDE DEF a, n
      <4>3. a \in {"loop", "setup"} /\ n \in Nat
        BY <3>3 DEF a, n
      <4> QED BY <1>0, <3>1, <4>1, <4>3
    <3> QED BY <3>4, <3>5
  <2>7. /\ kList' \in Seq(Checkpoint) /\ Len(kList') <= KMax
        /\ Tracks(kList', kRun.steps) /\ Behind(kList', kRun.steps)
    BY <1>0, <2>1, TouchKeeps
  <2>8. kEffect' \in Effect
    BY <1>0, <2>1 DEF Effect
  <2>9. RecoverySound'
    <3>1. /\ kResumed'.from = (IF v = "ok" THEN "checkpoint" ELSE "live")
          /\ kResumed'.progress = (IF v = "ok" THEN cp.progress ELSE 0)
          /\ kResumed'.steps = kRun.steps /\ kResumed'.full = (Len(kList) = KMax)
          /\ kResumed'.effect = kEffect
      BY <2>1
    <3> QED BY <2>2, <2>3, <2>4, <3>1 DEF RecoverySound
  <2> QED BY <2>6, <2>7, <2>8, <2>9 DEF CheckpointsInv, CheckpointsTypeOK
<1> QED BY <1>4, <1>5

\* Every step keeps what is true of the checkpoints.
LEMMA CheckpointsInvStep == CheckpointsInv /\ [CheckpointsNext]_checkpointVars => CheckpointsInv'
<1> SUFFICES ASSUME CheckpointsInv, [CheckpointsNext]_checkpointVars PROVE CheckpointsInv'
  OBVIOUS
<1>0. /\ kRun \in RunFacts /\ kEffect \in Effect /\ kList \in Seq(Checkpoint) /\ Len(kList) <= KMax
      /\ Tracks(kList, kRun.steps) /\ RecoverySound
      /\ kRun.status # "gone" => Behind(kList, kRun.steps)
      /\ kRun.status = "gone" => kRun.at = "idle" /\ kTries = KMaxTries
  BY DEF CheckpointsInv, CheckpointsTypeOK
<1>f. /\ kRun.n \in Nat /\ kRun.live \in Nat /\ kRun.steps \in Nat
      /\ kRun.status \in {"running", "failed", "ended", "gone"} /\ KMaxTries \in Nat
  BY <1>0, RunTyped, KAssumption
<1>s. ASSUME /\ kRun' \in RunFacts /\ kEffect' \in Effect
             /\ kList' \in Seq(Checkpoint) /\ Len(kList') <= KMax
             /\ Tracks(kList', kRun'.steps) /\ Behind(kList', kRun'.steps)
             /\ kRun'.status # "gone"
             /\ kResumed' \in {kResumed, NotResumed}
      PROVE  CheckpointsInv'
  <2>1. RecoverySound'
    BY <1>0, <1>s DEF RecoverySound, NotResumed, NoEffect
  <2> QED BY <1>s, <2>1 DEF CheckpointsInv, CheckpointsTypeOK
<1>n. /\ kRun.at # "idle" => kRun.status # "gone"
      /\ kRun.status = "running" => kRun.status # "gone"
  BY <1>0, <1>f
<1> DEFINE Moved(x, st, sp) == x \in RunFacts /\ x.status = st /\ x.steps = sp
           AtSet == {"setup", "loop", "first", "again", "tool", "idle"}
           StatusSet == {"running", "failed", "ended"}
<1>r1. \A a \in AtSet : Moved([kRun EXCEPT !.at = a], kRun.status, kRun.steps)
  BY <1>0 DEF RunFacts
<1>r2. \A st \in StatusSet : Moved([kRun EXCEPT !.status = st], st, kRun.steps)
  BY <1>0 DEF RunFacts
<1>r3. \A a \in AtSet, st \in StatusSet :
          Moved([kRun EXCEPT !.at = a, !.status = st], st, kRun.steps)
  BY <1>0 DEF RunFacts
<1>r4. Moved([kRun EXCEPT !.at = "loop", !.model = TRUE], kRun.status, kRun.steps)
  BY <1>0 DEF RunFacts
<1>g. kRun.n + 1 \in Nat /\ kRun.live + 1 \in Nat /\ kRun.steps + 1 \in Nat
  BY <1>f
<1>r5. Moved([kRun EXCEPT !.n = kRun.n + 1, !.live = kRun.live + 1, !.at = "first"],
             kRun.status, kRun.steps)
  BY <1>0, <1>g DEF RunFacts
<1>r6. Moved([kRun EXCEPT !.status = "running", !.at = "setup", !.n = 0], "running", kRun.steps)
  BY <1>0 DEF RunFacts
<1>r7. \A a \in AtSet, st \in StatusSet :
          Moved([kRun EXCEPT !.steps = kRun.steps + 1, !.at = a, !.status = st], st, kRun.steps + 1)
  BY <1>0, <1>g DEF RunFacts
<1>t. /\ Touch(kList) \in Seq(Checkpoint) /\ Len(Touch(kList)) <= KMax
      /\ Tracks(Touch(kList), kRun.steps)
      /\ kRun.status # "gone" => Behind(Touch(kList), kRun.steps)
  BY <1>0, TouchKeeps
<1> DEFINE Taken(l, type) ==
             CreateCheckpoint(l, ExecutionCheckpoint(type, kRun.live, FALSE, kRun.steps))
           Good(l) == /\ l \in Seq(Checkpoint) /\ Len(l) <= KMax
                      /\ Tracks(l, kRun.steps) /\ Behind(l, kRun.steps)
           Types == {"context_update", "model_execution", "model_switch"}
<1>c. ASSUME NEW l, Good(l), NEW type \in Types PROVE Good(Taken(l, type))
  <2>1. /\ ExecutionCheckpoint(type, kRun.live, FALSE, kRun.steps) \in Checkpoint
        /\ ~ExecutionCheckpoint(type, kRun.live, FALSE, kRun.steps).completed
    BY <1>f, CheckpointTyped
  <2> QED BY <1>c, <2>1, CreateKeeps
<1>1. ASSUME NEW b \in BOOLEAN, Setup(b) PROVE CheckpointsInv'
  <2> DEFINE built == Taken(Touch(kList), "context_update")
  <2>1. kRun.status = "running" /\ kEffect' = kEffect /\ kResumed' = NotResumed
    BY <1>1 DEF Setup, IsRunning
  <2>2. Good(built)
    <3>1. Good(Touch(kList))
      BY <1>n, <1>t, <2>1
    <3> HIDE DEF Good, Taken
    <3> QED BY <1>c, <3>1
  <2>3. /\ b => /\ kList' = Taken(built, "model_execution")
                /\ kRun' = [kRun EXCEPT !.at = "loop", !.model = TRUE]
        /\ ~b => kList' = built /\ kRun' = [kRun EXCEPT !.at = "idle", !.status = "failed"]
    BY <1>1 DEF Setup
  <2> HIDE DEF built
  <2>4. Good(kList')
    <3> HIDE DEF Good, Taken
    <3> QED BY <1>c, <2>2, <2>3
  <2>5. kRun' \in RunFacts /\ kRun'.steps = kRun.steps /\ kRun'.status # "gone"
    BY <1>r3, <1>r4, <2>1, <2>3
  <2> QED BY <1>0, <1>s, <2>1, <2>4, <2>5
<1>2. ASSUME StepStarts \/ StepLimit \/ ModelFails \/ Deadline \/ StartNextEpisode
      PROVE  CheckpointsInv'
  <2>0. kRun.n + 1 \in Nat /\ kRun.live + 1 \in Nat
    BY <1>f
  <2>1. kEffect' = kEffect /\ kList' = kList /\ kResumed' \in {kResumed, NotResumed}
    BY <1>2 DEF StepStarts, StepLimit, ModelFails, Deadline, StartNextEpisode
  <2>2. kRun.status # "gone"
    <3>1. CASE StartNextEpisode
      <4>1. kTries < KMaxTries
        BY <3>1 DEF StartNextEpisode
      <4> QED BY <1>0, <1>f, <4>1
    <3>2. CASE StepStarts \/ StepLimit \/ ModelFails \/ Deadline
      <4>1. kRun.status = "running" \/ kRun.at # "idle"
        BY <3>2 DEF StepStarts, StepLimit, ModelFails, Deadline, IsRunning
      <4> QED BY <1>n, <4>1
    <3> QED BY <1>2, <3>1, <3>2
  <2>3. kRun' \in RunFacts /\ kRun'.steps = kRun.steps /\ kRun'.status # "gone"
    <3>1. CASE StepStarts
      <4>1. kRun' = [kRun EXCEPT !.n = kRun.n + 1, !.live = kRun.live + 1, !.at = "first"]
        BY <1>0, <3>1 DEF StepStarts
      <4> QED BY <1>r5, <2>2, <4>1
    <3>2. CASE StepLimit
      <4>1. kRun' = [kRun EXCEPT !.at = "idle", !.status = "ended"]
            \/ kRun' = [kRun EXCEPT !.at = "idle", !.status = "failed"]
        BY <3>2 DEF StepLimit
      <4> QED BY <1>r3, <4>1
    <3>3. CASE ModelFails
      BY <1>r3, <3>3 DEF ModelFails
    <3>4. CASE Deadline
      BY <1>r2, <3>4 DEF Deadline
    <3>5. CASE StartNextEpisode
      BY <1>r6, <3>5 DEF StartNextEpisode
    <3> QED BY <1>2, <3>1, <3>2, <3>3, <3>4, <3>5
  <2> QED BY <1>0, <1>s, <2>1, <2>2, <2>3
<1>3. ASSUME CompressContext PROVE CheckpointsInv'
  <2>1. /\ kRun.status = "running" /\ kList' = Touch(kList)
        /\ UNCHANGED <<kRun, kEffect, kResumed>>
    BY <1>3 DEF CompressContext, IsRunning
  <2> QED BY <1>0, <1>s, <1>t, <2>1
<1>4. ASSUME WeekPasses PROVE CheckpointsInv'
  <2>1. /\ kList' = [i \in DOMAIN kList |-> [kList[i] EXCEPT !.fresh = FALSE]]
        /\ kEffect' = [kEffect EXCEPT !.proved = FALSE]
        /\ UNCHANGED <<kRun, kTries, kResumed>>
    BY <1>4 DEF WeekPasses
  <2>2. /\ kList' \in Seq(Checkpoint) /\ Len(kList') <= KMax
        /\ Tracks(kList', kRun.steps)
        /\ kRun.status # "gone" => Behind(kList', kRun.steps)
    BY <1>0, <2>1, TouchKeeps
  <2>3. kEffect' \in Effect
    BY <1>0, <2>1 DEF Effect
  <2> QED BY <1>0, <2>1, <2>2, <2>3 DEF CheckpointsInv, CheckpointsTypeOK, RecoverySound
<1>5. ASSUME NEW d \in BOOLEAN, NEW i \in BOOLEAN, MarkToolInFlight(d, i) PROVE CheckpointsInv'
  <2>1. /\ kRun.status = "running" /\ kRun' = [kRun EXCEPT !.at = "tool"]
        /\ UNCHANGED <<kList, kResumed>>
        /\ kEffect' = [NoEffect EXCEPT !.state = "in_flight", !.destructive = d, !.idempotent = i]
    BY <1>5 DEF MarkToolInFlight, IsRunning
  <2>2. kEffect' \in Effect
    BY <2>1 DEF Effect, NoEffect
  <2>3. kRun' \in RunFacts /\ kRun'.steps = kRun.steps /\ kRun'.status # "gone"
    BY <1>r1, <2>1
  <2> QED BY <1>0, <1>s, <2>1, <2>2, <2>3
<1>6. ASSUME NEW ok \in BOOLEAN, NEW rt \in BOOLEAN, NEW st \in BOOLEAN, MarkToolSettled(ok, rt, st)
      PROVE  CheckpointsInv'
  <2>1. /\ kRun.at = "tool" /\ kList' = Touch(kList) /\ kResumed' = kResumed
        /\ kRun' = [kRun EXCEPT !.at = IF IsRunning THEN "again" ELSE "idle"]
        /\ kEffect' = [kEffect EXCEPT !.state = IF ok THEN "completed" ELSE "failed",
                                      !.retryable = rt, !.proved = st]
    BY <1>6 DEF MarkToolSettled
  <2>2. kEffect' \in Effect
    BY <1>0, <2>1 DEF Effect
  <2>3. kRun.status # "gone"
    BY <1>n, <2>1
  <2>4. kRun' \in RunFacts /\ kRun'.steps = kRun.steps /\ kRun'.status # "gone"
    BY <1>r1, <2>1, <2>3
  <2> QED BY <1>s, <1>t, <2>1, <2>2, <2>3, <2>4
<1>7. ASSUME NEW b \in BOOLEAN, ToolThrows(b) PROVE CheckpointsInv'
  <2>1. /\ kRun.at = "tool" /\ UNCHANGED <<kList, kResumed>>
        /\ kRun' = [kRun EXCEPT !.at = "idle", !.status = "failed"]
        /\ kEffect' = [kEffect EXCEPT !.proved = b]
    BY <1>7 DEF ToolThrows
  <2>2. kEffect' \in Effect
    BY <1>0, <2>1 DEF Effect
  <2>3. kRun.status # "gone"
    BY <1>n, <2>1
  <2>4. kRun' \in RunFacts /\ kRun'.steps = kRun.steps /\ kRun'.status # "gone"
    BY <1>r3, <2>1
  <2> QED BY <1>0, <1>s, <2>1, <2>2, <2>3, <2>4
<1>8. ASSUME NEW sw \in BOOLEAN, NEW kept \in BOOLEAN, Failover(sw, kept) PROVE CheckpointsInv'
  <2>1. /\ kRun.status = "running" /\ UNCHANGED <<kEffect, kResumed>>
        /\ kRun' = [kRun EXCEPT !.at = "loop"]
        /\ kList' = kList \/ kList' = Taken(kList, "model_switch")
    BY <1>8 DEF Failover, IsRunning
  <2>2. Good(kList')
    <3>1. Good(kList)
      BY <1>0, <2>1
    <3> HIDE DEF Good, Taken
    <3> QED BY <1>c, <2>1, <3>1
  <2>3. kRun' \in RunFacts /\ kRun'.steps = kRun.steps /\ kRun'.status # "gone"
    BY <1>r1, <2>1
  <2> QED BY <1>0, <1>s, <2>1, <2>2, <2>3
<1>9. ASSUME NEW last \in BOOLEAN, StepCompletes(last) PROVE CheckpointsInv'
  <2> DEFINE cp == ExecutionCheckpoint("step_complete", kRun.n, TRUE, kRun.steps + 1)
             a == IF last THEN "idle" ELSE "loop"
             st == IF last THEN "ended" ELSE "running"
  <2>1. /\ kRun.status = "running" /\ UNCHANGED <<kEffect, kResumed>>
        /\ kList' = CreateCheckpoint(kList, cp)
        /\ kRun' = [kRun EXCEPT !.steps = kRun.steps + 1, !.at = a, !.status = st]
    BY <1>0, <1>9 DEF StepCompletes, IsRunning
  <2>2. kRun.steps + 1 \in Nat
    BY <1>f
  <2>3. cp \in Checkpoint /\ cp.completed /\ cp.progress = kRun.steps + 1
    <3>1. kRun.n \in Nat
      BY <1>f
    <3> QED BY <2>2, <3>1 DEF ExecutionCheckpoint, Checkpoint
  <2>4. a \in {"idle", "loop"} /\ st \in {"ended", "running"}
    OBVIOUS
  <2> HIDE DEF cp, a, st
  <2>5. kRun' \in RunFacts /\ kRun'.steps = kRun.steps + 1 /\ kRun'.status # "gone"
    BY <1>r7, <2>1, <2>4
  <2>6. /\ kList' \in Seq(Checkpoint) /\ Len(kList') <= KMax
        /\ Tracks(kList', kRun.steps + 1) /\ Behind(kList', kRun.steps + 1)
    BY <1>0, <2>1, <2>3, CreateKeeps
  <2> QED BY <1>0, <1>s, <2>1, <2>5, <2>6
<1>10. ASSUME ClearRun PROVE CheckpointsInv'
  <2>1. /\ kRun.at = "idle" /\ kList' = <<>> /\ kEffect' = NoEffect /\ kTries' = KMaxTries
        /\ kRun' = [kRun EXCEPT !.status = "gone"] /\ kResumed' = kResumed
    BY <1>10 DEF ClearRun
  <2>2. kRun' \in RunFacts /\ kRun'.status = "gone" /\ kRun'.at = "idle"
    BY <1>0, <2>1 DEF RunFacts
  <2>3. kList' \in Seq(Checkpoint) /\ Len(kList') <= KMax /\ Tracks(kList', kRun'.steps)
    BY <2>1, KAssumption DEF Tracks, Done
  <2>4. kEffect' \in Effect
    BY <2>1 DEF Effect, NoEffect
  <2>5. RecoverySound'
    BY <1>0, <2>1 DEF RecoverySound
  <2> QED BY <2>1, <2>2, <2>3, <2>4, <2>5 DEF CheckpointsInv, CheckpointsTypeOK
<1>11. CASE UNCHANGED checkpointVars
  <2>1. UNCHANGED <<kList, kRun, kEffect, kTries, kResumed>>
    BY <1>11 DEF checkpointVars
  <2> QED BY <1>0, <2>1 DEF CheckpointsInv, CheckpointsTypeOK, RecoverySound
<1> QED BY <1>1, <1>2, <1>3, <1>4, <1>5, <1>6, <1>7, <1>8, <1>9, <1>10, <1>11, RetryKeeps
        DEF CheckpointsNext

-----------------------------------------------------------------------------
(* The answer caches. *)

\* What dropping entries from a cache keeps.
LEMMA DroppingKeeps ==
  ASSUME NEW S, NEW s \in Seq(S), NEW gone
  PROVE  Dropping(s, gone) \in Seq(S)
<1> DEFINE K == {i \in 1..Len(s) : s[i] \notin gone}
           Eq(f) == f = [i \in 0..Len(s) |-> IF i = 0 THEN <<>>
                           ELSE IF s[i] \notin gone THEN Append(f[i - 1], s[i]) ELSE f[i - 1]]
           k == CHOOSE f : Eq(f)
<1>0. Len(s) \in Nat
  OBVIOUS
<1>1. PICK f : FilterIs(f, s, K, Len(s))
  <2> HIDE DEF K, Eq, k
  <2> QED BY <1>0, FilterExists
<1>2. \A i \in 0..Len(s) : i # 0 => (i \in K <=> s[i] \notin gone)
  BY <1>0
<1>3. Eq(f)
  BY <1>1, <1>2 DEF FilterIs
<1>4. Eq(k)
  BY <1>3
<1>5. Dropping(s, gone) = k[Len(s)]
  BY DEF Dropping
<1> HIDE DEF k
<1>6. \A i \in 1..Len(s) : i \in 0..Len(s) /\ i # 0
  BY <1>0
<1>7. Filters(k, s, K, Len(s))
  <2>1. k[0] = <<>>
    <3>1. 0 \in 0..Len(s)
      BY <1>0
    <3> QED BY <1>4, <3>1
  <2>2. \A i \in 1..Len(s) : k[i] = IF i \in K THEN Append(k[i - 1], s[i]) ELSE k[i - 1]
    <3>1. \A i \in 1..Len(s) : k[i] = IF s[i] \notin gone THEN Append(k[i - 1], s[i]) ELSE k[i - 1]
      BY <1>4, <1>6
    <3> QED BY <1>2, <1>6, <3>1
  <2> QED BY <2>1, <2>2 DEF Filters
<1>8. K \subseteq 1..Len(s)
  OBVIOUS
<1> HIDE DEF K
<1> QED BY <1>0, <1>5, <1>7, <1>8, FilterKeeps DEF K

\* What a run's answer is kept as: everything a gate asks of it later is what it
\* was when the call was made.
KeptAnswer ==
    {e \in [key: HRuns \X HModels \X HPrompts, run: HRuns, tenant: {HTenantOf[r] : r \in HRuns},
            task: {HTaskOf[r] : r \in HRuns}, model: HModels, prompt: HPrompts,
            tools: {HToolsOf[r] : r \in HRuns}, old: BOOLEAN] :
        /\ e.key = KeyOf(e.run, e.model, e.prompt)
        /\ e.tenant = HTenantOf[e.run] /\ e.tools = HToolsOf[e.run]}

\* The caches hold such answers, and a call under way what its answer will be
\* kept under.
CacheInv ==
    /\ hL1 \in Seq(KeptAnswer) /\ hSem \in Seq(KeptAnswer)
    /\ hRun \in [HRuns -> [model: HModels, prompt: HPrompts, pc: {"idle", "calling"},
                           held: {<<>>} \cup (HModels \X HPrompts \X BOOLEAN)]]
    /\ \A r \in HRuns : hRun[r].pc = "calling" => hRun[r].held \in HModels \X HPrompts \X BOOLEAN
    /\ ReuseIsSafe

LEMMA CacheInvInit == CachingInit => CacheInv
<1> SUFFICES ASSUME CachingInit PROVE CacheInv
  OBVIOUS
<1>1. hL1 \in Seq(KeptAnswer) /\ hSem \in Seq(KeptAnswer)
  BY DEF CachingInit
<1>2. /\ hRun \in [HRuns -> [model: HModels, prompt: HPrompts, pc: {"idle", "calling"},
                             held: {<<>>} \cup (HModels \X HPrompts \X BOOLEAN)]]
      /\ \A r \in HRuns : hRun[r].pc = "idle"
  BY DEF CachingInit
<1>3. ReuseIsSafe
  BY DEF CachingInit, ReuseIsSafe
<1> QED BY <1>1, <1>2, <1>3 DEF CacheInv

\* What an answer says of itself, and that it still says so when it is old.
LEMMA KeptSays ==
  ASSUME NEW e \in KeptAnswer
  PROVE  /\ e.run \in HRuns /\ e.key = KeyOf(e.run, e.model, e.prompt)
         /\ e.tenant = HTenantOf[e.run] /\ e.tools = HToolsOf[e.run]
         /\ [e EXCEPT !.old = TRUE] \in KeptAnswer
BY DEF KeptAnswer

\* An aged cache holds the same answers.
LEMMA AgedKept ==
  ASSUME NEW s \in Seq(KeptAnswer), NEW n
  PROVE  [i \in 1..Len(s) |-> IF i <= n THEN [s[i] EXCEPT !.old = TRUE] ELSE s[i]] \in Seq(KeptAnswer)
<1>1. \A i \in 1..Len(s) : s[i] \in KeptAnswer
  OBVIOUS
<1>2. \A i \in 1..Len(s) : (IF i <= n THEN [s[i] EXCEPT !.old = TRUE] ELSE s[i]) \in KeptAnswer
  BY <1>1, KeptSays
<1>3. Len(s) \in Nat
  OBVIOUS
<1> QED BY <1>2, <1>3

\* A look-up reuses what the gates let through, and otherwise notes what it asked.
LEMMA CallKeeps ==
  ASSUME CacheInv, NEW r \in HRuns, NEW b \in BOOLEAN, Call(r, b)
  PROVE  CacheInv'
<1> DEFINE me == hRun[r]
           hit == {e \in ToSet(hL1) : e.key = KeyOf(r, me.model, me.prompt) /\ ~e.old}
           near == {e \in BestEntry(r) : Gates(e, r, me.prompt) /\ CallerAccepts(e, r, me.model)}
           expired == {e \in ToSet(hL1) : e.key = KeyOf(r, me.model, me.prompt) /\ e.old}
<1>1. /\ hL1 \in Seq(KeptAnswer) /\ hSem \in Seq(KeptAnswer)
      /\ ToSet(hL1) \subseteq KeptAnswer /\ BestEntry(r) \subseteq KeptAnswer
      /\ \A e \in BestEntry(r) : InScope(e, r)
  <2>1. hL1 \in Seq(KeptAnswer) /\ hSem \in Seq(KeptAnswer)
    BY DEF CacheInv
  <2>2. ToSet(hL1) \subseteq KeptAnswer
    BY <2>1 DEF ToSet
  <2>3. BestEntry(r) \subseteq KeptAnswer /\ \A e \in BestEntry(r) : InScope(e, r)
    BY <2>1 DEF BestEntry
  <2> QED BY <2>1, <2>2, <2>3
<1>2. hSem' = hSem
  BY DEF Call
<1>3. CASE hit # {}
  <2> DEFINE e == CHOOSE x \in hit : TRUE
  <2>1. e \in hit
    BY <1>3
  <2>2. /\ hServed' = [layer |-> "local", run |-> r, entry |-> e, model |-> me.model, prompt |-> me.prompt]
        /\ hL1' = Touched(hL1, e) /\ hRun' = hRun
    BY <1>3 DEF Call
  <2> HIDE DEF e
  <2>3. e \in KeptAnswer /\ e.key = KeyOf(r, me.model, me.prompt) /\ ~e.old
    BY <1>1, <2>1
  <2>4. e.run = r /\ e.model = me.model /\ e.prompt = me.prompt
    <3>1. KeyOf(e.run, e.model, e.prompt) = KeyOf(r, me.model, me.prompt)
      BY <2>3, KeptSays
    <3> HIDE DEF me
    <3> QED BY <3>1 DEF KeyOf
  <2>5. ReuseIsSafe'
    BY <2>2, <2>3, <2>4, KeptSays DEF ReuseIsSafe
  <2>6. hL1' \in Seq(KeptAnswer)
    <3>1. Dropping(hL1, {e}) \in Seq(KeptAnswer)
      BY <1>1, DroppingKeeps
    <3> QED BY <2>2, <2>3, <3>1 DEF Touched
  <2> QED BY <1>1, <1>2, <2>2, <2>5, <2>6 DEF CacheInv
<1>4. CASE hit = {}
  <2>1. hL1' \in Seq(KeptAnswer)
    <3>1. hL1' = Dropping(hL1, expired)
      BY <1>4 DEF Call
    <3> QED BY <1>1, <3>1, DroppingKeeps
  <2>2. CASE ~b /\ near # {}
    <3> DEFINE e == CHOOSE x \in near : TRUE
    <3>1. e \in near
      BY <2>2
    <3>2. /\ hServed' = [layer |-> "semantic", run |-> r, entry |-> e, model |-> me.model, prompt |-> me.prompt]
          /\ hRun' = hRun
      BY <1>4, <2>2 DEF Call
    <3> HIDE DEF e
    <3>3. /\ e \in KeptAnswer /\ InScope(e, r)
          /\ Gates(e, r, me.prompt) /\ CallerAccepts(e, r, me.model)
      BY <1>1, <3>1
    <3>4. ReuseIsSafe'
      BY <3>2, <3>3, KeptSays DEF ReuseIsSafe, InScope, Gates, CallerAccepts
    <3> QED BY <1>1, <1>2, <2>1, <3>2, <3>4 DEF CacheInv
  <2>3. CASE b \/ near = {}
    <3>1. /\ hServed' = hServed
          /\ hRun' = [hRun EXCEPT ![r].pc = "calling", ![r].held = <<me.model, me.prompt, b>>]
      BY <1>4, <2>3 DEF Call
    <3>2. ReuseIsSafe'
      BY <3>1 DEF CacheInv, ReuseIsSafe
    <3>3. me.model \in HModels /\ me.prompt \in HPrompts
      BY DEF CacheInv
    <3> DEFINE c == [me EXCEPT !.pc = "calling", !.held = <<me.model, me.prompt, b>>]
    <3>4. /\ c \in [model: HModels, prompt: HPrompts, pc: {"idle", "calling"},
                    held: {<<>>} \cup (HModels \X HPrompts \X BOOLEAN)]
          /\ c.held \in HModels \X HPrompts \X BOOLEAN
      BY <3>3 DEF CacheInv
    <3>5. hRun' = [hRun EXCEPT ![r] = c]
      BY <3>1
    <3> QED BY <1>1, <1>2, <2>1, <3>2, <3>4, <3>5 DEF CacheInv
  <2> QED BY <2>2, <2>3
<1> QED BY <1>3, <1>4

\* The provider's answer is kept as what was asked.
LEMMA AnswerKeeps ==
  ASSUME CacheInv, NEW r \in HRuns, NEW b \in BOOLEAN, CallAnswered(r, b)
  PROVE  CacheInv'
<1>1. hRun[r].held \in HModels \X HPrompts \X BOOLEAN
  BY DEF CallAnswered, CacheInv
<1>2. Entry(r) \in KeptAnswer
  <2>1. hRun[r].held[1] \in HModels /\ hRun[r].held[2] \in HPrompts
    BY <1>1
  <2> QED BY <2>1 DEF Entry, KeptAnswer, KeyOf
<1> DEFINE e == Entry(r)
<1>3. hL1' = SetL1(hL1, e) /\ hSem' \in {hSem, StoreSem(hSem, e)} /\ hServed' = hServed
  BY DEF CallAnswered
<1> HIDE DEF e
<1>4. hL1 \in Seq(KeptAnswer) /\ hSem \in Seq(KeptAnswer) /\ e \in KeptAnswer
  BY <1>2 DEF CacheInv, e
<1>5. hL1' \in Seq(KeptAnswer)
  <2> DEFINE room == IF Len(hL1) >= HMaxL1 THEN Tail(hL1) ELSE hL1
             gone == {x \in ToSet(room) : x.key = e.key}
  <2>1. room \in Seq(KeptAnswer)
    <3>1. CASE Len(hL1) >= HMaxL1
      <4>1. hL1 # <<>>
        BY <3>1, CachingAssumption
      <4> QED BY <1>4, <3>1, <4>1
    <3> QED BY <1>4, <3>1
  <2>2. hL1' = Append(Dropping(room, gone), e)
    BY <1>3 DEF SetL1
  <2> HIDE DEF room, gone
  <2> QED BY <1>4, <2>1, <2>2, DroppingKeeps
<1>6. hSem' \in Seq(KeptAnswer)
  <2> DEFINE all == Append(hSem, e)
  <2>1. all \in Seq(KeptAnswer) /\ all # <<>>
    BY <1>4
  <2>2. Tail(all) \in Seq(KeptAnswer)
    BY <2>1
  <2> QED BY <1>3, <1>4, <2>1, <2>2 DEF StoreSem
<1>7. /\ hRun' \in [HRuns -> [model: HModels, prompt: HPrompts, pc: {"idle", "calling"},
                              held: {<<>>} \cup (HModels \X HPrompts \X BOOLEAN)]]
      /\ \A q \in HRuns : hRun'[q].pc = "calling" => hRun'[q].held \in HModels \X HPrompts \X BOOLEAN
  <2> DEFINE c == [hRun[r] EXCEPT !.pc = "idle", !.held = <<>>]
  <2>1. /\ c \in [model: HModels, prompt: HPrompts, pc: {"idle", "calling"},
                  held: {<<>>} \cup (HModels \X HPrompts \X BOOLEAN)]
        /\ c.pc = "idle"
    BY DEF CacheInv
  <2>2. hRun' = [hRun EXCEPT ![r] = c]
    BY DEF CallAnswered
  <2> QED BY <2>1, <2>2 DEF CacheInv
<1>8. ReuseIsSafe'
  BY <1>3 DEF CacheInv, ReuseIsSafe
<1> QED BY <1>5, <1>6, <1>7, <1>8 DEF CacheInv

LEMMA CacheInvStep == CacheInv /\ [CachingNext]_cachingVars => CacheInv'
<1> SUFFICES ASSUME CacheInv, [CachingNext]_cachingVars PROVE CacheInv'
  OBVIOUS
<1>0. hL1 \in Seq(KeptAnswer) /\ hSem \in Seq(KeptAnswer)
  BY DEF CacheInv
<1>1. ASSUME NEW r \in HRuns, NEW m \in HModels, SwitchModel(r, m) PROVE CacheInv'
  <2>1. hL1' \in Seq(KeptAnswer)
    BY <1>0, <1>1, DroppingKeeps DEF SwitchModel, RunsKeys
  <2>2. /\ hRun' = [hRun EXCEPT ![r] = [hRun[r] EXCEPT !.model = m]]
        /\ hSem' = hSem /\ hServed' = hServed
    BY <1>1 DEF SwitchModel
  <2> QED BY <1>0, <2>1, <2>2 DEF CacheInv, ReuseIsSafe
<1>2. ASSUME NEW r \in HRuns, NEW p \in HPrompts, PromptChanges(r, p) PROVE CacheInv'
  <2>1. /\ hRun' = [hRun EXCEPT ![r] = [hRun[r] EXCEPT !.prompt = p]]
        /\ hL1' = hL1 /\ hSem' = hSem /\ hServed' = hServed
    BY <1>2 DEF PromptChanges
  <2> QED BY <1>0, <2>1 DEF CacheInv, ReuseIsSafe
<1>3. ASSUME NEW n \in 1..HMaxSem, Age(n) PROVE CacheInv'
  <2>1. /\ hSem' = [i \in 1..Len(hSem) |-> IF i <= n THEN [hSem[i] EXCEPT !.old = TRUE] ELSE hSem[i]]
        /\ hL1' = [i \in 1..Len(hL1) |-> IF i <= n THEN [hL1[i] EXCEPT !.old = TRUE] ELSE hL1[i]]
        /\ hRun' = hRun /\ hServed' = hServed
    BY <1>3 DEF Age
  <2>2. hSem' \in Seq(KeptAnswer) /\ hL1' \in Seq(KeptAnswer)
    BY <1>0, <2>1, AgedKept
  <2> QED BY <2>1, <2>2 DEF CacheInv, ReuseIsSafe
<1>4. ASSUME NEW r \in HRuns, RunRetired(r) PROVE CacheInv'
  <2>1. hL1' \in Seq(KeptAnswer) /\ hSem' = hSem /\ hServed' = hServed /\ hRun' = hRun
    BY <1>0, <1>4, DroppingKeeps DEF RunRetired, RunsKeys
  <2> QED BY <1>0, <2>1 DEF CacheInv, ReuseIsSafe
<1>5. CASE UNCHANGED cachingVars
  BY <1>5 DEF cachingVars, CacheInv, ReuseIsSafe
<1> QED BY <1>1, <1>2, <1>3, <1>4, <1>5, CallKeeps, AnswerKeeps DEF CachingNext

-----------------------------------------------------------------------------
(* The platform. *)

\* Every part is in order.
PlatformInv ==
    /\ RegistryInv /\ MemoryInv /\ LearningInv
    /\ PlanInv /\ EpisodeInv /\ ConstraintInv
    /\ VerificationInv /\ AccountsInv /\ TenancyInv
    /\ GitInv /\ StagedInv /\ CheckpointsInv /\ CacheInv

\* What a step of the whole is to each part.
LEMMA PartsMove ==
  ASSUME [PlatformNext]_<<platformVars, part>>
  PROVE  /\ [RegistryNext]_registryVars /\ [MemoryNext]_memoryVars /\ [LearningNext]_learningVars
         /\ PlanNext \/ UNCHANGED planPart
         /\ EpisodeNext \/ UNCHANGED episodePart
         /\ ConstraintNext \/ UNCHANGED constraintPart
         /\ [VerificationNext]_verificationVars /\ [AccountsNext]_accountVars
         /\ AccessNext \/ KeysNext \/ UNCHANGED tenancyVars
         /\ [GitNext]_gitVars /\ [CheckpointsNext]_checkpointVars /\ [CachingNext]_cachingVars
<1>0. /\ UNCHANGED plansVars => UNCHANGED <<planPart, episodePart, constraintPart>>
      /\ PlanNext => UNCHANGED <<episodePart, constraintPart>>
      /\ EpisodeNext => UNCHANGED <<planPart, constraintPart>>
      /\ ConstraintNext => UNCHANGED <<planPart, episodePart>>
  <2>1. UNCHANGED plansVars => UNCHANGED <<planPart, episodePart, constraintPart>>
    BY DEF plansVars, planPart, episodePart, constraintPart
  <2>2. PlanNext => UNCHANGED <<episodePart, constraintPart>>
    BY DEF PlanNext, CreatePlan, AdaptPlan, SetStatus
  <2>3. EpisodeNext => UNCHANGED <<planPart, constraintPart>>
    BY DEF EpisodeNext, FirstStart, RunEnds, RunRetried, ContinueEpisode
  <2>4. ConstraintNext => UNCHANGED <<planPart, episodePart>>
    BY DEF ConstraintNext, UserCommand, GateWrite, WriteDone, ChangesetWritten
  <2> QED BY <2>1, <2>2, <2>3, <2>4
<1>1. CASE UNCHANGED <<platformVars, part>>
  BY <1>0, <1>1 DEF platformVars
<1>2. CASE PlatformNext
  BY <1>0, <1>2 DEF PlatformNext
<1> QED BY <1>1, <1>2

\* The parts start in order.
LEMMA PlatformInvInit == PlatformInit => PlatformInv
<1> SUFFICES ASSUME PlatformInit PROVE PlatformInv
  OBVIOUS
<1>1. /\ RegistryInit /\ MemoryInit /\ LearningInit /\ PlansInit /\ VerificationInit
      /\ AccountsInit /\ TenancyInit /\ GitInit /\ CheckpointsInit /\ CachingInit
  BY DEF PlatformInit
<1>2. RegistryInv /\ MemoryInv /\ LearningInv
  BY <1>1, RegistryInvInit, MemoryInvInit, LearningInvInit
<1>3. PlanInv /\ EpisodeInv /\ ConstraintInv
  BY <1>1, PlanInvInit, EpisodeInvInit, ConstraintInvInit
<1>4. VerificationInv /\ AccountsInv /\ TenancyInv
  BY <1>1, VerificationInvInit, AccountsInvInit, TenancyInvInit
<1>5. GitInv /\ StagedInv /\ CheckpointsInv /\ CacheInv
  BY <1>1, GitInvInit, StagedInvInit, CheckpointsInvInit, CacheInvInit
<1> QED BY <1>2, <1>3, <1>4, <1>5 DEF PlatformInv

\* And go on so.
LEMMA PlatformInvStep == PlatformInv /\ [PlatformNext]_<<platformVars, part>> => PlatformInv'
<1> SUFFICES ASSUME PlatformInv, [PlatformNext]_<<platformVars, part>> PROVE PlatformInv'
  OBVIOUS
<1>1. /\ RegistryInv /\ MemoryInv /\ LearningInv /\ PlanInv /\ EpisodeInv /\ ConstraintInv
      /\ VerificationInv /\ AccountsInv /\ TenancyInv /\ GitInv /\ StagedInv /\ CheckpointsInv /\ CacheInv
  BY DEF PlatformInv
<1>2. RegistryInv' /\ MemoryInv' /\ LearningInv'
  BY <1>1, PartsMove, RegistryInvStep, MemoryInvStep, LearningInvStep
<1>3. PlanInv' /\ EpisodeInv' /\ ConstraintInv'
  BY <1>1, PartsMove, PlanInvStep, EpisodeInvStep, ConstraintInvStep
<1>4. VerificationInv' /\ AccountsInv' /\ TenancyInv'
  BY <1>1, PartsMove, VerificationInvStep, AccountsInvStep, TenancyInvStep
<1>5. GitInv' /\ StagedInv' /\ CheckpointsInv' /\ CacheInv'
  BY <1>1, PartsMove, GitInvStep, StagedInvStep, CheckpointsInvStep, CacheInvStep
<1> QED BY <1>2, <1>3, <1>4, <1>5 DEF PlatformInv

\* So the invariants of the parts hold always.
LEMMA PlatformInvAlways == PlatformSpec => []PlatformInv
<1>1. PlatformInit => PlatformInv
  BY PlatformInvInit
<1>2. PlatformInv /\ [PlatformNext]_<<platformVars, part>> => PlatformInv'
  BY PlatformInvStep
<1> QED BY <1>1, <1>2, PTL DEF PlatformSpec

\* The user's word stands (ExecutionController of controller.js): no write that passed its gate
\* goes where the user has forbidden it, and the run commits and stages what was
\* approved and is its own, whatever commands, approvals and writes interleave.
THEOREM UserWinsAlways == PlatformSpec => []UserWins
<1>1. PlatformInv => UserWins
  BY GitInvSound, ConstraintInvHeeds DEF PlatformInv, UserWins
<1> QED BY <1>1, PlatformInvAlways, PTL

\* A plan never stops by itself and a run's episodes are one chain of which only
\* the last is open, across starts, ends, retries and continuations
\* (plans-episodes.js).
THEOREM PlansSoundAlways == PlatformSpec => []PlansSound
<1>1. PlatformInv => PlansSound
  BY PlanInvMoves DEF PlatformInv, EpisodeInv, PlansSound
<1> QED BY <1>1, PlatformInvAlways, PTL

\* However many verifications of a run overlap (verifyChangeset), one answers ok
\* only when its own tests passed, and alone only when its own diff could be read
\* too, and what it recorded of the tests is not lost to anything but newer
\* records or another verification that it overlapped.
THEOREM VerdictSoundAlways == PlatformSpec => []VerdictSound
<1>1. PlatformInv => VerdictSound
  BY VerificationInvSound DEF PlatformInv
<1> QED BY <1>1, PlatformInvAlways, PTL

\* Tenants are apart (accounts, access and keys of server.js), for any number of
\* sign-ups, principals and keys: one user per address, no session served after
\* its end, one rule for who sees a run wherever its facts stand, and only its own
\* tenant's verified keys for its calls.
THEOREM TenantsApartAlways == PlatformSpec => []TenantsApart
<1>1. PlatformInv => TenantsApart
  BY AccountsInvSound DEF PlatformInv, TenancyInv, AccessInv, KeysInv, TenantsApart
<1> QED BY <1>1, PlatformInvAlways, PTL

\* Real recovery (checkpoint-manager.js, recovery-service.js): a run restored from a checkpoint goes
\* on after the last step it completed, one without any completed none or lost
\* them to newer checkpoints, and none is resumed over a tool whose effect is not
\* known, for every number of checkpoints, steps and tries.
THEOREM RecoverySoundAlways == PlatformSpec => []RecoverySound
<1>1. PlatformInv => RecoverySound
  BY DEF PlatformInv, CheckpointsInv
<1> QED BY <1>1, PlatformInvAlways, PTL

\* The registry knows every run once, with what a retry needs, and who waits for
\* a run is told how it ended, whatever is retired, restored or retried (the
\* registry of orchestrator.js).
THEOREM RegistryTrueAlways == PlatformSpec => []RegistryTrue
<1>1. PlatformInv => RegistryTrue
  BY RegistryInvSound DEF PlatformInv, RegistryTrue
<1> QED BY <1>1, PlatformInvAlways, PTL

\* What is carried from one run to the next can be trusted (memory-manager.js,
\* performance-store.js): memory shows a run nothing that is another's, purged or
\* unapproved, within its limits, and a tenant's estimates rest on the tenant's
\* own ends of runs across saves and restarts.
THEOREM LearningSoundAlways == PlatformSpec => []LearningSound
<1>1. PlatformInv => LearningSound
  BY MemoryInvSound, LearningInvSound DEF PlatformInv, LearningSound
<1> QED BY <1>1, PlatformInvAlways, PTL

\* Reuse is safe (cache-manager.js, semantic-cache.js and _callModel): an answer
\* served again was given to the same tenant by the model and for the prompt the
\* run has when it asks, for any number of runs, models, prompts and cache sizes
\* and whatever similarity of tasks.
THEOREM ReuseSafeAlways == PlatformSpec => []ReuseIsSafe
<1>1. PlatformInv => ReuseIsSafe
  BY DEF PlatformInv, CacheInv
<1> QED BY <1>1, PlatformInvAlways, PTL

-----------------------------------------------------------------------------
(* The least member of a finite set. *)

\* R orders S strictly and totally.
Orders(R, S) ==
    /\ \A a \in S : <<a, a>> \notin R
    /\ \A a, b \in S : a # b => <<a, b>> \in R \/ <<b, a>> \in R
    /\ \A a, b, c \in S : <<a, b>> \in R /\ <<b, c>> \in R => <<a, c>> \in R

\* A finite set that is ordered totally has a least member.
LEMMA FiniteLeast ==
    ASSUME NEW S, IsFiniteSet(S), S # {}, NEW R, Orders(R, S)
    PROVE  \E a \in S : \A b \in S \ {a} : <<a, b>> \in R
<1> DEFINE Before(a) == {b \in S : <<b, a>> \in R}
           Sizes == {Cardinality(Before(a)) : a \in S}
<1>1. ASSUME NEW a \in S PROVE IsFiniteSet(Before(a)) /\ Cardinality(Before(a)) \in Nat
  BY FS_Subset, FS_CardinalityType
<1>2. Sizes \subseteq Nat /\ Sizes # {}
  BY <1>1
<1>3. PICK n \in Sizes : \A m \in Sizes : n <= m
  BY <1>2, LeastNat
<1>4. PICK a \in S : n = Cardinality(Before(a))
  BY <1>3
<1>5. ASSUME NEW b \in S \ {a} PROVE <<a, b>> \in R
  <2> SUFFICES ASSUME <<b, a>> \in R PROVE FALSE
    BY DEF Orders
  <2>1. Before(b) \subseteq Before(a) /\ b \in Before(a) /\ b \notin Before(b)
    BY DEF Orders
  <2>2. Before(b) # Before(a)
    BY <2>1, Zenon
  <2>3. Cardinality(Before(b)) < Cardinality(Before(a))
    <3> HIDE DEF Before
    <3> QED BY <2>1, <2>2, <1>1, FS_Subset
  <2>4. n <= Cardinality(Before(b))
    BY <1>3
  <2>5. n \in Nat /\ Cardinality(Before(b)) \in Nat
    BY <1>1, <1>2
  <2> QED BY <2>3, <2>4, <2>5, <1>4
<1> QED BY <1>5

-----------------------------------------------------------------------------
(* The router's numbers. *)

Rate == Nat \cup {Unknown}

\* What a model, a policy and the situation of a run are made of.
IsDefinition(m) ==
    /\ m.id \in Nat /\ m.id # NoModel /\ m.window \in Nat
    /\ m.inp \in Rate /\ m.out \in Rate /\ m.cach \in Rate
    /\ m.qual \in Rate /\ m.lat \in Rate /\ m.rel \in Rate
    /\ m.perf.attempts \in Nat /\ m.perf.successes \in Nat

IsPolicy(pol) ==
    /\ pol.qualityFloor \in Nat /\ pol.latencyTarget \in Nat /\ pol.minReliability \in Nat
    /\ pol.preferred \in Nat /\ pol.maxRetries \in Nat
    /\ pol.toolCost \in Nat /\ pol.latencyPrice \in Nat

IsSituation(ctx) ==
    /\ ctx.need \in Nat /\ ctx.cached \in Nat /\ ctx.util \in Nat
    /\ ctx.curLat \in Nat /\ ctx.current \in Nat /\ ctx.rem \in Int

\* A list of models: finitely many, each under an id of its own.
IsList(list) ==
    /\ IsFiniteSet(list)
    /\ \A m \in list : IsDefinition(m)
    /\ \A m, n \in list : m.id = n.id => m = n

LEMMA RateNumbers ==
    ASSUME NEW v, v \in Rate
    PROVE  v \in Int /\ NumberOf(v) \in Int /\ OrNeutral(v) \in Int
BY DEF Rate, Unknown, Known, NumberOf, OrNeutral, Largest, Least

LEMMA Extremes ==
    ASSUME NEW a \in Int, NEW b \in Int
    PROVE  Largest(a, b) \in Int /\ Least(a, b) \in Int
BY DEF Largest, Least

LEMMA ProviderCostType ==
    ASSUME NEW m, NEW ctx, IsDefinition(m), IsSituation(ctx)
    PROVE  EstimateProviderCost(m, ctx) \in Int
<1> DEFINE cached == Least(ctx.need, ctx.cached)
<1>1. cached \in Int /\ ctx.need \in Int /\ NumberOf(m.cach) \in Int
  <2>1. ctx.need \in Int /\ ctx.cached \in Int /\ NumberOf(m.cach) \in Int
    BY RateNumbers DEF IsDefinition, IsSituation
  <2> QED BY <2>1, Extremes
<1>2. m.inp \in Int /\ m.out \in Int
  BY DEF IsDefinition, Rate, Unknown
<1> HIDE DEF cached
<1>3. (ctx.need - cached) * m.inp + cached * NumberOf(m.cach) + m.out \in Int
  BY <1>1, <1>2
<1> QED BY <1>3 DEF EstimateProviderCost, cached, Unknown

LEMMA SwitchCostType ==
    ASSUME NEW m, NEW ctx, IsDefinition(m), IsSituation(ctx)
    PROVE  SwitchCostFor(m, ctx) \in Int
<1> DEFINE slower == Largest(0, NumberOf(m.lat) - ctx.curLat)
           over == IF ctx.curProvider # Unknown /\ m.provider # Unknown
                      /\ ctx.curProvider # m.provider THEN 10 ELSE 0
<1>1. slower \in Int /\ over \in Int
  <2>1. NumberOf(m.lat) - ctx.curLat \in Int
    BY RateNumbers DEF IsDefinition, IsSituation
  <2> QED BY <2>1, Extremes
<1>2. ctx.need \in Int /\ ctx.util \in Int /\ ctx.cached \in Int
  BY DEF IsSituation
<1>3. SwitchingCost(m, ctx) = (12 * (50 + 5 * ctx.util + 10 * ctx.cached + 5 * ctx.need
                                     + over + slower \div 2 + 5)) \div 100
  BY DEF SwitchingCost
<1> HIDE DEF slower, over
<1>4. SwitchingCost(m, ctx) \in Int
  BY <1>1, <1>2, <1>3
<1> QED BY <1>4 DEF SwitchCostFor

LEMMA TaskFitType ==
    ASSUME NEW m, NEW ctx, IsDefinition(m)
    PROVE  TaskFit(m, ctx) \in Int
<1>1. PredictedSuccess(m.perf) \in Int
  BY DEF PredictedSuccess, IsDefinition
<1>2. 50 + 3 * Least(10, m.qual) \in Int
  <2>1. m.qual \in Int /\ 10 \in Int
    BY RateNumbers DEF IsDefinition
  <2>2. Least(10, m.qual) \in Int
    BY <2>1, Extremes
  <2> QED BY <2>2
<1> QED BY <1>1, <1>2 DEF TaskFit, Unknown

LEMMA OverlayType ==
    ASSUME NEW m, NEW ctx, IsDefinition(m), IsSituation(ctx)
    PROVE  Overlay(m, ctx) \in Int
<1> DEFINE full == (100 * ctx.need) \div m.window
           fit == IF ctx.learning /\ m.perf.attempts >= 3
                  THEN ((TaskFit(m, ctx) - 70) * 8) \div 10 ELSE 0
           left == IF full <= 85 THEN 100 - (3 * full) \div 10 ELSE Largest(10, 100 - full)
           roomy == m.window > 0 /\ 10 * ctx.need > 6 * m.window /\ ~TooSmall(m, ctx)
           room == IF roomy THEN ((left - 70) * 4) \div 10 ELSE 0
           tool == IF ~ctx.needsTools THEN 0
                   ELSE IF "tools" \in m.caps THEN 8
                   ELSE IF "structured" \in m.caps THEN 0 ELSE -6
<1>1. fit \in Int
  BY TaskFitType
<1>2. tool \in Int
  OBVIOUS
<1>3. roomy => left \in Int
  <2> SUFFICES ASSUME m.window > 0 PROVE left \in Int
    OBVIOUS
  <2>1. full \in Int
    BY DEF IsDefinition, IsSituation
  <2> HIDE DEF full
  <2>2. Largest(10, 100 - full) \in Int
    BY <2>1, Extremes
  <2> QED BY <2>1, <2>2
<1>4. room \in Int
  <2> HIDE DEF left, roomy
  <2> QED BY <1>3
<1>5. Overlay(m, ctx) = Largest(-60, Least(60, fit + room + tool))
  BY DEF Overlay
<1> HIDE DEF fit, room, tool
<1> QED BY <1>1, <1>2, <1>4, <1>5, Extremes

LEMMA ScoreType ==
    ASSUME NEW m, NEW pol, NEW ctx, IsDefinition(m), IsSituation(ctx)
    PROVE  ScoreModel(m, pol, ctx) \in Int
<1> DEFINE cost == IF HasOptimizerPricing(m, ctx) THEN Largest(0, 10 - m.out) ELSE 5
           speed == IF Known(m.lat) THEN Largest(0, 10 - m.lat) ELSE 5
           raw == OrNeutral(m.qual) * 8 + cost * 4 + speed * 3
                  + OrNeutral(m.rel) * 3 + Largest(0, 10 - ctx.util) * 2
           kept == (raw * (100 - Least(30, SwitchCostFor(m, ctx)))) \div 100
<1>0. m.out \in Int /\ m.lat \in Int /\ ctx.util \in Int
  BY RateNumbers DEF IsDefinition, IsSituation
<1>1. cost \in Int /\ speed \in Int /\ Largest(0, 10 - ctx.util) \in Int
  <2>1. 10 - m.out \in Int /\ 10 - m.lat \in Int /\ 10 - ctx.util \in Int /\ 0 \in Int
    BY <1>0
  <2>2. /\ Largest(0, 10 - m.out) \in Int /\ Largest(0, 10 - m.lat) \in Int
        /\ Largest(0, 10 - ctx.util) \in Int
    BY <2>1, Extremes
  <2> QED BY <2>2
<1>2. OrNeutral(m.qual) \in Int /\ OrNeutral(m.rel) \in Int
  BY RateNumbers DEF IsDefinition
<1>3. raw \in Int
  <2> HIDE DEF cost, speed
  <2> QED BY <1>1, <1>2
<1>4. Least(30, SwitchCostFor(m, ctx)) \in Int
  BY SwitchCostType, Extremes
<1>5. kept \in Int
  <2> HIDE DEF raw
  <2> DEFINE left == 100 - Least(30, SwitchCostFor(m, ctx))
  <2>1. left \in Int
    BY <1>4
  <2> HIDE DEF left
  <2>2. raw * left \in Int
    BY <1>3, <2>1
  <2>3. (raw * left) \div 100 \in Int
    BY <2>2
  <2> QED BY <2>3 DEF left
<1>6. ScoreModel(m, pol, ctx) =
         IF Excluded(m, pol, ctx) THEN 0
         ELSE Largest(0, Least(200, Largest(0, Least(200, kept)) + Overlay(m, ctx)))
  BY DEF ScoreModel
<1> HIDE DEF kept
<1>7. Largest(0, Least(200, kept)) + Overlay(m, ctx) \in Int
  <2>1. Least(200, kept) \in Int
    BY <1>5, Extremes
  <2>2. Largest(0, Least(200, kept)) \in Int
    BY <2>1, Extremes
  <2> QED BY <2>2, OverlayType
<1> DEFINE sum == Largest(0, Least(200, kept)) + Overlay(m, ctx)
<1> HIDE DEF sum
<1>8. Least(200, sum) \in Int
  BY <1>7, Extremes DEF sum
<1>9. Largest(0, Least(200, sum)) \in Int
  BY <1>8, Extremes
<1> QED BY <1>6, <1>9 DEF sum

LEMMA TotalType ==
    ASSUME NEW m, NEW pol, NEW ctx, IsDefinition(m), IsPolicy(pol), IsSituation(ctx)
    PROVE  ExpectedTotal(m, pol, ctx) \in Int
<1> DEFINE r == Retries(pol) + 1
           q == 10 - NumberOf(m.rel)
           s1 == 10 + q
           s2 == 100 + q * s1
           s3 == 1000 + q * s2
           s4 == 10000 + q * s3
           s5 == 100000 + q * s4
<1>1. r \in 1..6
  BY DEF Retries, Least, IsPolicy
<1>2. q \in Int
  BY RateNumbers DEF IsDefinition
<1>3. s1 \in Int
  BY <1>2
<1>4. s2 \in Int
  <2> HIDE DEF q, s1
  <2> QED BY <1>2, <1>3
<1>5. s3 \in Int
  <2> HIDE DEF q, s2
  <2> QED BY <1>2, <1>4
<1>6. s4 \in Int
  <2> HIDE DEF q, s3
  <2> QED BY <1>2, <1>5
<1>7. s5 \in Int
  <2> HIDE DEF q, s4
  <2> QED BY <1>2, <1>6
<1>8. ExpectedAttempts(m, pol) \in Int
  <2>1. ExpectedAttempts(m, pol) = <<1, s1, s2, s3, s4, s5>>[r]
    BY DEF ExpectedAttempts
  <2> HIDE DEF r, s1, s2, s3, s4, s5
  <2>2. \A i \in 1..6 : <<1, s1, s2, s3, s4, s5>>[i] \in Int
    BY <1>3, <1>4, <1>5, <1>6, <1>7
  <2> QED BY <2>1, <2>2, <1>1
<1>9. Tens[r] \in Int
  <2> HIDE DEF r
  <2> QED BY <1>1 DEF Tens
<1>10. SwitchCostFor(m, ctx) + pol.toolCost + NumberOf(m.lat) * pol.latencyPrice \in Int
  <2>1. NumberOf(m.lat) \in Int /\ pol.toolCost \in Int /\ pol.latencyPrice \in Int
    BY RateNumbers DEF IsDefinition, IsPolicy
  <2>2. NumberOf(m.lat) * pol.latencyPrice \in Int
    BY <2>1
  <2> QED BY <2>1, <2>2, SwitchCostType
<1> DEFINE once == EstimateProviderCost(m, ctx)
           rest == SwitchCostFor(m, ctx) + pol.toolCost + NumberOf(m.lat) * pol.latencyPrice
           tries == ExpectedAttempts(m, pol)
           tens == Tens[r]
<1>11. once \in Int
  BY ProviderCostType
<1>12. ExpectedTotal(m, pol, ctx) =
          IF ~Known(once) THEN Unknown ELSE once * tries + tens * rest
  BY DEF ExpectedTotal
<1> HIDE DEF once, tries, rest, tens
<1>13. once * tries + tens * rest \in Int
  BY <1>8, <1>9, <1>10, <1>11 DEF tries, rest, tens
<1> QED BY <1>12, <1>13 DEF Unknown

LEMMA SuccessType ==
    ASSUME NEW m, NEW ctx, IsDefinition(m)
    PROVE  SuccessForObjective(m, ctx) \in Nat \ {0}
<1> DEFINE fit == TaskFit(m, ctx)
           odds == IF Known(fit) THEN fit ELSE 10 * OrNeutral(m.qual)
<1>1. odds \in Int
  BY TaskFitType, RateNumbers DEF IsDefinition
<1>2. SuccessForObjective(m, ctx) = Largest(5, Least(100, odds))
  BY DEF SuccessForObjective
<1> HIDE DEF odds
<1> QED BY <1>1, <1>2 DEF Largest, Least

-----------------------------------------------------------------------------
(* The order of the objective. *)

\* Multiplying by a positive number keeps an order, and so does dividing.
LEMMA Scaled ==
    ASSUME NEW x \in Int, NEW y \in Int, NEW k \in Nat \ {0}
    PROVE  (x < y <=> x * k < y * k) /\ (x <= y <=> x * k <= y * k)
OBVIOUS

\* Quotients ta/sa, tb/sb, tc/sc are compared without dividing.
LEMMA Quotients ==
    ASSUME NEW ta \in Int, NEW tb \in Int, NEW tc \in Int,
           NEW sa \in Nat \ {0}, NEW sb \in Nat \ {0}, NEW sc \in Nat \ {0},
           ta * sb <= tb * sa, tb * sc <= tc * sb
    PROVE  /\ ta * sc <= tc * sa
           /\ ta * sb < tb * sa \/ tb * sc < tc * sb => ta * sc < tc * sa
<1> DEFINE p == ta * sb  q == tb * sa  u == tb * sc  v == tc * sb  x == ta * sc  y == tc * sa
<1>1. p \in Int /\ q \in Int /\ u \in Int /\ v \in Int /\ x \in Int /\ y \in Int
  OBVIOUS
<1>2. p * sc = x * sb /\ q * sc = u * sa /\ v * sa = y * sb
  OBVIOUS
<1>3. p <= q /\ u <= v
  OBVIOUS
<1> HIDE DEF p, q, u, v, x, y
<1>4. p * sc <= q * sc /\ u * sa <= v * sa
  BY <1>1, <1>3, Scaled
<1>5. p * sc \in Int /\ q * sc \in Int /\ u * sa \in Int /\ v * sa \in Int
      /\ x * sb \in Int /\ y * sb \in Int
  BY <1>1
<1>6. x * sb <= y * sb
  BY <1>2, <1>4, <1>5
<1>7. x <= y
  BY <1>6, <1>1, Scaled
<1>8. ASSUME p < q \/ u < v PROVE x < y
  <2>1. p * sc < q * sc \/ u * sa < v * sa
    BY <1>8, <1>1, Scaled
  <2>2. x * sb < y * sb
    BY <2>1, <1>2, <1>4, <1>5
  <2> QED BY <2>2, <1>1, Scaled
<1> QED BY <1>7, <1>8 DEF p, q, u, v, x, y

\* What Cheaper compares.
LEMMA CheaperType ==
    ASSUME NEW pol, NEW ctx, IsPolicy(pol), IsSituation(ctx), NEW m, IsDefinition(m)
    PROVE  ExpectedTotal(m, pol, ctx) \in Int /\ SuccessForObjective(m, ctx) \in Nat \ {0}
BY TotalType, SuccessType

\* Being cheaper is a weak order: not cheaper than is transitive.
LEMMA CheaperOrder ==
    ASSUME NEW pol, NEW ctx, IsPolicy(pol), IsSituation(ctx),
           NEW a, NEW b, NEW c, IsDefinition(a), IsDefinition(b), IsDefinition(c)
    PROVE  /\ ~Cheaper(a, a, pol, ctx)
           /\ Cheaper(a, b, pol, ctx) => ~Cheaper(b, a, pol, ctx)
           /\ Cheaper(a, b, pol, ctx) /\ ~Cheaper(c, b, pol, ctx) => Cheaper(a, c, pol, ctx)
           /\ ~Cheaper(b, a, pol, ctx) /\ Cheaper(b, c, pol, ctx) => Cheaper(a, c, pol, ctx)
           /\ ~Cheaper(b, a, pol, ctx) /\ ~Cheaper(c, b, pol, ctx) => ~Cheaper(c, a, pol, ctx)
<1> DEFINE T(m) == ExpectedTotal(m, pol, ctx)
           S(m) == SuccessForObjective(m, ctx)
<1>1. /\ T(a) \in Int /\ T(b) \in Int /\ T(c) \in Int
      /\ S(a) \in Nat \ {0} /\ S(b) \in Nat \ {0} /\ S(c) \in Nat \ {0}
  BY CheaperType
<1>2. \A m, n : Cheaper(m, n, pol, ctx) <=>
          T(m) # Unknown /\ (T(n) # Unknown => T(m) * S(n) < T(n) * S(m))
  BY DEF Cheaper, Known
<1> HIDE DEF T, S
<1>3. /\ T(a) * S(b) \in Int /\ T(b) * S(a) \in Int /\ T(b) * S(c) \in Int
      /\ T(c) * S(b) \in Int /\ T(a) * S(c) \in Int /\ T(c) * S(a) \in Int /\ T(a) * S(a) \in Int
  BY <1>1
<1>4. T(a) * S(b) <= T(b) * S(a) /\ T(b) * S(c) <= T(c) * S(b) =>
        /\ T(a) * S(c) <= T(c) * S(a)
        /\ T(a) * S(b) < T(b) * S(a) \/ T(b) * S(c) < T(c) * S(b) => T(a) * S(c) < T(c) * S(a)
  BY <1>1, Quotients
<1>5. ~Cheaper(a, a, pol, ctx)
  BY <1>2, <1>3
<1>6. Cheaper(a, b, pol, ctx) => ~Cheaper(b, a, pol, ctx)
  BY <1>2, <1>3
<1>7. Cheaper(a, b, pol, ctx) /\ ~Cheaper(c, b, pol, ctx) => Cheaper(a, c, pol, ctx)
  BY <1>2, <1>3, <1>4
<1>8. ~Cheaper(b, a, pol, ctx) /\ Cheaper(b, c, pol, ctx) => Cheaper(a, c, pol, ctx)
  BY <1>2, <1>3, <1>4
<1>9. ~Cheaper(b, a, pol, ctx) /\ ~Cheaper(c, b, pol, ctx) => ~Cheaper(c, a, pol, ctx)
  BY <1>2, <1>3, <1>4
<1> QED BY <1>5, <1>6, <1>7, <1>8, <1>9

LEMMA OutscoresOrder ==
    ASSUME NEW pol, NEW ctx, IsSituation(ctx),
           NEW a, NEW b, NEW c, IsDefinition(a), IsDefinition(b), IsDefinition(c)
    PROVE  /\ ~Outscores(a, a, pol, ctx)
           /\ a.id # b.id => Outscores(a, b, pol, ctx) \/ Outscores(b, a, pol, ctx)
           /\ Outscores(a, b, pol, ctx) /\ Outscores(b, c, pol, ctx) => Outscores(a, c, pol, ctx)
<1>1. /\ ScoreModel(a, pol, ctx) \in Int /\ ScoreModel(b, pol, ctx) \in Int
      /\ ScoreModel(c, pol, ctx) \in Int
  BY ScoreType
<1>2. a.id \in Int /\ b.id \in Int /\ c.id \in Int
  BY DEF IsDefinition
<1> QED BY <1>1, <1>2 DEF Outscores

\* What the choice of the objective minimises.
Wins(a, b, pol, ctx) ==
    \/ Cheaper(a, b, pol, ctx)
    \/ ~Cheaper(b, a, pol, ctx) /\ Outscores(a, b, pol, ctx)

LEMMA WinsOrder ==
    ASSUME NEW list, NEW pol, NEW ctx, IsList(list), IsPolicy(pol), IsSituation(ctx)
    PROVE  Orders({p \in list \X list : Wins(p[1], p[2], pol, ctx)}, list)
<1> DEFINE R == {p \in list \X list : Wins(p[1], p[2], pol, ctx)}
<1>1. \A a, b \in list : <<a, b>> \in R <=> Wins(a, b, pol, ctx)
  OBVIOUS
<1>2. \A a \in list : IsDefinition(a)
  BY DEF IsList
<1>3. ASSUME NEW a \in list PROVE <<a, a>> \notin R
  BY <1>1, <1>2, CheaperOrder, OutscoresOrder DEF Wins
<1>4. ASSUME NEW a \in list, NEW b \in list, a # b PROVE <<a, b>> \in R \/ <<b, a>> \in R
  <2>1. a.id # b.id
    BY <1>4 DEF IsList
  <2>2. Outscores(a, b, pol, ctx) \/ Outscores(b, a, pol, ctx)
    BY <2>1, <1>2, OutscoresOrder
  <2> QED BY <2>2, <1>1 DEF Wins
<1>5. ASSUME NEW a \in list, NEW b \in list, NEW c \in list, <<a, b>> \in R, <<b, c>> \in R
      PROVE  <<a, c>> \in R
  <2>1. IsDefinition(a) /\ IsDefinition(b) /\ IsDefinition(c)
    BY <1>2
  <2>2. Wins(a, b, pol, ctx) /\ Wins(b, c, pol, ctx)
    BY <1>1, <1>5
  <2>3. Wins(a, c, pol, ctx)
    <3>1. /\ Cheaper(a, b, pol, ctx) => ~Cheaper(b, a, pol, ctx)
          /\ Cheaper(b, c, pol, ctx) => ~Cheaper(c, b, pol, ctx)
          /\ Cheaper(a, b, pol, ctx) /\ ~Cheaper(c, b, pol, ctx) => Cheaper(a, c, pol, ctx)
          /\ ~Cheaper(b, a, pol, ctx) /\ Cheaper(b, c, pol, ctx) => Cheaper(a, c, pol, ctx)
          /\ ~Cheaper(b, a, pol, ctx) /\ ~Cheaper(c, b, pol, ctx) => ~Cheaper(c, a, pol, ctx)
      BY <2>1, CheaperOrder
    <3>2. Outscores(a, b, pol, ctx) /\ Outscores(b, c, pol, ctx) => Outscores(a, c, pol, ctx)
      BY <2>1, OutscoresOrder
    <3> QED BY <2>2, <3>1, <3>2 DEF Wins
  <2> QED BY <2>3, <1>1
<1> HIDE DEF R
<1>6. Orders(R, list)
  BY <1>3, <1>4, <1>5 DEF Orders
<1> QED BY <1>6 DEF R

\* The objective chooses a model of the pool that is not beaten by any other of the
\* field, and the field is the pool unless all of it is excluded from scoring.
LEMMA ObjectiveChooses ==
    ASSUME NEW pool, NEW pol, NEW ctx, IsList(pool), pool # {}, IsPolicy(pol), IsSituation(ctx)
    PROVE  LET w == SelectByObjective(pool, pol, ctx)
           IN  /\ w \in pool
               /\ \A m \in pool : ~Excluded(m, pol, ctx) => ~Cheaper(m, w, pol, ctx)
<1> DEFINE fair == {m \in pool : ~Excluded(m, pol, ctx)}
           field == IF fair = {} THEN pool ELSE fair
           R == {p \in field \X field : Wins(p[1], p[2], pol, ctx)}
           w == SelectByObjective(pool, pol, ctx)
<1>1. IsList(field) /\ field # {} /\ field \subseteq pool
  <2>1. field \subseteq pool /\ field # {}
    OBVIOUS
  <2> HIDE DEF field
  <2>2. IsFiniteSet(field)
    BY <2>1, FS_Subset DEF IsList
  <2> QED BY <2>1, <2>2 DEF IsList
<1> HIDE DEF field
<1>2. Orders(R, field)
  BY <1>1, WinsOrder
<1>3. PICK a \in field : \A b \in field \ {a} : <<a, b>> \in R
  BY <1>1, <1>2, FiniteLeast DEF IsList
<1>4. \A b \in field \ {a} : Wins(a, b, pol, ctx)
  BY <1>3
<1>5. w = CHOOSE x \in field : \A b \in field \ {x} : Wins(x, b, pol, ctx)
  BY DEF SelectByObjective, Wins, field
<1>6. w \in field /\ \A b \in field \ {w} : Wins(w, b, pol, ctx)
  <2> HIDE DEF w
  <2> QED BY <1>4, <1>5
<1>7. ASSUME NEW m \in pool, ~Excluded(m, pol, ctx) PROVE ~Cheaper(m, w, pol, ctx)
  <2>1. m \in field
    BY <1>7 DEF field
  <2>2. IsDefinition(m) /\ IsDefinition(w)
    BY <1>6, <1>1, <2>1 DEF IsList
  <2> HIDE DEF w
  <2>3. CASE m = w
    BY <2>2, <2>3, CheaperOrder
  <2>4. CASE m # w
    <3>1. Wins(w, m, pol, ctx)
      BY <1>6, <2>1, <2>4
    <3> QED BY <3>1, <2>2, CheaperOrder DEF Wins
  <2> QED BY <2>3, <2>4
<1> QED BY <1>6, <1>7, <1>1

-----------------------------------------------------------------------------
(* The decision. *)

\* No model that is there, mapped and priced fits the context.
Overflow(list, pol, ctx) ==
    \A m \in list :
        /\ m.status # "unavailable"
        /\ m.provider # Unknown \/ ~pol.requireKnownProvider
        /\ pol.allowUnknownPricing \/ HasOptimizerPricing(m, ctx)
        => TooSmall(m, ctx)

\* The pipeline leaves models that meet the policy, all that do when there is no
\* reliability floor, and gives up only on models below that floor.
LEMMA PoolIs ==
    ASSUME NEW list, NEW pol, NEW ctx, IsList(list), IsPolicy(pol)
    PROVE  LET pool == RunEligibility(list, pol, ctx).pool
           IN  /\ pool \subseteq list
               /\ RunEligibility(list, pol, ctx).err # "none" => pool = {}
               /\ \A m \in pool : MeetsPolicy(m, pol, ctx)
                                  /\ (Overflow(list, pol, ctx) \/ Suits(m, pol, ctx))
               /\ \A m \in list : MeetsPolicy(m, pol, ctx) /\ Suits(m, pol, ctx) =>
                     /\ Reliable(m, pol) => m \in pool
                     /\ pol.minReliability = 0 => m \in pool
<1> DEFINE avail  == {m \in list : m.status # "unavailable"}
           mapped == {m \in avail : m.provider # Unknown \/ ~pol.requireKnownProvider}
           priced == {m \in mapped : pol.allowUnknownPricing \/ HasOptimizerPricing(m, ctx)}
           able   == CapabilityContext(priced, pol, ctx)
           good   == QualityGate(able, pol)
           quick  == LatencyGate(good, pol)
           sure   == ReliabilityGate(quick, pol)
           paid   == {m \in sure : ~OverBudget(m, pol, ctx)}
           el     == RunEligibility(list, pol, ctx)
<1>0. \A m \in list : IsDefinition(m)
  BY DEF IsList
<1>1. \A m \in list : m \in priced <=>
          /\ m.status # "unavailable"
          /\ m.provider # Unknown \/ ~pol.requireKnownProvider
          /\ pol.allowUnknownPricing \/ HasOptimizerPricing(m, ctx)
  OBVIOUS
<1>2. priced \subseteq list /\ (priced # {} => avail # {})
  OBVIOUS
<1>3. /\ able \subseteq priced
      /\ \A m \in able : Overflow(list, pol, ctx) \/ Suits(m, pol, ctx)
      /\ \A m \in priced : Suits(m, pol, ctx) => m \in able
  <2> HIDE DEF priced
  <2> QED BY <1>1, <1>2 DEF CapabilityContext, Overflow, Suits
<1>4. /\ good \subseteq able
      /\ \A m \in able : m \in good <=>
            (pol.qualityFloor > 0 => NumberOf(m.qual) >= pol.qualityFloor)
  <2> HIDE DEF able
  <2> QED BY DEF QualityGate
<1>5. /\ quick \subseteq good
      /\ \A m \in good : m \in quick <=>
            (pol.latencyTarget > 0 => NumberOf(m.lat) <= pol.latencyTarget)
  <2> HIDE DEF good
  <2> QED BY DEF LatencyGate
<1>6. /\ sure \subseteq quick
      /\ \A m \in quick : Reliable(m, pol) => m \in sure
      /\ pol.minReliability = 0 => sure = quick
  <2> HIDE DEF quick
  <2> QED BY DEF ReliabilityGate
<1>7. /\ (el.pool = {}) \/ (el.pool = paid /\ el.err = "none")
      /\ el.err # "none" => el.pool = {}
      /\ el.err = "none" => el.pool = paid
      /\ paid # {} /\ sure # {} /\ quick # {} /\ good # {} /\ priced # {} /\ avail # {} =>
             el.pool = paid
  <2> HIDE DEF avail, priced, able, good, quick, sure, paid
  <2>1. el = IF avail = {} THEN [pool |-> {}, err |-> "no_models"]
             ELSE IF priced = {} THEN [pool |-> {}, err |-> "insufficient_pricing"]
             ELSE IF pol.qualityFloor > 0 /\ good = {}
                  THEN [pool |-> {}, err |-> "quality_constraint"]
             ELSE IF pol.latencyTarget > 0 /\ quick = {}
                  THEN [pool |-> {}, err |-> "latency_constraint"]
             ELSE IF paid = {} /\ sure # {} THEN [pool |-> {}, err |-> "budget_constraint"]
             ELSE [pool |-> paid, err |-> "none"]
    BY DEF RunEligibility, avail, priced, able, good, quick, sure, paid
  <2> QED BY <2>1
<1>8. ASSUME NEW m \in paid
      PROVE  m \in list /\ MeetsPolicy(m, pol, ctx)
             /\ (Overflow(list, pol, ctx) \/ Suits(m, pol, ctx))
  <2>1. m \in sure /\ ~OverBudget(m, pol, ctx)
    OBVIOUS
  <2> HIDE DEF priced, able, good, quick, sure, paid
  <2>2. m \in quick /\ m \in good /\ m \in able /\ m \in priced /\ m \in list
    BY <2>1, <1>2, <1>3, <1>4, <1>5, <1>6
  <2>3. m.qual \in Rate /\ m.lat \in Rate
    BY <2>2, <1>0 DEF IsDefinition
  <2>4. pol.qualityFloor > 0 => Known(m.qual) /\ m.qual >= pol.qualityFloor
    BY <2>2, <2>3, <1>4 DEF NumberOf, Known, IsPolicy, Rate, Unknown
  <2>5. pol.latencyTarget > 0 /\ Known(m.lat) => m.lat <= pol.latencyTarget
    BY <2>2, <1>5 DEF NumberOf
  <2> QED BY <2>1, <2>2, <2>4, <2>5, <1>1, <1>3 DEF MeetsPolicy
<1>9. ASSUME NEW m \in list, MeetsPolicy(m, pol, ctx), Suits(m, pol, ctx),
             Reliable(m, pol) \/ pol.minReliability = 0
      PROVE  m \in el.pool
  <2> HIDE DEF priced, able, good, quick, sure, el
  <2>1. m \in priced
    BY <1>9, <1>1 DEF MeetsPolicy
  <2>2. m \in able
    <3>1. Suits(m, pol, ctx)
      BY <1>9
    <3> QED BY <2>1, <3>1, <1>3
  <2>3. m.qual \in Rate /\ m.lat \in Rate
    BY <1>0 DEF IsDefinition
  <2>4. m \in good
    BY <2>2, <1>9, <1>4 DEF MeetsPolicy, NumberOf
  <2>5. m \in quick
    BY <2>3, <2>4, <1>9, <1>5 DEF MeetsPolicy, NumberOf, IsPolicy
  <2>6. m \in sure
    BY <2>5, <1>9, <1>6
  <2>7. m \in paid
    BY <2>6, <1>9 DEF MeetsPolicy
  <2> HIDE DEF paid
  <2> QED BY <2>1, <2>4, <2>5, <2>6, <2>7, <1>2, <1>7
<1> HIDE DEF el, paid
<1>10. el.pool \subseteq list /\ \A m \in el.pool : MeetsPolicy(m, pol, ctx)
             /\ (Overflow(list, pol, ctx) \/ Suits(m, pol, ctx))
  BY <1>7, <1>8
<1> QED BY <1>7, <1>9, <1>10 DEF el

\* The model under an id is the only one.
LEMMA ChosenIs ==
    ASSUME NEW list, IsList(list), NEW m \in list
    PROVE  (CHOOSE x \in list : x.id = m.id) = m
BY DEF IsList

\* What the router decides, over every list, policy and situation: the winner of the
\* objective, the preferred model of the pool, or the incumbent of the list.
LEMMA RouteIs ==
    ASSUME NEW list, NEW pol, NEW ctx, NEW sticky, NEW max,
           IsList(list), IsPolicy(pol), IsSituation(ctx)
    PROVE  LET d == Route(list, pol, ctx, sticky, max)
               pool == RunEligibility(list, pol, ctx).pool
               w == SelectByObjective(pool, pol, ctx)
           IN  \/ d.err # "none" /\ pool = {}
               \/ /\ d.err = "none" /\ pool # {} /\ w \in pool
                  /\ \/ d.model = w.id
                     \/ \E m \in pool : m.id = pol.preferred /\ d.model = m.id
                     \/ /\ \E m \in list : m.id = d.model
                        /\ d.why = "stickiness" \/ (d.kind = "KEEP" /\ d.why = "user_preference")
                  /\ ctx.current = NoModel /\ d.why = "optimized" => d.model = w.id
<1> DEFINE d == Route(list, pol, ctx, sticky, max)
           el == RunEligibility(list, pol, ctx)
           pool == el.pool
           ev == Evaluation(list, pol, ctx)
           w == SelectByObjective(pool, pol, ctx)
<1>1. pool \subseteq list /\ (el.err # "none" => pool = {})
  BY PoolIs
<1>2. ev.pool = pool /\ ev.winner = w.id
  BY DEF Evaluation
<1>3. ~ev.unhealthy => \E m \in list : m.id = ctx.current
  BY DEF Evaluation
<1>4. d = IF list = {} \/ pool = {}
          THEN Refuse(IF el.err = "none" THEN "no_models" ELSE el.err)
          ELSE IF PreferredWins(ev, pol)
               THEN Decide("SELECT", pol.preferred,
                           IF ctx.current = pol.preferred THEN "optimized" ELSE "user_preference")
          ELSE IF CostRetention(ev, ctx) THEN Decide("KEEP", ctx.current, "optimized")
          ELSE IF DirectSelection(ev, ctx) THEN Decide("SELECT", ev.winner, "optimized")
          ELSE IF SwitchingBanned(ev, pol) THEN Decide("KEEP", ctx.current, "user_preference")
          ELSE IF MaySwitch(ev, pol, ctx, sticky, max)
               THEN Decide("SWITCH", ev.winner, "optimized")
          ELSE Decide("KEEP", ctx.current, "stickiness")
  BY DEF Route
<1> HIDE DEF d, el, ev
<1>5. CASE list = {} \/ pool = {}
  <2>1. pool = {}
    BY <1>1, <1>5
  <2>2. d.err # "none"
    BY <1>4, <1>5 DEF Refuse
  <2> QED BY <2>1, <2>2 DEF d, el
<1>6. CASE list # {} /\ pool # {}
  <2>1. w \in pool
    <3>1. IsList(pool)
      BY <1>1, FS_Subset DEF IsList
    <3> HIDE DEF pool
    <3> QED BY <3>1, <1>6, ObjectiveChooses
  <2>2. \A m \in list : m.id # NoModel
    BY DEF IsList, IsDefinition
  <2>3. CASE PreferredWins(ev, pol)
    <3>1. PICK m \in pool : m.id = pol.preferred
      BY <2>3, <1>2 DEF PreferredWins
    <3>2. d.err = "none" /\ d.model = m.id
          /\ d.why = IF ctx.current = pol.preferred THEN "optimized" ELSE "user_preference"
      BY <1>4, <1>6, <2>3, <3>1 DEF Decide
    <3>3. ~(ctx.current = NoModel /\ d.why = "optimized")
      BY <3>1, <3>2, <2>2, <1>1
    <3> QED BY <3>1, <3>2, <3>3, <2>1, <1>6 DEF d, el
  <2>4. CASE ~PreferredWins(ev, pol)
    <3>1. CASE CostRetention(ev, ctx) \/ DirectSelection(ev, ctx)
      <4>1. d.err = "none" /\ d.model = w.id
        BY <1>4, <1>6, <2>4, <3>1, <1>2 DEF Decide, CostRetention
      <4> QED BY <4>1, <2>1, <1>6 DEF d, el
    <3>2. CASE ~CostRetention(ev, ctx) /\ ~DirectSelection(ev, ctx)
      <4>1. ctx.current # NoModel
        BY <3>2 DEF DirectSelection
      <4>2. CASE SwitchingBanned(ev, pol) \/ ~MaySwitch(ev, pol, ctx, sticky, max)
        <5>1. d.err = "none" /\ d.model = ctx.current /\ d.kind = "KEEP"
              /\ d.why \in {"user_preference", "stickiness"}
          BY <1>4, <1>6, <2>4, <3>2, <4>2 DEF Decide
        <5>2. \E m \in list : m.id = d.model
          BY <4>2, <5>1, <1>3 DEF SwitchingBanned, MaySwitch
        <5> QED BY <5>1, <5>2, <4>1, <2>1, <1>6 DEF d, el
      <4>3. CASE ~SwitchingBanned(ev, pol) /\ MaySwitch(ev, pol, ctx, sticky, max)
        <5>1. d.err = "none" /\ d.model = w.id
          BY <1>4, <1>6, <2>4, <3>2, <4>3, <1>2 DEF Decide
        <5> QED BY <5>1, <2>1, <1>6 DEF d, el
      <4> QED BY <4>2, <4>3
    <3> QED BY <3>1, <3>2
  <2> QED BY <2>3, <2>4
<1> QED BY <1>5, <1>6

\* The model of a decision is one of the list.
LEMMA RouteListed ==
    ASSUME NEW list, NEW pol, NEW ctx, NEW sticky, NEW max,
           IsList(list), IsPolicy(pol), IsSituation(ctx),
           Route(list, pol, ctx, sticky, max).err = "none"
    PROVE  \E m \in list : m.id = Route(list, pol, ctx, sticky, max).model
BY RouteIs, PoolIs

\* Every decision of the router is sound, whatever the models, the policy and the
\* situation of the run (ModelRouter.route).
THEOREM RouteIsSound ==
    ASSUME NEW list, NEW pol, NEW ctx, NEW sticky, NEW max,
           IsList(list), IsPolicy(pol), IsSituation(ctx)
    PROVE  SoundDecision(Route(list, pol, ctx, sticky, max), list, pol, ctx)
<1> DEFINE d == Route(list, pol, ctx, sticky, max)
           pool == RunEligibility(list, pol, ctx).pool
           w == SelectByObjective(pool, pol, ctx)
           meet == {m \in list : MeetsPolicy(m, pol, ctx)}
           suit == {m \in meet : Suits(m, pol, ctx)}
           chosen == CHOOSE m \in list : m.id = d.model
<1>1. /\ pool \subseteq list
      /\ \A m \in pool : MeetsPolicy(m, pol, ctx)
                         /\ (Overflow(list, pol, ctx) \/ Suits(m, pol, ctx))
      /\ \A m \in suit : /\ Reliable(m, pol) => m \in pool
                         /\ pol.minReliability = 0 => m \in pool
  BY PoolIs
<1>2. \/ d.err # "none" /\ pool = {}
      \/ /\ d.err = "none" /\ pool # {} /\ w \in pool
         /\ \/ d.model = w.id
            \/ \E m \in pool : m.id = pol.preferred /\ d.model = m.id
            \/ d.why = "stickiness" \/ (d.kind = "KEEP" /\ d.why = "user_preference")
         /\ ctx.current = NoModel /\ d.why = "optimized" => d.model = w.id
  BY RouteIs
<1>3. \A m \in pool : d.model = m.id => chosen = m
  BY <1>1, ChosenIs
<1> HIDE DEF d, pool, chosen, w
<1>4. d.err # "none" => \A m \in suit : pol.minReliability > 0 /\ ~Reliable(m, pol)
  BY <1>1, <1>2 DEF IsPolicy
<1>5. d.err = "none" /\ d.why \notin {"stickiness"}
         /\ ~(d.kind = "KEEP" /\ d.why = "user_preference")
      => chosen \in meet /\ (Overflow(list, pol, ctx) \/ Suits(chosen, pol, ctx))
  BY <1>1, <1>2, <1>3
<1>6. d.err = "none" /\ ctx.current = NoModel /\ d.why = "optimized" /\ pol.minReliability = 0
      => ~ \E m \in suit : Cheaper(m, chosen, pol, ctx)
  <2> SUFFICES ASSUME d.err = "none", ctx.current = NoModel, d.why = "optimized",
                      pol.minReliability = 0, NEW m \in suit
               PROVE  ~Cheaper(m, chosen, pol, ctx)
    OBVIOUS
  <2>1. chosen = w
    BY <1>2, <1>3
  <2>2. m \in pool /\ ~Excluded(m, pol, ctx)
    BY <1>1 DEF Excluded, MeetsPolicy, Suits
  <2>3. IsList(pool)
    BY <1>1, FS_Subset DEF IsList
  <2> QED BY <2>1, <2>2, <2>3, ObjectiveChooses DEF w
<1> QED BY <1>4, <1>5, <1>6 DEF SoundDecision, Overflow, d, chosen

-----------------------------------------------------------------------------
(* The registry and what a routing in flight holds of it. *)

\* The image of a finite set under a function.
LEMMA FiniteImage ==
    ASSUME NEW S, IsFiniteSet(S), NEW f, f = [x \in S |-> f[x]]
    PROVE  IsFiniteSet({f[x] : x \in S})
<1> DEFINE T == {f[x] : x \in S}
<1>1. f \in Surjection(S, T)
  BY DEF Surjection
<1> QED BY <1>1, FS_Surjection

ObjT == [status : {"healthy", "degraded", "unavailable"}, byObserver : BOOLEAN,
         consec : Nat, out : Rate, rel : Rate, lat : Rate, obj : Nat]
HeldT == [on : BOOLEAN, models : SUBSET [id : RModels, o : ObjT], named : SUBSET RModels]

RegOK(reg) ==
    /\ IsFiniteSet(DOMAIN reg) /\ DOMAIN reg \subseteq RModels
    /\ reg \in [DOMAIN reg -> ObjT]

\* A routing in flight holds each model once, a usable object that is the
\* registry's or an older one, and none that had refused the run when it was read.
HeldOK(h, reg) ==
    /\ h \in HeldT /\ IsFiniteSet(h.models)
    /\ \A e \in h.models :
          /\ e.id \in DOMAIN reg /\ e.id \notin h.named /\ e.o.status # "unavailable"
          /\ e.o.obj <= reg[e.id].obj
          /\ e.o.obj = reg[e.id].obj => e.o = reg[e.id]
    /\ \A e, f \in h.models : e.id = f.id => e = f

\* A change in place reaches the object whoever holds it.
LEMMA HeldMutated ==
    ASSUME NEW reg, RegOK(reg), NEW h, HeldOK(h, reg), NEW m \in DOMAIN reg, NEW o \in ObjT,
           o.obj = reg[m].obj, reg[m].status # "unavailable" => o.status # "unavailable"
    PROVE  RegOK([reg EXCEPT ![m] = o]) /\ HeldOK(Held(h, m, o), [reg EXCEPT ![m] = o])
<1> DEFINE new == [reg EXCEPT ![m] = o]
           Now(e) == IF e.id = m /\ e.o.obj = o.obj THEN [id |-> m, o |-> o] ELSE e
           g == Held(h, m, o)
<1>1. DOMAIN new = DOMAIN reg /\ new[m] = o /\ \A i \in DOMAIN reg : i # m => new[i] = reg[i]
  BY DEF RegOK
<1>2. new \in [DOMAIN reg -> ObjT]
  BY DEF RegOK
<1>3. RegOK(new)
  BY <1>1, <1>2 DEF RegOK
<1>4. h.models \subseteq [id : RModels, o : ObjT] /\ m \in RModels
  BY DEF HeldOK, HeldT, RegOK
<1>5. g = [on |-> h.on, models |-> {Now(e) : e \in h.models}, named |-> h.named]
  <2>1. h \in HeldT /\ g = [h EXCEPT !.models = {Now(e) : e \in h.models}]
    BY DEF HeldOK, Held
  <2> HIDE DEF Now, g
  <2> QED BY <2>1 DEF HeldT
<1>6. IsFiniteSet({Now(e) : e \in h.models})
  <2> DEFINE f == [e \in h.models |-> Now(e)]
  <2>1. f = [e \in h.models |-> f[e]] /\ \A e \in h.models : f[e] = Now(e)
    OBVIOUS
  <2> HIDE DEF Now, f
  <2>2. IsFiniteSet({f[e] : e \in h.models})
    BY <2>1, FiniteImage DEF HeldOK
  <2>3. {f[e] : e \in h.models} = {Now(e) : e \in h.models}
    BY <2>1
  <2> QED BY <2>2, <2>3
<1>7. ASSUME NEW e \in h.models
      PROVE  /\ Now(e) \in [id : RModels, o : ObjT] /\ Now(e).id = e.id
             /\ Now(e).id \in DOMAIN new /\ Now(e).id \notin h.named
             /\ Now(e).o.status # "unavailable"
             /\ Now(e).o.obj <= new[Now(e).id].obj
             /\ Now(e).o.obj = new[Now(e).id].obj => Now(e).o = new[Now(e).id]
  <2>1. /\ e \in [id : RModels, o : ObjT]
        /\ e.id \in DOMAIN reg /\ e.id \notin h.named /\ e.o.status # "unavailable"
        /\ e.o.obj <= reg[e.id].obj
        /\ e.o.obj = reg[e.id].obj => e.o = reg[e.id]
    BY <1>4 DEF HeldOK
  <2>2. CASE e.id = m /\ e.o.obj = o.obj
    <3>1. Now(e) = [id |-> m, o |-> o]
      BY <2>2
    <3>2. o.status # "unavailable"
      BY <2>1, <2>2
    <3>3. o.obj <= o.obj
      BY DEF ObjT
    <3> HIDE DEF Now, new
    <3> QED BY <3>1, <3>2, <3>3, <2>1, <2>2, <1>1, <1>4
  <2>3. CASE ~(e.id = m /\ e.o.obj = o.obj)
    <3>1. Now(e) = e
      BY <2>3
    <3> HIDE DEF Now, new
    <3> QED BY <3>1, <2>1, <2>3, <1>1
  <2> QED BY <2>2, <2>3
<1> HIDE DEF Now, new
<1>8. g \in HeldT
  BY <1>5, <1>7 DEF HeldOK, HeldT
<1>9. \A e, f \in h.models : Now(e).id = Now(f).id => Now(e) = Now(f)
  BY <1>7 DEF HeldOK
<1>10. g.models = {Now(e) : e \in h.models} /\ g.named = h.named
  BY <1>5
<1> HIDE DEF g
<1>11. HeldOK(g, new)
  BY <1>6, <1>7, <1>8, <1>9, <1>10 DEF HeldOK
<1> QED BY <1>3, <1>11 DEF g, new

\* A new object leaves the routings in flight with the old one.
LEMMA HeldReplaced ==
    ASSUME NEW reg, RegOK(reg), NEW m \in DOMAIN reg, NEW o \in ObjT, o.obj = reg[m].obj + 1
    PROVE  /\ RegOK([reg EXCEPT ![m] = o])
           /\ \A h : HeldOK(h, reg) => HeldOK(h, [reg EXCEPT ![m] = o])
<1> DEFINE new == [reg EXCEPT ![m] = o]
<1>1. DOMAIN new = DOMAIN reg /\ new[m] = o /\ \A i \in DOMAIN reg : i # m => new[i] = reg[i]
  BY DEF RegOK
<1>2. RegOK(new)
  BY <1>1 DEF RegOK
<1>3. ASSUME NEW h, HeldOK(h, reg) PROVE HeldOK(h, new)
  <2>1. ASSUME NEW e \in h.models
        PROVE  e.o.obj <= new[e.id].obj /\ (e.o.obj = new[e.id].obj => e.o = new[e.id])
    <3>1. e.o.obj \in Nat /\ reg[e.id].obj \in Nat /\ e.id \in DOMAIN reg
      BY <1>3 DEF HeldOK, HeldT, ObjT, RegOK
    <3>2. e.o.obj <= reg[e.id].obj /\ (e.o.obj = reg[e.id].obj => e.o = reg[e.id])
      BY <1>3 DEF HeldOK
    <3> HIDE DEF new
    <3>3. CASE e.id = m
      BY <3>1, <3>2, <3>3, <1>1
    <3>4. CASE e.id # m
      BY <3>1, <3>2, <3>4, <1>1
    <3> QED BY <3>3, <3>4
  <2> HIDE DEF new
  <2> QED BY <2>1, <1>1, <1>3 DEF HeldOK
<1> QED BY <1>2, <1>3

\* So does a model that is registered.
LEMMA HeldGrown ==
    ASSUME NEW reg, RegOK(reg), NEW m \in RModels \ DOMAIN reg, NEW o \in ObjT
    PROVE  LET new == [i \in DOMAIN reg \cup {m} |-> IF i = m THEN o ELSE reg[i]]
           IN  RegOK(new) /\ \A h : HeldOK(h, reg) => HeldOK(h, new)
<1> DEFINE new == [i \in DOMAIN reg \cup {m} |-> IF i = m THEN o ELSE reg[i]]
<1>1. DOMAIN new = DOMAIN reg \cup {m} /\ \A i \in DOMAIN reg : new[i] = reg[i]
  OBVIOUS
<1>2. new \in [DOMAIN new -> ObjT]
  BY DEF RegOK
<1>3. IsFiniteSet(DOMAIN reg \cup {m})
  BY FS_AddElement DEF RegOK
<1> HIDE DEF new
<1>4. RegOK(new)
  BY <1>1, <1>2, <1>3 DEF RegOK
<1>5. \A h : HeldOK(h, reg) => HeldOK(h, new)
  BY <1>1 DEF HeldOK
<1> QED BY <1>4, <1>5 DEF new

\* A routing reads usable models of the registry that have not refused the run.
LEMMA HeldTaken ==
    ASSUME NEW reg, RegOK(reg), NEW S, S \subseteq DOMAIN reg, NEW X, X \subseteq RModels,
           \A i \in S : reg[i].status # "unavailable" /\ i \notin X
    PROVE  HeldOK([on |-> TRUE, named |-> X, models |-> {[id |-> i, o |-> reg[i]] : i \in S}], reg)
<1> DEFINE E(i) == [id |-> i, o |-> reg[i]]
           M == {E(i) : i \in S}
           h == [on |-> TRUE, named |-> X, models |-> M]
<1>1. IsFiniteSet(M)
  <2>1. IsFiniteSet(S)
    BY FS_Subset DEF RegOK
  <2> DEFINE f == [i \in S |-> E(i)]
  <2>2. f = [i \in S |-> f[i]] /\ \A i \in S : f[i] = E(i)
    OBVIOUS
  <2> HIDE DEF E, f
  <2>3. IsFiniteSet({f[i] : i \in S})
    BY <2>1, <2>2, FiniteImage
  <2>4. {f[i] : i \in S} = M
    BY <2>2
  <2> QED BY <2>3, <2>4
<1>2. \A i \in S : E(i) \in [id : RModels, o : ObjT] /\ E(i).id = i /\ E(i).o = reg[i]
                   /\ reg[i].obj \in Nat
  BY DEF RegOK, ObjT
<1>3. M \subseteq [id : RModels, o : ObjT]
  <2> HIDE DEF E
  <2> QED BY <1>2
<1>4. h \in HeldT
  <2> HIDE DEF M
  <2> QED BY <1>3 DEF HeldT
<1>5. /\ \A e \in M : /\ e.id \in DOMAIN reg /\ e.id \notin X /\ e.o.status # "unavailable"
                      /\ e.o.obj <= reg[e.id].obj /\ e.o = reg[e.id]
      /\ \A e, f \in M : e.id = f.id => e = f
  <2> HIDE DEF E
  <2> QED BY <1>2
<1> HIDE DEF M
<1>6. h.models = M /\ h.named = X
  OBVIOUS
<1> HIDE DEF h
<1>7. HeldOK(h, reg)
  BY <1>1, <1>4, <1>5, <1>6 DEF HeldOK
<1> QED BY <1>7 DEF h, M

\* No routing in flight.
LEMMA HeldIdle == \A reg : HeldOK(Idle, reg)
<1>1. IsFiniteSet({})
  BY FS_EmptySet
<1>2. Idle \in HeldT /\ Idle.models = {}
  BY DEF Idle, HeldT
<1> QED BY <1>1, <1>2 DEF HeldOK

-----------------------------------------------------------------------------
(* The model of a run. *)

RunT ==
    [pc : {"start", "selecting", "ready", "calling", "failover", "bigger", "budget",
           "switching", "cheaper", "failed", "done"},
     cur : RModels \cup {NoModel}, calling : RModels \cup {NoModel}, curOut : Int,
     tried : SUBSET RModels, refused : SUBSET RModels, named : SUBSET RModels,
     excused : SUBSET RModels, count : Nat, cooling : BOOLEAN,
     retries : Nat, steps : Nat, rem : {Unknown, 0}, lat : Nat,
     code : {"none", "retryable", "model_unavailable", "context_exhausted", "auth"},
     by : {"none", "loop", "price", "stale", "switch"}, known : SUBSET RModels]

\* Where the loop waits for a routing.
Awaits == {"selecting", "switching", "cheaper"}

\* A run that goes on is not on a model that was named, but for a stale choice.
CurrentIsFree(run) ==
    run.pc \in {"ready", "calling"} \/ (run.pc = "failover" /\ run.code # "model_unavailable") =>
        run.by = "stale" \/ run.cur \notin run.named

\* What was named is marked and stays so, and what refused was named or is excused;
\* the run's model is registered.
RunOK(run, reg) ==
    /\ run \in RunT
    /\ \A m \in run.named : m \in DOMAIN reg /\ reg[m].status = "unavailable"
    /\ run.pc \notin {"start", "selecting", "failed"} => run.cur \in DOMAIN reg
    /\ run.pc = "calling" => run.calling \in DOMAIN reg
    /\ run.refused \ run.excused \subseteq run.named
    /\ CurrentIsFree(run)

RoutingInv ==
    /\ RegOK(rReg) /\ RunOK(rRun, rReg)
    /\ HeldOK(rLoop, rReg) /\ HeldOK(rPrice, rReg)
    /\ rRun.pc \in Awaits => rLoop.named = rRun.named
    /\ rPrice.named \subseteq rRun.named

\* A registry that keeps its models and their refusals suits the run as well.
LEMMA RunKept ==
    ASSUME NEW run, NEW reg, NEW new, RunOK(run, reg), DOMAIN reg \subseteq DOMAIN new,
           \A m \in DOMAIN reg : reg[m].status = "unavailable" => new[m].status = "unavailable"
    PROVE  RunOK(run, new)
BY DEF RunOK

LEMMA FreshType == \A m \in RModels, out \in RPrices : Fresh(m, out) \in ObjT
BY RoutingAssumption DEF Fresh, ObjT, Rate

LEMMA ObservedType ==
    ASSUME NEW was \in ObjT, NEW ok \in BOOLEAN, NEW rel \in Rate, NEW lat \in Rate
    PROVE  LET seen == Observed(was, ok, rel, lat)
           IN  /\ seen \in ObjT /\ seen.obj = was.obj
               /\ seen.status = "unavailable" <=> was.status = "unavailable"
<1> DEFINE o == [was EXCEPT !.rel = rel, !.lat = lat]
<1>1. o \in ObjT /\ o.obj = was.obj /\ o.status = was.status
  BY DEF ObjT
<1>2. RDegradeAfter \in Nat
  BY RoutingAssumption
<1>3. Least(RDegradeAfter, o.consec + 1) \in Nat
  BY <1>1, <1>2 DEF Least, ObjT
<1>4. CASE ok = TRUE
  <2>1. Observed(was, ok, rel, lat) =
          [o EXCEPT !.consec = 0, !.byObserver = FALSE,
                    !.status = IF o.status = "degraded" /\ o.byObserver THEN "healthy" ELSE @]
    BY <1>4 DEF Observed
  <2> DEFINE next == IF o.status = "degraded" /\ o.byObserver THEN "healthy" ELSE o.status
  <2>2. Observed(was, ok, rel, lat) = [o EXCEPT !.consec = 0, !.byObserver = FALSE, !.status = next]
    BY <2>1
  <2>3. next \in {"healthy", "degraded", "unavailable"} /\ (next = "unavailable" <=> o.status = "unavailable")
    BY <1>1 DEF ObjT
  <2> HIDE DEF o, next
  <2>4. [o EXCEPT !.consec = 0, !.byObserver = FALSE, !.status = next] \in ObjT
    BY <1>1, <2>3 DEF ObjT
  <2>5. /\ [o EXCEPT !.consec = 0, !.byObserver = FALSE, !.status = next].obj = o.obj
        /\ [o EXCEPT !.consec = 0, !.byObserver = FALSE, !.status = next].status = next
    BY <1>1 DEF ObjT
  <2> QED BY <1>1, <2>2, <2>3, <2>4, <2>5
<1>5. CASE ok = FALSE
  <2> DEFINE worse == o.consec + 1 >= RDegradeAfter /\ o.status = "healthy"
  <2>1. Observed(was, ok, rel, lat) =
           [o EXCEPT !.consec = Least(RDegradeAfter, o.consec + 1),
                     !.byObserver = @ \/ worse,
                     !.status = IF worse THEN "degraded" ELSE @]
    BY <1>5 DEF Observed
  <2>2. worse \in BOOLEAN /\ (worse => o.status = "healthy")
    OBVIOUS
  <2> HIDE DEF worse, o
  <2>3. (o.byObserver \/ worse) \in BOOLEAN
    BY <2>2
  <2> QED BY <2>1, <2>2, <2>3, <1>1, <1>3 DEF ObjT
<1> QED BY <1>4, <1>5

\* What an observation may leave: a known reliability, a known latency or the one before.
LEMMA ObservedRates ==
    ASSUME NEW o \in ObjT
    PROVE  /\ \A rel \in RRels : rel \in Rate
           /\ \A lat \in RLats : lat \in Rate
           /\ o.lat \in Rate
BY RoutingAssumption DEF ObjT, Rate

\* The definitions a routing holds are a list the router can decide over.
LEMMA DefsAreList ==
    ASSUME NEW h, NEW reg, RegOK(reg), HeldOK(h, reg)
    PROVE  IsList(Defs(h))
<1>1. \A e \in h.models : e.id \in RModels /\ e.o \in ObjT
  BY DEF HeldOK, HeldT
<1>2. ASSUME NEW m \in RModels, NEW o \in ObjT PROVE IsDefinition(Def(m, o)) /\ Def(m, o).id = m
  <2>1. /\ RFacts[m].window \in Nat /\ RFacts[m].inp \in Rate /\ RFacts[m].qual \in Rate
        /\ o.lat \in Rate /\ o.rel \in Rate
    BY RoutingAssumption DEF Rate, ObjT
  <2>2. m \in Nat /\ m # NoModel /\ o.out \in Rate
    BY RoutingAssumption DEF NoModel, ObjT
  <2> QED BY <2>1, <2>2 DEF IsDefinition, Def
<1> DEFINE f == [e \in h.models |-> Def(e.id, e.o)]
<1>3. f = [e \in h.models |-> f[e]] /\ \A e \in h.models : f[e] = Def(e.id, e.o)
  OBVIOUS
<1> HIDE DEF f
<1>4. IsFiniteSet({f[e] : e \in h.models})
  BY <1>3, FiniteImage DEF HeldOK
<1>5. Defs(h) = {f[e] : e \in h.models}
  BY <1>3 DEF Defs
<1>6. \A d \in Defs(h) : IsDefinition(d)
  BY <1>1, <1>2 DEF Defs
<1>7. ASSUME NEW d1 \in Defs(h), NEW d2 \in Defs(h), d1.id = d2.id PROVE d1 = d2
  <2>1. PICK e1 \in h.models : d1 = Def(e1.id, e1.o)
    BY DEF Defs
  <2>2. PICK e2 \in h.models : d2 = Def(e2.id, e2.o)
    BY DEF Defs
  <2>3. e1.id = e2.id
    BY <1>1, <1>2, <1>7, <2>1, <2>2
  <2>4. e1 = e2
    BY <2>3 DEF HeldOK
  <2> QED BY <2>1, <2>2, <2>4
<1> QED BY <1>4, <1>5, <1>6, <1>7 DEF IsList

LEMMA PolicyType == IsPolicy(RPolicy)
BY RoutingAssumption DEF IsPolicy

\* What a routing decides over what it holds is one of the models it holds.
LEMMA DecisionHeld ==
    ASSUME RoutingInv, NEW h, HeldOK(h, rReg), NEW d \in RouteOver(h), d.err = "none"
    PROVE  \E e \in h.models : e.id = d.model /\ e.id \in DOMAIN rReg /\ e.id \notin h.named
<1>1. IsSituation(Ctx)
  <2>1. rRun.cur \in Nat /\ rRun.rem \in Int
    <3>1. rRun \in RunT
      BY DEF RoutingInv, RunOK
    <3>2. rRun.cur \in RModels \cup {NoModel} /\ rRun.rem \in {Unknown, 0}
      BY <3>1 DEF RunT
    <3>3. RModels \subseteq Nat
      BY RoutingAssumption
    <3>4. rRun.cur \in Nat
      <4>1. rRun.cur \in RModels \/ rRun.cur = 0
        BY <3>2 DEF NoModel
      <4>2. 0 \in Nat
        OBVIOUS
      <4> QED BY <4>1, <4>2, <3>3, Zenon
    <3>5. rRun.rem \in Int
      BY <3>2 DEF Unknown
    <3> QED BY <3>4, <3>5
  <2>2. rRun.lat \in Nat
    BY DEF RoutingInv, RunOK, RunT
  <2>3. RNeed \in Nat
    BY RoutingAssumption
  <2> QED BY <2>1, <2>2, <2>3 DEF IsSituation, Ctx
<1>2. d = Route(Defs(h), RPolicy, Ctx, Sticky, RMaxSwitches)
  BY DEF RouteOver
<1>3. IsList(Defs(h))
  BY DefsAreList DEF RoutingInv
<1>4. PICK m \in Defs(h) : m.id = d.model
  BY <1>1, <1>2, <1>3, PolicyType, RouteListed
<1>5. PICK e \in h.models : m = Def(e.id, e.o)
  BY DEF Defs
<1>6. e.id = d.model
  BY <1>4, <1>5 DEF Def
<1> QED BY <1>6 DEF HeldOK

-----------------------------------------------------------------------------
(* The steps of a run on its models and of what changes the registry. *)

LEMMA RoutingInvInit == RoutingInit => RoutingInv
<1> SUFFICES ASSUME RoutingInit PROVE RoutingInv
  OBVIOUS
<1>1. PICK p \in [RSeeded -> RPrices] : rReg = [m \in RSeeded |-> Fresh(m, p[m])]
  BY DEF RoutingInit
<1>2. RegOK(rReg)
  BY <1>1, FreshType, RoutingAssumption DEF RegOK
<1>3. RunOK(rRun, rReg) /\ rRun.pc = "start" /\ rRun.named = {}
  <2>1. rRun = [pc |-> "start", cur |-> NoModel, calling |-> NoModel, curOut |-> 0,
                tried |-> {}, refused |-> {}, named |-> {}, excused |-> {}, count |-> 0,
                cooling |-> FALSE, retries |-> 0, steps |-> 0, rem |-> Unknown, lat |-> 0, code |-> "none",
                by |-> "none", known |-> {}]
    BY DEF RoutingInit
  <2>2. rRun \in RunT
    BY <2>1 DEF RunT
  <2> QED BY <2>1, <2>2 DEF RunOK, CurrentIsFree
<1>4. rLoop = Idle /\ rPrice = Idle /\ Idle.named = {}
  BY DEF RoutingInit, Idle
<1> QED BY <1>2, <1>3, <1>4, HeldIdle DEF RoutingInv, Awaits

\* An outcome another run reports, or one of the run's own.
LEMMA MutateKeeps ==
    ASSUME RoutingInv, NEW m \in DOMAIN rReg, NEW ok \in BOOLEAN, NEW rel \in RRels,
           NEW lat \in RLats \cup {rReg[m].lat}, Mutate(m, Observed(rReg[m], ok, rel, lat))
    PROVE  /\ RegOK(rReg') /\ HeldOK(rLoop', rReg') /\ HeldOK(rPrice', rReg')
           /\ RunOK(rRun, rReg') /\ rLoop'.named = rLoop.named /\ rPrice'.named = rPrice.named
           /\ DOMAIN rReg' = DOMAIN rReg
<1> DEFINE o == Observed(rReg[m], ok, rel, lat)
<1>1. rReg[m] \in ObjT
  BY DEF RoutingInv, RegOK
<1>2. o \in ObjT /\ o.obj = rReg[m].obj /\ (o.status = "unavailable" <=> rReg[m].status = "unavailable")
  <2>1. rel \in Rate /\ lat \in Rate
    BY <1>1, ObservedRates
  <2> QED BY <1>1, <2>1, ObservedType
<1>3. rReg' = [rReg EXCEPT ![m] = o] /\ rLoop' = Held(rLoop, m, o) /\ rPrice' = Held(rPrice, m, o)
  BY DEF Mutate
<1> HIDE DEF o
<1>4. RegOK(rReg') /\ HeldOK(rLoop', rReg') /\ HeldOK(rPrice', rReg')
  BY <1>2, <1>3, HeldMutated DEF RoutingInv
<1>5. DOMAIN rReg' = DOMAIN rReg
      /\ \A i \in DOMAIN rReg : rReg[i].status = "unavailable" => rReg'[i].status = "unavailable"
  BY <1>2, <1>3 DEF RoutingInv, RegOK
<1>6. RunOK(rRun, rReg')
  BY <1>5, RunKept DEF RoutingInv
<1>7. rLoop'.named = rLoop.named /\ rPrice'.named = rPrice.named
  BY <1>3 DEF Held, RoutingInv, HeldOK, HeldT
<1> QED BY <1>4, <1>5, <1>6, <1>7

LEMMA OtherRunStep ==
    ASSUME RoutingInv, NEW m \in RModels, NEW ok \in BOOLEAN, OtherRunObserves(m, ok)
    PROVE  RoutingInv'
<1>1. m \in DOMAIN rReg /\ rRun' = rRun
  BY DEF OtherRunObserves, RegDom
<1>2. PICK rel \in RRels, lat \in RLats \cup {rReg[m].lat} : Mutate(m, Observed(rReg[m], ok, rel, lat))
  BY DEF OtherRunObserves, Timed
<1> QED BY <1>1, <1>2, MutateKeeps DEF RoutingInv

LEMMA DiscoverModelStep ==
    ASSUME RoutingInv, NEW m \in RModels, NEW out \in RPrices, DiscoverModel(m, out)
    PROVE  RoutingInv'
<1>1. /\ m \in RModels \ DOMAIN rReg
      /\ rReg' = [i \in DOMAIN rReg \cup {m} |-> IF i = m THEN Fresh(m, out) ELSE rReg[i]]
      /\ rRun' = rRun /\ rLoop' = rLoop /\ rPrice' = rPrice
  BY DEF DiscoverModel, RegDom
<1>2. Fresh(m, out) \in ObjT
  BY FreshType
<1>3. RegOK(rReg') /\ HeldOK(rLoop, rReg') /\ HeldOK(rPrice, rReg')
  BY <1>1, <1>2, HeldGrown DEF RoutingInv
<1>4. DOMAIN rReg \subseteq DOMAIN rReg' /\ \A i \in DOMAIN rReg : rReg'[i] = rReg[i]
  BY <1>1
<1>5. RunOK(rRun, rReg')
  BY <1>4, RunKept DEF RoutingInv
<1> QED BY <1>1, <1>3, <1>5 DEF RoutingInv

LEMMA DiscoverPatchStep ==
    ASSUME RoutingInv, NEW m \in RModels, DiscoverPatch(m)
    PROVE  RoutingInv'
<1> DEFINE o == [rReg[m] EXCEPT !.obj = @ + 1]
<1>1. m \in DOMAIN rReg /\ rReg[m] \in ObjT
  BY DEF DiscoverPatch, RegDom, RoutingInv, RegOK
<1>2. rReg' = [rReg EXCEPT ![m] = o] /\ rRun' = rRun /\ rLoop' = rLoop /\ rPrice' = rPrice
  BY <1>1 DEF DiscoverPatch
<1>3. o \in ObjT /\ o.obj = rReg[m].obj + 1 /\ o.status = rReg[m].status
  BY <1>1 DEF ObjT
<1> HIDE DEF o
<1>4. RegOK(rReg') /\ HeldOK(rLoop, rReg') /\ HeldOK(rPrice, rReg')
  BY <1>1, <1>2, <1>3, HeldReplaced DEF RoutingInv
<1>5. DOMAIN rReg' = DOMAIN rReg /\ \A i \in DOMAIN rReg : rReg'[i].status = rReg[i].status
  BY <1>1, <1>2, <1>3 DEF RoutingInv, RegOK
<1>6. RunOK(rRun, rReg')
  BY <1>5, RunKept DEF RoutingInv
<1> QED BY <1>2, <1>4, <1>6 DEF RoutingInv

LEMMA PriceUpdateStep ==
    ASSUME RoutingInv, NEW m \in RModels, NEW out \in RPrices, PriceUpdate(m, out)
    PROVE  RoutingInv'
<1> DEFINE o == PriceRecorded(rReg[m], out)
<1>1. m \in DOMAIN rReg /\ rReg[m] \in ObjT
  BY DEF PriceUpdate, RegDom, RoutingInv, RegOK
<1>2. o \in ObjT /\ o.obj = rReg[m].obj /\ o.status = rReg[m].status
  BY <1>1, RoutingAssumption DEF ObjT, PriceRecorded, Rate
<1>3. rReg' = [rReg EXCEPT ![m] = o] /\ rLoop' = Held(rLoop, m, o)
  BY DEF PriceUpdate
<1>4. DOMAIN rReg' = DOMAIN rReg /\ rReg'[m] = o /\ \A i \in DOMAIN rReg : i # m => rReg'[i] = rReg[i]
  BY <1>1, <1>3 DEF RoutingInv, RegOK
<1> DEFINE S == {i \in RegDom : Usable(i)}
           h == [on |-> TRUE, named |-> rRun.named,
                 models |-> {[id |-> i, o |-> rReg'[i]] : i \in S}]
<1>5. rPrice' = h \/ rPrice' = Held(rPrice, m, o)
  <2>1. \A i \in S : (IF i = m THEN o ELSE rReg[i]) = rReg'[i]
    BY <1>4 DEF RegDom
  <2>2. rPrice' = [on |-> TRUE, named |-> rRun.named,
                   models |-> {[id |-> i, o |-> IF i = m THEN o ELSE rReg[i]] : i \in S}]
        \/ rPrice' = Held(rPrice, m, o)
    BY DEF PriceUpdate
  <2>3. {[id |-> i, o |-> IF i = m THEN o ELSE rReg[i]] : i \in S} = {[id |-> i, o |-> rReg'[i]] : i \in S}
    <3> HIDE DEF o, S
    <3> QED BY <2>1
  <2> QED BY <2>2, <2>3
<1> HIDE DEF o
<1>6. RegOK(rReg') /\ HeldOK(rLoop', rReg') /\ HeldOK(Held(rPrice, m, o), rReg')
  BY <1>1, <1>2, <1>3, HeldMutated DEF RoutingInv
<1>7. HeldOK(h, rReg')
  <2>1. S \subseteq DOMAIN rReg' /\ rRun.named \subseteq RModels
    BY <1>4 DEF RegDom, RoutingInv, RunOK, RunT
  <2>2. \A i \in S : rReg'[i].status # "unavailable" /\ i \notin rRun.named
    BY <1>2, <1>4 DEF Usable, RegDom, RoutingInv, RunOK
  <2> HIDE DEF S
  <2> QED BY <2>1, <2>2, <1>6, HeldTaken
<1>8. \A i \in DOMAIN rReg : rReg'[i].status = rReg[i].status
  BY <1>2, <1>4
<1>9. RunOK(rRun, rReg')
  BY <1>4, <1>8, RunKept DEF RoutingInv
<1>10. RunOK(rRun', rReg') /\ rRun'.pc = rRun.pc /\ rRun'.named = rRun.named
  <2>1. PICK x \in {rRun.curOut, out} : rRun' = [rRun EXCEPT !.curOut = x]
    BY <1>9 DEF PriceUpdate
  <2>2. x \in Int
    BY <1>9, RoutingAssumption DEF RunOK, RunT, Unknown
  <2> QED BY <2>1, <2>2, <1>9 DEF RunOK, RunT, CurrentIsFree
<1>11. rLoop'.named = rLoop.named /\ rPrice'.named \subseteq rRun.named
  BY <1>3, <1>5 DEF Held, RoutingInv, HeldOK, HeldT
<1>12. HeldOK(rPrice', rReg')
  BY <1>5, <1>6, <1>7
<1> QED BY <1>6, <1>10, <1>11, <1>12 DEF RoutingInv

\* What a run may take over from a routing is typed.
LEMMA HeldModels ==
    ASSUME RoutingInv, NEW h, HeldOK(h, rReg)
    PROVE  /\ \A e \in h.models : e.id \in RModels
           /\ \A m : OutOf(h, m) \in Int
           /\ {e.id : e \in h.models} \in SUBSET RModels
<1>1. \A e \in h.models : e.id \in RModels /\ e.o.out \in Int
  BY RateNumbers DEF HeldOK, HeldT, ObjT
<1>2. rRun.curOut \in Int
  BY DEF RoutingInv, RunOK, RunT
<1>3. \A m : OutOf(h, m) \in Int
  BY <1>1, <1>2 DEF OutOf
<1> QED BY <1>1, <1>3

\* A run that takes a model over stays typed.
LEMMA RunTakes ==
    ASSUME rRun \in RunT, NEW m \in RModels, NEW out \in Int, NEW K \in SUBSET RModels,
           NEW who \in {"none", "loop", "price", "stale", "switch"}
    PROVE  [rRun EXCEPT !.cur = m, !.curOut = out, !.by = who, !.known = K] \in RunT
BY DEF RunT

\* A step of the run alone that keeps what has refused it.
LEMMA RunMoves ==
    ASSUME RoutingInv, rReg' = rReg, rLoop' = rLoop, rPrice' = rPrice,
           RunOK(rRun', rReg), rRun'.named = rRun.named,
           rRun'.pc \in Awaits => rRun.pc \in Awaits
    PROVE  RoutingInv'
BY DEF RoutingInv

LEMMA SelectStartStep == ASSUME RoutingInv, SelectStart PROVE RoutingInv'
<1> DEFINE S == {m \in RegDom : Usable(m)}
<1>1. rRun \in RunT /\ RunOK(rRun, rReg) /\ rRun.pc = "start" /\ rReg' = rReg /\ rPrice' = rPrice
  BY DEF SelectStart, RoutingInv, RunOK
<1>2. CASE S = {}
  <2>1. rRun' = [rRun EXCEPT !.pc = "failed"] /\ rLoop' = rLoop
    BY <1>2 DEF SelectStart
  <2>2. RunOK(rRun', rReg) /\ rRun'.named = rRun.named /\ rRun'.pc = "failed"
    BY <1>1, <2>1 DEF RunOK, RunT, CurrentIsFree
  <2> QED BY <1>1, <2>1, <2>2, RunMoves DEF Awaits
<1>3. CASE S # {}
  <2>1. rRun' = [rRun EXCEPT !.pc = "selecting"] /\ rLoop' = Take(S)
    BY <1>3 DEF SelectStart
  <2>2. S \subseteq DOMAIN rReg /\ \A i \in S : rReg[i].status # "unavailable" /\ i \notin rRun.named
    BY <1>1 DEF Usable, RegDom, RunOK
  <2>3. rRun.named \subseteq RModels
    BY <1>1 DEF RunT
  <2> HIDE DEF S
  <2>4. HeldOK(Take(S), rReg)
    BY <2>2, <2>3, HeldTaken DEF Take, RoutingInv
  <2>5. RunOK(rRun', rReg) /\ rRun'.named = rRun.named
    BY <1>1, <2>1 DEF RunOK, RunT, CurrentIsFree
  <2>6. rLoop'.named = rRun.named
    BY <2>1 DEF Take
  <2> QED BY <1>1, <2>1, <2>4, <2>5, <2>6 DEF RoutingInv
<1> QED BY <1>2, <1>3

LEMMA SwitchStartStep == ASSUME RoutingInv, SwitchStart PROVE RoutingInv'
<1>1. rRun \in RunT /\ RunOK(rRun, rReg) /\ rRun.pc \in {"failover", "bigger", "budget"}
      /\ rReg' = rReg /\ rPrice' = rPrice
  BY DEF SwitchStart, RoutingInv, RunOK
<1>2. PICK S \in SwitchSets :
        rRun' = [rRun EXCEPT !.pc = IF @ = "budget" THEN "cheaper" ELSE "switching"] /\ rLoop' = Take(S)
  BY DEF SwitchStart
<1>3. S \subseteq {m \in RegDom : rReg[m].status = "healthy"}
  <2>1. S = FailoverSet \/ S \subseteq BiggerSet \/ S \subseteq CheaperSet
    BY <1>1 DEF SwitchSets, FirstOf
  <2> QED BY <2>1 DEF FailoverSet, BiggerSet, CheaperSet
<1>4. S \subseteq DOMAIN rReg /\ \A i \in S : rReg[i].status # "unavailable" /\ i \notin rRun.named
  BY <1>1, <1>3 DEF RegDom, RunOK
<1>5. rRun.named \subseteq RModels
  BY <1>1 DEF RunT
<1>6. HeldOK(Take(S), rReg)
  BY <1>4, <1>5, HeldTaken DEF Take, RoutingInv
<1>7. RunOK(rRun', rReg) /\ rRun'.named = rRun.named
  BY <1>1, <1>2 DEF RunOK, RunT, CurrentIsFree
<1>8. rLoop'.named = rRun.named
  BY <1>2 DEF Take
<1> QED BY <1>1, <1>2, <1>6, <1>7, <1>8 DEF RoutingInv

\* What the loop waited for gives the run a model that has not refused it.
LEMMA SelectApplyStep == ASSUME RoutingInv, SelectApply PROVE RoutingInv'
<1>1. rRun \in RunT /\ RunOK(rRun, rReg) /\ rRun.pc = "selecting" /\ rReg' = rReg /\ rPrice' = rPrice
      /\ rLoop' = Idle
  BY DEF SelectApply, RoutingInv, RunOK
<1>2. PICK d \in RouteOver(rLoop) :
          rRun' = IF d.err # "none" THEN [rRun EXCEPT !.pc = "failed"]
                  ELSE [Selected(d, rLoop, "loop") EXCEPT !.pc = "ready"]
  BY DEF SelectApply
<1>3. RunOK(rRun', rReg) /\ rRun'.named = rRun.named /\ rRun'.pc \notin Awaits
  <2>1. CASE d.err # "none"
    BY <1>1, <1>2, <2>1 DEF RunOK, RunT, CurrentIsFree, Awaits
  <2>2. CASE d.err = "none"
    <3>1. PICK e \in rLoop.models : e.id = d.model /\ e.id \in DOMAIN rReg /\ e.id \notin rLoop.named
      BY <2>2, DecisionHeld DEF RoutingInv
    <3>2. rLoop.named = rRun.named
      BY <1>1 DEF RoutingInv, Awaits
    <3>3. HeldOK(rLoop, rReg) /\ d.model = e.id
      BY <3>1 DEF RoutingInv
    <3> DEFINE out == OutOf(rLoop, d.model)
               K == {f.id : f \in rLoop.models}
               sel == [rRun EXCEPT !.cur = e.id, !.curOut = out, !.by = "loop", !.known = K]
    <3>4. e.id \in RModels /\ out \in Int /\ K \in SUBSET RModels
      BY <3>1, <3>3, HeldModels
    <3>5. rRun' = [sel EXCEPT !.pc = "ready"]
      BY <1>2, <2>2, <3>3 DEF Selected
    <3> HIDE DEF out, K
    <3>6. /\ sel \in RunT /\ sel.cur = e.id /\ sel.named = rRun.named
          /\ sel.refused = rRun.refused /\ sel.excused = rRun.excused
      <4>1. sel \in RunT
        BY <1>1, <3>4, RunTakes
      <4> QED BY <1>1, <4>1 DEF RunT
    <3> HIDE DEF sel
    <3>7. /\ rRun' \in RunT /\ rRun'.cur = e.id /\ rRun'.named = rRun.named /\ rRun'.pc = "ready"
          /\ rRun'.refused = rRun.refused /\ rRun'.excused = rRun.excused
      BY <3>5, <3>6 DEF RunT
    <3> QED BY <1>1, <3>1, <3>2, <3>7 DEF RunOK, CurrentIsFree, Awaits
  <2> QED BY <2>1, <2>2
<1> QED BY <1>1, <1>3, HeldIdle DEF RoutingInv

LEMMA ApplySwitchStep == ASSUME RoutingInv, ApplyModelSwitch PROVE RoutingInv'
<1>1. rRun \in RunT /\ RunOK(rRun, rReg) /\ rRun.pc \in {"switching", "cheaper"} /\ rReg' = rReg
      /\ rPrice' = rPrice /\ rLoop' = Idle
  BY DEF ApplyModelSwitch, RoutingInv, RunOK
<1>2. PICK d \in RouteOver(rLoop) :
          rRun' = IF d.err # "none" \/ ~GatePassed THEN [rRun EXCEPT !.pc = "failed"]
                  ELSE [rRun EXCEPT !.cur = d.model, !.curOut = OutOf(rLoop, d.model),
                            !.by = "switch", !.count = @ + 1, !.cooling = TRUE,
                            !.pc = IF rRun.steps >= RMaxSteps THEN "done" ELSE "ready"]
  BY Zenon DEF ApplyModelSwitch
<1>3. RunOK(rRun', rReg) /\ rRun'.named = rRun.named /\ rRun'.pc \notin Awaits
  <2>1. CASE d.err # "none" \/ ~GatePassed
    BY <1>1, <1>2, <2>1 DEF RunOK, RunT, CurrentIsFree, Awaits
  <2>2. CASE d.err = "none" /\ GatePassed
    <3>1. PICK e \in rLoop.models : e.id = d.model /\ e.id \in DOMAIN rReg /\ e.id \notin rLoop.named
      BY <2>2, DecisionHeld DEF RoutingInv
    <3>2. rLoop.named = rRun.named
      BY <1>1 DEF RoutingInv, Awaits
    <3>3. HeldOK(rLoop, rReg) /\ d.model = e.id
      BY <3>1 DEF RoutingInv
    <3>4. e.id \in RModels /\ OutOf(rLoop, d.model) \in Int
      BY <3>1, <3>3, HeldModels
    <3>5. rRun' = [rRun EXCEPT !.cur = d.model, !.curOut = OutOf(rLoop, d.model),
                            !.by = "switch", !.count = @ + 1, !.cooling = TRUE,
                            !.pc = IF rRun.steps >= RMaxSteps THEN "done" ELSE "ready"]
      BY <1>2, <2>2
    <3>6. /\ rRun' \in RunT /\ rRun'.cur = e.id /\ rRun'.named = rRun.named
          /\ rRun'.refused = rRun.refused /\ rRun'.excused = rRun.excused
          /\ rRun'.pc \in {"done", "ready"}
      <4> DEFINE pc == IF rRun.steps >= RMaxSteps THEN "done" ELSE "ready"
                 k == rRun.count + 1
      <4>1. pc \in {"done", "ready"} /\ k \in Nat
        BY <1>1 DEF RunT
      <4>2. rRun' = [rRun EXCEPT !.cur = e.id, !.curOut = OutOf(rLoop, d.model),
                            !.by = "switch", !.count = k, !.cooling = TRUE, !.pc = pc]
        BY <3>3, <3>5
      <4> HIDE DEF pc, k
      <4> QED BY <1>1, <3>4, <4>1, <4>2 DEF RunT
    <3> QED BY <1>1, <3>1, <3>2, <3>6 DEF RunOK, CurrentIsFree, Awaits
  <2> QED BY <2>1, <2>2
<1> QED BY <1>1, <1>3, HeldIdle DEF RoutingInv

\* The price handler's choice is free, or is known to be stale.
LEMMA PriceSelectStep == ASSUME RoutingInv, PriceSelectApply PROVE RoutingInv'
<1>1. rRun \in RunT /\ RunOK(rRun, rReg) /\ rReg' = rReg /\ rLoop' = rLoop /\ rPrice' = Idle
  BY DEF PriceSelectApply, RoutingInv, RunOK
<1>2. PICK d \in RouteOver(rPrice) :
        LET stale == d.model \in rRun.named \ rPrice.named
        IN rRun' = IF Live /\ d.err = "none"
                   THEN Selected(d, rPrice, IF stale THEN "stale" ELSE "price") ELSE rRun
  BY DEF PriceSelectApply
<1>3. RunOK(rRun', rReg) /\ rRun'.named = rRun.named /\ rRun'.pc = rRun.pc
  <2>1. CASE ~(Live /\ d.err = "none")
    BY <1>1, <1>2, <2>1
  <2>2. CASE Live /\ d.err = "none"
    <3>1. PICK e \in rPrice.models : e.id = d.model /\ e.id \in DOMAIN rReg /\ e.id \notin rPrice.named
      BY <2>2, DecisionHeld DEF RoutingInv
    <3>2. PICK who \in {"stale", "price"} : /\ rRun' = Selected(d, rPrice, who)
                                            /\ who = "stale" \/ e.id \notin rRun.named
      BY <1>2, <2>2, <3>1
    <3>3. HeldOK(rPrice, rReg) /\ d.model = e.id
      BY <3>1 DEF RoutingInv
    <3>4. rRun' \in RunT
          /\ rRun' = [rRun EXCEPT !.cur = d.model, !.curOut = OutOf(rPrice, d.model),
                            !.by = who, !.known = {f.id : f \in rPrice.models}]
      <4> DEFINE out == OutOf(rPrice, d.model)
                 K == {f.id : f \in rPrice.models}
      <4>1. e.id \in RModels /\ out \in Int /\ K \in SUBSET RModels
        BY <3>1, <3>3, HeldModels
      <4>2. rRun' = [rRun EXCEPT !.cur = d.model, !.curOut = out, !.by = who, !.known = K]
        BY <3>2 DEF Selected
      <4> HIDE DEF out, K
      <4>3. rRun' \in RunT
        BY <1>1, <3>3, <4>1, <4>2, RunTakes
      <4> QED BY <4>2, <4>3 DEF out, K
    <3>5. /\ rRun'.cur = e.id /\ rRun'.named = rRun.named /\ rRun'.pc = rRun.pc /\ rRun'.by = who
          /\ rRun'.calling = rRun.calling
      <4>1. rRun' = [rRun EXCEPT !.cur = e.id, !.curOut = OutOf(rPrice, d.model),
                            !.by = who, !.known = {f.id : f \in rPrice.models}]
        BY <3>3, <3>4
      <4> QED BY <1>1, <4>1 DEF RunT
    <3> QED BY <1>1, <3>1, <3>2, <3>4, <3>5 DEF RunOK, CurrentIsFree
  <2> QED BY <2>1, <2>2
<1>4. Idle.named = {}
  BY DEF Idle
<1> QED BY <1>1, <1>3, <1>4, HeldIdle DEF RoutingInv

LEMMA CallModelStep == ASSUME RoutingInv, CallModel PROVE RoutingInv'
<1>1. rRun \in RunT /\ RunOK(rRun, rReg) /\ rRun.pc = "ready"
      /\ rReg' = rReg /\ rLoop' = rLoop /\ rPrice' = rPrice
      /\ rRun' = [rRun EXCEPT !.pc = "calling", !.calling = rRun.cur, !.steps = @ + 1]
  BY DEF CallModel, RoutingInv, RunOK
<1>2. rRun.cur \in RModels \cup {NoModel} /\ rRun.steps \in Nat /\ rRun.cur \in DOMAIN rReg
  BY <1>1 DEF RunOK, RunT
<1>3. /\ rRun' \in RunT /\ rRun'.named = rRun.named /\ rRun'.pc = "calling"
      /\ rRun'.refused = rRun.refused /\ rRun'.excused = rRun.excused
      /\ rRun'.cur = rRun.cur /\ rRun'.by = rRun.by /\ rRun'.calling = rRun.cur
  <2> DEFINE k == rRun.steps + 1
  <2>1. k \in Nat /\ rRun' = [rRun EXCEPT !.pc = "calling", !.calling = rRun.cur, !.steps = k]
    BY <1>1, <1>2
  <2> HIDE DEF k
  <2>2. rRun' \in RunT
    BY <1>1, <1>2, <2>1 DEF RunT
  <2>3. DOMAIN rRun = {"pc", "cur", "calling", "curOut", "tried", "refused", "named", "excused", "count",
                       "cooling", "retries", "steps", "rem", "lat", "code", "by", "known"}
    BY <1>1 DEF RunT
  <2>4. /\ rRun'.named = rRun.named /\ rRun'.refused = rRun.refused /\ rRun'.excused = rRun.excused
        /\ rRun'.pc = "calling" /\ rRun'.cur = rRun.cur /\ rRun'.by = rRun.by /\ rRun'.calling = rRun.cur
    BY <2>1, <2>3
  <2> QED BY <2>2, <2>4
<1>4. RunOK(rRun', rReg)
  BY <1>1, <1>2, <1>3 DEF RunOK, CurrentIsFree
<1> QED BY <1>1, <1>3, <1>4, RunMoves DEF Awaits

LEMMA CallSucceedsStep ==
    ASSUME RoutingInv, NEW spent \in BOOLEAN, NEW took \in RLats, CallSucceeds(spent, took)
    PROVE  RoutingInv'
<1>1. rRun \in RunT /\ RunOK(rRun, rReg) /\ rRun.pc = "calling" /\ rRun.calling \in DOMAIN rReg
  BY DEF CallSucceeds, RoutingInv, RunOK
<1>2. PICK rel \in RRels, lat \in RLats : Mutate(rRun.calling, Observed(rReg[rRun.calling], TRUE, rel, lat))
  BY DEF CallSucceeds
<1>3. rRun' = [rRun EXCEPT !.calling = NoModel, !.lat = took, !.rem = IF spent THEN 0 ELSE @,
                    !.pc = IF spent THEN "budget"
                           ELSE IF rRun.steps >= RMaxSteps THEN "done" ELSE "ready"]
  BY DEF CallSucceeds
<1>4. /\ RegOK(rReg') /\ HeldOK(rLoop', rReg') /\ HeldOK(rPrice', rReg')
      /\ RunOK(rRun, rReg') /\ rLoop'.named = rLoop.named /\ rPrice'.named = rPrice.named
  BY <1>1, <1>2, MutateKeeps
<1>5. took \in Nat
  BY RoutingAssumption
<1>6. RunOK(rRun', rReg') /\ rRun'.named = rRun.named /\ rRun'.pc \in {"budget", "done", "ready"}
  <2> DEFINE pc == IF spent THEN "budget" ELSE IF rRun.steps >= RMaxSteps THEN "done" ELSE "ready"
             rem == IF spent THEN 0 ELSE rRun.rem
  <2>1. pc \in {"budget", "done", "ready"} /\ rem \in {Unknown, 0}
    BY <1>1 DEF RunT
  <2>2. rRun' = [rRun EXCEPT !.calling = NoModel, !.lat = took, !.rem = rem, !.pc = pc]
    BY <1>3
  <2> HIDE DEF pc, rem
  <2>3. rRun' \in RunT
    BY <1>1, <1>5, <2>1, <2>2 DEF RunT
  <2>4. DOMAIN rRun = {"pc", "cur", "calling", "curOut", "tried", "refused", "named", "excused", "count",
                       "cooling", "retries", "steps", "rem", "lat", "code", "by", "known"}
    BY <1>1 DEF RunT
  <2>5. /\ rRun'.named = rRun.named /\ rRun'.refused = rRun.refused /\ rRun'.excused = rRun.excused
        /\ rRun'.pc = pc /\ rRun'.cur = rRun.cur /\ rRun'.by = rRun.by
    BY <2>2, <2>4
  <2> QED BY <1>4, <2>1, <2>3, <2>5, <1>1 DEF RunOK, CurrentIsFree
<1> QED BY <1>4, <1>6 DEF RoutingInv, Awaits

\* A failed call marks the model it names, whose object is then a new one.
LEMMA CallFailsStep ==
    ASSUME RoutingInv, NEW code \in {"retryable", "model_unavailable", "context_exhausted", "auth"},
           NEW rel \in RRels, CallFails(code, rel)
    PROVE  RoutingInv'
<1> DEFINE c == rRun.calling
           o == Observed(rReg[c], FALSE, rel, rReg[c].lat)
           after == [rReg EXCEPT ![c] = o]
           failed == rRun.cur
<1>1. rRun \in RunT /\ RunOK(rRun, rReg) /\ rRun.pc = "calling" /\ c \in DOMAIN rReg /\ failed \in DOMAIN rReg
      /\ failed \in RModels
  BY DEF CallFails, RoutingInv, RunOK, RegOK
<1>2. rReg[c] \in ObjT /\ RegOK(rReg) /\ HeldOK(rLoop, rReg) /\ HeldOK(rPrice, rReg)
  BY <1>1 DEF RoutingInv, RegOK
<1>3. o \in ObjT /\ o.obj = rReg[c].obj /\ (o.status = "unavailable" <=> rReg[c].status = "unavailable")
  <2>1. rel \in Rate /\ rReg[c].lat \in Rate
    BY <1>2, ObservedRates
  <2> QED BY <1>2, <2>1, ObservedType
<1>4. after[c] = o /\ DOMAIN after = DOMAIN rReg
      /\ \A i \in DOMAIN rReg : rReg[i].status = "unavailable" => after[i].status = "unavailable"
  <2> HIDE DEF o, c
  <2> QED BY <1>1, <1>2, <1>3 DEF RegOK
<1>5. /\ rReg' = IF code = "model_unavailable" THEN MarkUnavailable(after, failed) ELSE after
      /\ rLoop' = Held(rLoop, c, o) /\ rPrice' = Held(rPrice, c, o)
      /\ rRun' = [rRun EXCEPT !.calling = NoModel,
              !.pc = CASE code = "context_exhausted" -> "bigger"
                       [] code = "auth" -> "failed"
                       [] OTHER -> "failover",
              !.tried = IF code \in {"retryable", "model_unavailable"}
                        THEN @ \cup {failed} ELSE @,
              !.code = code,
              !.named = IF code = "model_unavailable" THEN @ \cup {failed} ELSE @,
              !.refused = IF code = "model_unavailable" THEN @ \cup {c} ELSE @,
              !.excused = IF code = "model_unavailable" /\ c # failed THEN @ \cup {c} ELSE @]
  <2>1. after = [rReg EXCEPT ![rRun.calling] = Observed(@, FALSE, rel, @.lat)]
    OBVIOUS
  <2> QED BY <1>4, <2>1 DEF CallFails
<1> HIDE DEF o, after, failed, c
<1>6. RegOK(after) /\ HeldOK(Held(rLoop, c, o), after) /\ HeldOK(Held(rPrice, c, o), after)
  BY <1>1, <1>2, <1>3, HeldMutated DEF after
<1>7. RunOK(rRun, after)
  BY <1>1, <1>4, RunKept
<1>8. /\ RegOK(MarkUnavailable(after, failed))
      /\ \A h : HeldOK(h, after) => HeldOK(h, MarkUnavailable(after, failed))
      /\ DOMAIN MarkUnavailable(after, failed) = DOMAIN after
      /\ MarkUnavailable(after, failed)[failed].status = "unavailable"
      /\ \A i \in DOMAIN after : after[i].status = "unavailable" =>
             MarkUnavailable(after, failed)[i].status = "unavailable"
  <2> DEFINE n == Replaced(after[failed], "unavailable")
  <2>1. after[failed] \in ObjT /\ failed \in DOMAIN after
    BY <1>1, <1>4, <1>6 DEF RegOK
  <2>2. CASE after[failed].status = "unavailable"
    <3>1. MarkUnavailable(after, failed) = after
      BY <2>2 DEF MarkUnavailable
    <3> QED BY <3>1, <2>2, <1>6
  <2>3. CASE after[failed].status # "unavailable"
    <3>1. MarkUnavailable(after, failed) = [after EXCEPT ![failed] = n]
      BY <2>3 DEF MarkUnavailable
    <3>2. n \in ObjT /\ n.obj = after[failed].obj + 1 /\ n.status = "unavailable"
      <4> DEFINE k == after[failed].obj + 1
      <4>1. n = [after[failed] EXCEPT !.status = "unavailable", !.byObserver = FALSE, !.obj = k]
        BY DEF Replaced
      <4>2. k \in Nat
        BY <2>1 DEF ObjT
      <4> HIDE DEF n, k
      <4>3. n \in ObjT /\ n.obj = k /\ n.status = "unavailable"
        BY <2>1, <4>1, <4>2 DEF ObjT
      <4> QED BY <4>3 DEF k
    <3> HIDE DEF n
    <3>3. RegOK([after EXCEPT ![failed] = n])
          /\ \A h : HeldOK(h, after) => HeldOK(h, [after EXCEPT ![failed] = n])
      BY <3>2, <2>1, <1>6, HeldReplaced
    <3>4. /\ DOMAIN [after EXCEPT ![failed] = n] = DOMAIN after
          /\ [after EXCEPT ![failed] = n][failed].status = "unavailable"
          /\ \A i \in DOMAIN after : after[i].status = "unavailable" =>
               [after EXCEPT ![failed] = n][i].status = "unavailable"
      BY <3>2, <2>1, <1>6 DEF RegOK
    <3> QED BY <3>1, <3>3, <3>4
  <2> QED BY <2>2, <2>3
<1>9. RegOK(rReg') /\ HeldOK(rLoop', rReg') /\ HeldOK(rPrice', rReg')
  BY <1>5, <1>6, <1>8
<1>10. /\ rRun' \in RunT
       /\ rRun'.pc \in {"bigger", "failed", "failover"} /\ rRun'.code = code
       /\ rRun'.pc # "failed" => rRun'.cur = rRun.cur
       /\ rRun'.cur = rRun.cur /\ rRun'.by = rRun.by
       /\ rRun'.named = IF code = "model_unavailable" THEN rRun.named \cup {failed} ELSE rRun.named
       /\ rRun'.refused = IF code = "model_unavailable" THEN rRun.refused \cup {c} ELSE rRun.refused
       /\ rRun'.excused = IF code = "model_unavailable" /\ c # failed
                          THEN rRun.excused \cup {c} ELSE rRun.excused
  <2>1. c \in RModels
    BY <1>1, <1>2 DEF RegOK
  <2> DEFINE pc == CASE code = "context_exhausted" -> "bigger"
                     [] code = "auth" -> "failed"
                     [] OTHER -> "failover"
             gone == code = "model_unavailable"
             tried == IF code \in {"retryable", "model_unavailable"} THEN rRun.tried \cup {failed} ELSE rRun.tried
             named == IF gone THEN rRun.named \cup {failed} ELSE rRun.named
             refused == IF gone THEN rRun.refused \cup {c} ELSE rRun.refused
             excused == IF gone /\ c # failed THEN rRun.excused \cup {c} ELSE rRun.excused
  <2>2. rRun' = [rRun EXCEPT !.calling = NoModel, !.pc = pc, !.tried = tried, !.code = code,
                             !.named = named, !.refused = refused, !.excused = excused]
    BY <1>5
  <2>3. pc \in {"bigger", "failed", "failover"}
    OBVIOUS
  <2>4. /\ tried \in SUBSET RModels /\ named \in SUBSET RModels
        /\ refused \in SUBSET RModels /\ excused \in SUBSET RModels
    BY <1>1, <2>1 DEF RunT
  <2> HIDE DEF pc, tried, named, refused, excused
  <2>5. /\ rRun' \in RunT /\ rRun'.pc = pc /\ rRun'.code = code /\ rRun'.cur = rRun.cur
        /\ rRun'.by = rRun.by /\ rRun'.named = named /\ rRun'.refused = refused
        /\ rRun'.excused = excused
    BY <1>1, <2>2, <2>3, <2>4 DEF RunT
  <2> QED BY <2>3, <2>5 DEF named, refused, excused
<1>11. RunOK(rRun', rReg')
  <2>3. rRun'.refused \ rRun'.excused \subseteq rRun'.named
    BY <1>1, <1>10 DEF RunOK
  <2>1. CASE code = "model_unavailable"
    <3>1. rReg' = MarkUnavailable(after, failed) /\ rRun'.named = rRun.named \cup {failed}
      BY <1>5, <1>10, <2>1
    <3>2. \A m \in rRun'.named : m \in DOMAIN rReg' /\ rReg'[m].status = "unavailable"
      BY <3>1, <1>1, <1>4, <1>7, <1>8 DEF RunOK
    <3>3. rRun'.cur \in DOMAIN rReg'
      BY <3>1, <1>1, <1>4, <1>8, <1>10 DEF failed
    <3> QED BY <2>1, <2>3, <3>2, <3>3, <1>10 DEF RunOK, CurrentIsFree
  <2>2. CASE code # "model_unavailable"
    <3>1. rReg' = after /\ rRun'.named = rRun.named
      BY <1>5, <1>10, <2>2
    <3>2. CurrentIsFree(rRun')
      BY <3>1, <1>1, <1>10 DEF RunOK, CurrentIsFree
    <3> QED BY <2>3, <3>1, <3>2, <1>1, <1>4, <1>7, <1>10 DEF RunOK, failed
  <2> QED BY <2>1, <2>2
<1>12. rPrice'.named \subseteq rRun'.named
  <2>1. rPrice'.named = rPrice.named
    BY <1>5 DEF Held, RoutingInv, HeldOK, HeldT
  <2> QED BY <2>1, <1>10 DEF RoutingInv
<1> QED BY <1>9, <1>10, <1>11, <1>12 DEF RoutingInv, Awaits

LEMMA NoFailoverStep == ASSUME RoutingInv, NoFailover PROVE RoutingInv'
<1>1. rRun \in RunT /\ RunOK(rRun, rReg) /\ rRun.pc = "failover"
      /\ rReg' = rReg /\ rLoop' = rLoop /\ rPrice' = rPrice
      /\ rRun' = IF rRun.code # "model_unavailable" /\ rRun.retries < RMaxRetries
                 THEN [rRun EXCEPT !.pc = IF rRun.steps >= RMaxSteps THEN "done" ELSE "ready",
                                   !.retries = @ + 1]
                 ELSE [rRun EXCEPT !.pc = "failed"]
  BY DEF NoFailover, RoutingInv, RunOK
<1>2. RunOK(rRun', rReg) /\ rRun'.named = rRun.named /\ rRun'.pc \in {"done", "ready", "failed"}
  <2>1. CASE rRun.code # "model_unavailable" /\ rRun.retries < RMaxRetries
    <3> DEFINE pc == IF rRun.steps >= RMaxSteps THEN "done" ELSE "ready"
           k == rRun.retries + 1
    <3>1. pc \in {"done", "ready"} /\ k \in Nat
      BY <1>1 DEF RunT
    <3>2. rRun' = [rRun EXCEPT !.pc = pc, !.retries = k]
      BY <1>1, <2>1
    <3> HIDE DEF pc, k
    <3>3. /\ rRun' \in RunT /\ rRun'.named = rRun.named /\ rRun'.pc \in {"done", "ready"}
          /\ rRun'.cur = rRun.cur /\ rRun'.by = rRun.by
      BY <1>1, <3>1, <3>2 DEF RunT
    <3> QED BY <1>1, <2>1, <3>3 DEF RunOK, CurrentIsFree
  <2>2. CASE ~(rRun.code # "model_unavailable" /\ rRun.retries < RMaxRetries)
    BY <1>1, <2>2 DEF RunOK, RunT, CurrentIsFree
  <2> QED BY <2>1, <2>2
<1> QED BY <1>1, <1>2, RunMoves DEF Awaits

LEMMA NoneLeftStep == ASSUME RoutingInv, NoneBigger \/ NoneCheaper PROVE RoutingInv'
<1>1. rRun \in RunT /\ RunOK(rRun, rReg) /\ rReg' = rReg /\ rLoop' = rLoop /\ rPrice' = rPrice
      /\ rRun' = [rRun EXCEPT !.pc = "failed"]
  BY DEF NoneBigger, NoneCheaper, RoutingInv, RunOK
<1>2. RunOK(rRun', rReg) /\ rRun'.named = rRun.named /\ rRun'.pc = "failed"
  BY <1>1 DEF RunOK, RunT, CurrentIsFree
<1> QED BY <1>1, <1>2, RunMoves DEF Awaits

LEMMA CooldownStep == ASSUME RoutingInv, CooldownEnds PROVE RoutingInv'
<1>1. rRun \in RunT /\ RunOK(rRun, rReg) /\ rReg' = rReg /\ rLoop' = rLoop /\ rPrice' = rPrice
      /\ rRun' = [rRun EXCEPT !.cooling = FALSE]
  BY DEF CooldownEnds, RoutingInv, RunOK
<1>2. RunOK(rRun', rReg) /\ rRun'.named = rRun.named /\ rRun'.pc = rRun.pc
  BY <1>1 DEF RunOK, RunT, CurrentIsFree
<1> QED BY <1>1, <1>2, RunMoves

LEMMA RoutingStill == ASSUME RoutingInv, UNCHANGED routingVars PROVE RoutingInv'
<1>1. rReg' = rReg /\ rRun' = rRun /\ rLoop' = rLoop /\ rPrice' = rPrice
  BY DEF routingVars
<1> QED BY <1>1 DEF RoutingInv

LEMMA RoutingInvStep == RoutingInv /\ RoutingNext => RoutingInv'
<1> SUFFICES ASSUME RoutingInv, RoutingNext PROVE RoutingInv'
  OBVIOUS
<1>1. CASE \E m \in RModels, ok \in BOOLEAN : OtherRunObserves(m, ok)
  BY <1>1, OtherRunStep
<1>2. CASE \E m \in RModels, out \in RPrices : DiscoverModel(m, out) \/ PriceUpdate(m, out)
  BY <1>2, DiscoverModelStep, PriceUpdateStep
<1>3. CASE \E m \in RModels : DiscoverPatch(m)
  BY <1>3, DiscoverPatchStep
<1>4. CASE SelectStart \/ SelectApply \/ PriceSelectApply
  BY <1>4, SelectStartStep, SelectApplyStep, PriceSelectStep
<1>5. CASE CallModel \/ \E s \in BOOLEAN, lat \in RLats : CallSucceeds(s, lat)
  BY <1>5, CallModelStep, CallSucceedsStep
<1>6. CASE \E c \in {"retryable", "model_unavailable", "context_exhausted", "auth"}, rel \in RRels :
                CallFails(c, rel)
  BY <1>6, CallFailsStep
<1>7. CASE NoFailover \/ NoneBigger \/ NoneCheaper \/ SwitchStart \/ ApplyModelSwitch
  BY <1>7, NoFailoverStep, NoneLeftStep, SwitchStartStep, ApplySwitchStep
<1>8. CASE CooldownEnds
  BY <1>8, CooldownStep
<1>9. CASE RoutingOver /\ UNCHANGED routingVars
  BY <1>9, RoutingStill
<1> QED BY <1>1, <1>2, <1>3, <1>4, <1>5, <1>6, <1>7, <1>8, <1>9 DEF RoutingNext

-----------------------------------------------------------------------------
(* The router and a run on its models. *)

\* The router's inputs are a list, a policy and a situation, whatever they are.
LEMMA ProfilesTyped ==
    ASSUME NEW p \in Profiles, NEW n \in {1, 2}
    PROVE  IsDefinition([p EXCEPT !.id = n]) /\ [p EXCEPT !.id = n].id = n
<1> DEFINE T == [id : {0}, status : {"healthy", "degraded", "unavailable"}, provider : Rate,
                 inp : Rate, out : Rate, cach : Rate, window : Nat, caps : SUBSET {"tools"},
                 qual : Rate, lat : Rate, rel : Rate, perf : [attempts : Nat, successes : Nat]]
<1>1. Unknown \in Rate /\ \A i \in Nat : i \in Rate
  BY DEF Rate
<1>2. Profile \in T
  BY <1>1 DEF Profile, NoModel
<1>3. [Profile EXCEPT !.out = 9, !.qual = 10, !.lat = 4] \in T
  BY <1>1, <1>2
<1>4. [Profile EXCEPT !.out = 1, !.rel = 5, !.perf = [attempts |-> 4, successes |-> 1]] \in T
  BY <1>1, <1>2
<1>5. [Profile EXCEPT !.out = Unknown] \in T
  BY <1>1, <1>2
<1>6. [Profile EXCEPT !.cach = Unknown, !.qual = Unknown, !.lat = Unknown, !.rel = Unknown] \in T
  BY <1>1, <1>2
<1>7. [Profile EXCEPT !.provider = Unknown, !.caps = {}] \in T
  BY <1>1, <1>2
<1>8. [Profile EXCEPT !.window = 3, !.out = 1] \in T
  BY <1>1, <1>2
<1>9. [Profile EXCEPT !.status = "degraded", !.qual = 8] \in T
  BY <1>1, <1>2
<1>10. [Profile EXCEPT !.status = "unavailable", !.out = 0] \in T
  BY <1>1, <1>2
<1>11. p \in T
  <2> HIDE DEF T
  <2> QED BY <1>2, <1>3, <1>4, <1>5, <1>6, <1>7, <1>8, <1>9, <1>10 DEF Profiles
<1> QED BY <1>11 DEF IsDefinition, NoModel

LEMMA PoliciesTyped == ASSUME NEW pol \in Policies PROVE IsPolicy(pol)
<1> DEFINE T == [requireKnownProvider : BOOLEAN, allowUnknownPricing : BOOLEAN,
                 requiredCaps : SUBSET {"tools"}, qualityFloor : Nat, latencyTarget : Nat,
                 minReliability : Nat, preferred : Nat, hardBudget : BOOLEAN,
                 allowSwitching : BOOLEAN, maxRetries : Nat, toolCost : Nat, latencyPrice : Nat]
<1>1. AnyModel \in T
  BY DEF AnyModel, NoModel
<1>2. [AnyModel EXCEPT !.requireKnownProvider = TRUE, !.requiredCaps = {"tools"}] \in T
  BY <1>1
<1>3. [AnyModel EXCEPT !.allowUnknownPricing = TRUE, !.latencyPrice = 3] \in T
  BY <1>1
<1>4. [AnyModel EXCEPT !.qualityFloor = 8] \in T
  BY <1>1
<1>5. [AnyModel EXCEPT !.latencyTarget = 3] \in T
  BY <1>1
<1>6. [AnyModel EXCEPT !.minReliability = 6] \in T
  BY <1>1
<1>7. [AnyModel EXCEPT !.preferred = 2, !.qualityFloor = 7] \in T
  BY <1>1
<1>8. [AnyModel EXCEPT !.hardBudget = TRUE, !.maxRetries = 0] \in T
  BY <1>1
<1>9. [AnyModel EXCEPT !.allowSwitching = FALSE, !.toolCost = 5] \in T
  BY <1>1
<1>10. pol \in T
  <2> HIDE DEF T
  <2> QED BY <1>1, <1>2, <1>3, <1>4, <1>5, <1>6, <1>7, <1>8, <1>9 DEF Policies
<1> QED BY <1>10 DEF IsPolicy

LEMMA SituationsTyped == ASSUME NEW ctx \in Situations PROVE IsSituation(ctx)
<1> DEFINE T == [need : Nat, cached : Nat, rem : {Unknown, 8, 15}, util : Nat, current : Nat,
                 curOut : Nat, curLat : Nat, curProvider : Nat, learning : BOOLEAN,
                 confident : BOOLEAN, needsTools : BOOLEAN]
           s1 == [Situation EXCEPT !.need = 5, !.learning = TRUE]
           s2 == [Situation EXCEPT !.need = 9, !.needsTools = TRUE]
           s3 == [Situation EXCEPT !.cached = 1, !.rem = 8]
           s4 == [Situation EXCEPT !.rem = 15, !.confident = FALSE]
<1>1. Situation \in T
  BY DEF Situation, NoModel
<1>2. s1 \in T /\ s2 \in T
  BY <1>1
<1>3. s3 \in T
  BY <1>1
<1>4. s4 \in T
  BY <1>1
<1>5. Situations = {[s EXCEPT !.current = c] : c \in {NoModel, 1}, s \in {Situation, s1, s2, s3, s4}}
  BY DEF Situations
<1> HIDE DEF T, s1, s2, s3, s4
<1>6. PICK c \in {NoModel, 1}, s \in {Situation, s1, s2, s3, s4} : ctx = [s EXCEPT !.current = c]
  BY <1>5
<1>7. c \in Nat /\ s \in T
  BY <1>1, <1>2, <1>3, <1>4, <1>6 DEF NoModel
<1>8. ctx \in T
  BY <1>6, <1>7 DEF T
<1>9. ctx.rem \in Int
  BY <1>8 DEF T, Unknown
<1> QED BY <1>8, <1>9 DEF IsSituation, T

LEMMA InputsTyped ==
    ASSUME NEW a \in Profiles, NEW b \in Profiles, NEW pol \in Policies, NEW ctx \in Situations
    PROVE  IsList(Pool(a, b)) /\ IsPolicy(pol) /\ IsSituation(ctx)
<1> DEFINE x == [a EXCEPT !.id = 1]
           y == [b EXCEPT !.id = 2]
<1>1. IsDefinition(x) /\ x.id = 1 /\ IsDefinition(y) /\ y.id = 2
  BY ProfilesTyped
<1> HIDE DEF x, y
<1>2. IsFiniteSet({x, y})
  <2>1. IsFiniteSet({} \cup {x})
    BY FS_EmptySet, FS_AddElement
  <2>2. IsFiniteSet(({} \cup {x}) \cup {y})
    BY <2>1, FS_AddElement
  <2>3. ({} \cup {x}) \cup {y} = {x, y}
    OBVIOUS
  <2> QED BY <2>2, <2>3
<1>3. IsList({x, y})
  BY <1>1, <1>2 DEF IsList
<1> QED BY <1>3, PoliciesTyped, SituationsTyped DEF Pool, x, y

\* What the router is asked stays, and what it has decided is sound.
RouteInv ==
    /\ area = "route" => IsList(rIn.list) /\ IsPolicy(rIn.pol) /\ IsSituation(rIn.ctx)
    /\ RouterSound

ModelsInv == RouteInv /\ RoutingInv

LEMMA ModelsInvInit == ModelsInit => ModelsInv
<1> SUFFICES ASSUME ModelsInit PROVE ModelsInv
  OBVIOUS
<1>1. RoutingInv
  BY RoutingInvInit DEF ModelsInit
<1>2. RouterSound
  BY DEF ModelsInit, RouterSound
<1>3. ASSUME area = "route" PROVE IsList(rIn.list) /\ IsPolicy(rIn.pol) /\ IsSituation(rIn.ctx)
  <2>1. PICK a \in Profiles, b \in Profiles, pol \in Policies, ctx \in Situations,
             c \in {0, 2}, cool \in BOOLEAN :
           rIn = [list |-> Pool(a, b), pol |-> pol, ctx |-> ctx,
                  sticky |-> [count |-> c, cooling |-> cool]]
    BY <1>3 DEF ModelsInit, Stays
  <2>2. rIn.list = Pool(a, b) /\ rIn.pol = pol /\ rIn.ctx = ctx
    BY <2>1
  <2> QED BY <2>2, InputsTyped
<1> QED BY <1>1, <1>2, <1>3 DEF ModelsInv, RouteInv

LEMMA ModelsInvStep == ModelsInv /\ [ModelsNext]_<<modelsVars, area>> => ModelsInv'
<1> SUFFICES ASSUME ModelsInv, [ModelsNext]_<<modelsVars, area>> PROVE ModelsInv'
  OBVIOUS
<1>1. area' = area
  BY DEF ModelsNext
<1>2. RoutingNext \/ UNCHANGED routingVars
  BY DEF ModelsNext, modelsVars
<1>3. (area = "route" /\ RouteOnce) \/ UNCHANGED routeVars
  BY DEF ModelsNext, modelsVars
<1>4. RoutingInv'
  BY <1>2, RoutingInvStep, RoutingStill DEF ModelsInv
<1>5. CASE area = "route" /\ RouteOnce
  <2>1. rOut' = Route(rIn.list, rIn.pol, rIn.ctx, rIn.sticky, 2) /\ rIn' = rIn
    BY <1>5 DEF RouteOnce
  <2>2. IsList(rIn.list) /\ IsPolicy(rIn.pol) /\ IsSituation(rIn.ctx)
    BY <1>5 DEF ModelsInv, RouteInv
  <2>3. SoundDecision(rOut', rIn'.list, rIn'.pol, rIn'.ctx)
    BY <2>1, <2>2, RouteIsSound
  <2>4. RouteInv'
    BY <2>1, <2>2, <2>3 DEF RouteInv, RouterSound
  <2> QED BY <1>4, <2>4 DEF ModelsInv
<1>6. CASE UNCHANGED routeVars
  <2>1. rOut' = rOut /\ rIn' = rIn
    BY <1>6 DEF routeVars
  <2>2. RouteInv'
    BY <2>1, <1>1 DEF ModelsInv, RouteInv, RouterSound
  <2> QED BY <1>4, <2>2 DEF ModelsInv
<1> QED BY <1>3, <1>5, <1>6

\* RoutingSound: every decision of the router is sound, and a run that goes on is never
\* on a model that was named as failed or whose call refused it, but for a stale
\* reselection and for a refusal that was pinned on the model a price reselection had
\* put in its place (ModelRouter.route, orchestrator.js _selectModel, _executeStep,
\* _failover, handlePriceUpdate).
THEOREM RoutingSoundAlways == ModelsSpec => []RoutingSound
<1>1. ModelsInv => RoutingSound
  BY DEF ModelsInv, RouteInv, RoutingInv, RunOK, CurrentIsFree, RoutingSound, NoReturnToRefused
<1> QED BY <1>1, ModelsInvInit, ModelsInvStep, PTL DEF ModelsSpec
=============================================================================
