---------------------------- MODULE EventsProofs ----------------------------
(***************************************************************************)
(* Proofs about the durable record of the runs (RunStore), for every set   *)
(* of runs and tenants, every cap and every bound: that a recorded end     *)
(* stays listed, that what was saved of a listed run stays, and that no    *)
(* content is left after a purge but by the writers that are known to.     *)
(* StoreInv is the inductive invariant.                                    *)
(***************************************************************************)
EXTENDS MCEvents, FiniteSetTheorems, FunctionTheorems, SequenceTheorems, TLAPS

-----------------------------------------------------------------------------
(* Places and ranks. *)

\* The members of P before i, when B are the pairs of which the first comes before
\* the second.
Before(P, B, i) == {j \in P : <<j, i>> \in B}

Orders(B, P) ==
    /\ \A i \in P : <<i, i>> \notin B
    /\ \A i, j, k \in P : <<i, j>> \in B /\ <<j, k>> \in B => <<i, k>> \in B
    /\ \A i, j \in P : i # j => <<i, j>> \in B \/ <<j, i>> \in B

\* In a finite ordered set the members are counted by how many come before each.
LEMMA Ranks ==
  ASSUME NEW P, IsFiniteSet(P), NEW B, Orders(B, P)
  PROVE  /\ Cardinality(P) \in Nat
         /\ \A i \in P : Cardinality(Before(P, B, i)) \in 0..(Cardinality(P) - 1)
         /\ \A i, j \in P : <<i, j>> \in B => Cardinality(Before(P, B, i)) < Cardinality(Before(P, B, j))
         /\ \A n \in 0..(Cardinality(P) - 1) : \E i \in P : Cardinality(Before(P, B, i)) = n
<1> DEFINE R(i) == Cardinality(Before(P, B, i))
           N == Cardinality(P)
<1>1. N \in Nat
  BY FS_CardinalityType
<1>2. ASSUME NEW i \in P PROVE R(i) \in Nat /\ IsFiniteSet(Before(P, B, i)) /\ R(i) < N
  <2>1. Before(P, B, i) \in SUBSET P /\ i \notin Before(P, B, i)
    BY DEF Before, Orders
  <2>2. IsFiniteSet(Before(P, B, i)) /\ R(i) <= N /\ (N = R(i) => P = Before(P, B, i))
    BY <2>1, FS_Subset
  <2>3. R(i) \in Nat
    BY <2>2, FS_CardinalityType
  <2>4. R(i) # N
    BY <2>1, <2>2
  <2> QED BY <1>1, <2>2, <2>3, <2>4
<1>3. ASSUME NEW i \in P, NEW j \in P, <<i, j>> \in B PROVE R(i) < R(j)
  <2>1. Before(P, B, i) \in SUBSET Before(P, B, j) /\ i \notin Before(P, B, i) /\ i \in Before(P, B, j)
    BY <1>3 DEF Before, Orders
  <2>2. R(i) <= R(j) /\ (R(j) = R(i) => Before(P, B, i) = Before(P, B, j))
    BY <1>2, <2>1, FS_Subset
  <2>3. R(i) # R(j) /\ R(i) \in Nat /\ R(j) \in Nat
    BY <1>2, <2>1, <2>2
  <2> QED BY <2>2, <2>3
<1>4. \A n \in 0..(N - 1) : \E i \in P : R(i) = n
  <2> DEFINE f == [i \in P |-> R(i)]
  <2> HIDE DEF R, N
  <2>1. f \in [P -> 0..(N - 1)]
    BY <1>1, <1>2
  <2>2. ASSUME NEW i \in P, NEW j \in P, f[i] = f[j] PROVE i = j
    <3>1. R(i) = R(j) /\ R(i) \in Nat
      BY <1>2, <2>2
    <3>2. <<i, j>> \notin B /\ <<j, i>> \notin B
      BY <1>3, <3>1
    <3> QED BY <3>2 DEF Orders
  <2>3. f \in Injection(P, 0..(N - 1))
    BY <2>1, <2>2, Fun_IsInj
  <2>4. IsFiniteSet(0..(N - 1)) /\ Cardinality(0..(N - 1)) = N
    <3>1. 0 \in Int /\ N - 1 \in Int
      BY <1>1
    <3>2. IsFiniteSet(0..(N - 1)) /\ Cardinality(0..(N - 1)) = IF 0 > N - 1 THEN 0 ELSE (N - 1) - 0 + 1
      BY <3>1, FS_Interval
    <3> QED BY <1>1, <3>2
  <2>5. f \in Surjection(P, 0..(N - 1))
    <3>1. Cardinality(P) = Cardinality(0..(N - 1))
      BY <2>4 DEF N
    <3> QED BY <2>3, <2>4, <3>1, FS_Injection
  <2>6. \A n \in 0..(N - 1) : \E i \in P : f[i] = n
    <3> HIDE DEF f
    <3> DEFINE T == 0..(N - 1)
    <3>1. f \in Surjection(P, T)
      BY <2>5
    <3> HIDE DEF T
    <3>2. \A n \in T : \E i \in P : f[i] = n
      BY <3>1, Fun_SurjectionProperties
    <3> QED BY <3>2 DEF T
  <2> QED BY <2>6
<1> QED BY <1>1, <1>2, <1>3, <1>4

-----------------------------------------------------------------------------
(* The entries at some places. *)

\* g lists the members of K in their order.
Lists(g, K) ==
    /\ g \in [1..Cardinality(K) -> K]
    /\ \A m, n \in 1..Cardinality(K) : m < n => g[m] < g[n]
    /\ \A i \in K : \E n \in 1..Cardinality(K) : g[n] = i

LEMMA Interval == \A n \in Nat : IsFiniteSet(1..n) /\ Cardinality(1..n) = n
<1> TAKE n \in Nat
<1>1. 1 \in Int /\ n \in Int
  OBVIOUS
<1>2. IsFiniteSet(1..n) /\ Cardinality(1..n) = IF 1 > n THEN 0 ELSE n - 1 + 1
  BY <1>1, FS_Interval
<1> QED BY <1>2

\* Kept has the entries at the places K, in their order.
LEMMA KeptLists ==
  ASSUME NEW ix, NEW L \in Nat, NEW K \in SUBSET (1..L)
  PROVE  /\ IsFiniteSet(K) /\ Cardinality(K) \in Nat
         /\ \E g : Lists(g, K) /\ Kept(ix, K) = [n \in 1..Cardinality(K) |-> ix[g[n]]]
<1> DEFINE B == {p \in K \X K : p[1] < p[2]}
           N == Cardinality(K)
           R(i) == Cardinality({j \in K : j < i})
           G(n) == CHOOSE i \in K : R(i) = n - 1
           g == [n \in 1..N |-> G(n)]
<1>0. IsFiniteSet(K)
  BY Interval, FS_Subset
<1>1. \A i, j \in K : <<i, j>> \in B <=> i < j
  OBVIOUS
<1>2. Orders(B, K)
  <2>1. \A i \in K : i \in Nat
    OBVIOUS
  <2> HIDE DEF B
  <2> QED BY <1>1, <2>1 DEF Orders
<1>3. \A i \in K : Before(K, B, i) = {j \in K : j < i}
  BY <1>1 DEF Before
<1>4. /\ N \in Nat
      /\ \A i \in K : R(i) \in 0..(N - 1)
      /\ \A i, j \in K : i < j => R(i) < R(j)
      /\ \A n \in 0..(N - 1) : \E i \in K : R(i) = n
  <2> HIDE DEF B
  <2>1. /\ Cardinality(K) \in Nat
        /\ \A i \in K : Cardinality(Before(K, B, i)) \in 0..(Cardinality(K) - 1)
        /\ \A i, j \in K : <<i, j>> \in B => Cardinality(Before(K, B, i)) < Cardinality(Before(K, B, j))
        /\ \A n \in 0..(Cardinality(K) - 1) : \E i \in K : Cardinality(Before(K, B, i)) = n
    BY <1>0, <1>2, Ranks
  <2>2. \A i \in K : Cardinality(Before(K, B, i)) = R(i)
    BY <1>3
  <2>3. ASSUME NEW i \in K, NEW j \in K, i < j PROVE R(i) < R(j)
    <3> HIDE DEF R
    <3>1. <<i, j>> \in B
      BY <1>1, <2>3
    <3>2. Cardinality(Before(K, B, i)) < Cardinality(Before(K, B, j))
      BY <2>1, <3>1
    <3> QED BY <2>2, <3>2
  <2> HIDE DEF R
  <2>4. \A i \in K : R(i) \in 0..(N - 1)
    BY <2>1, <2>2
  <2>5. ASSUME NEW n \in 0..(N - 1) PROVE \E i \in K : R(i) = n
    <3>1. PICK i \in K : Cardinality(Before(K, B, i)) = n
      BY <2>1
    <3> QED BY <2>2, <3>1
  <2> QED BY <2>1, <2>3, <2>4, <2>5
<1>5. \A n \in 1..N : G(n) \in K /\ R(G(n)) = n - 1
  <2> HIDE DEF R
  <2> QED BY <1>4
<1>6. Kept(ix, K) = [n \in 1..N |-> ix[g[n]]]
  BY DEF Kept
<1>7. Lists(g, K)
  <2> HIDE DEF R, G
  <2>1. g \in [1..N -> K]
    BY <1>5
  <2>2. ASSUME NEW m \in 1..N, NEW n \in 1..N, m < n PROVE g[m] < g[n]
    <3>1. g[m] \in K /\ g[n] \in K /\ R(g[m]) = m - 1 /\ R(g[n]) = n - 1
      BY <1>5
    <3>2. K \subseteq Nat /\ g[m] \in Nat /\ g[n] \in Nat
      <4>1. K \subseteq Nat
        OBVIOUS
      <4> HIDE DEF g
      <4> QED BY <3>1, <4>1
    <3> HIDE DEF g
    <3>3. ~(g[n] < g[m]) /\ g[n] # g[m]
      <4>1. R(g[m]) < R(g[n])
        BY <2>2, <3>1
      <4>2. g[n] # g[m]
        BY <4>1, <3>1
      <4>3. g[n] < g[m] => R(g[n]) < R(g[m])
        BY <1>4, <3>1
      <4> QED BY <4>1, <4>2, <4>3, <3>1
    <3> QED BY <3>2, <3>3
  <2>3. ASSUME NEW i \in K PROVE \E n \in 1..N : g[n] = i
    <3>1. R(i) \in 0..(N - 1)
      BY <1>4
    <3>2. R(i) + 1 \in 1..N /\ g[R(i) + 1] \in K /\ R(g[R(i) + 1]) = R(i)
      BY <1>4, <1>5, <3>1
    <3> HIDE DEF g
    <3>3. g[R(i) + 1] \in Nat /\ i \in Nat
      <4>1. K \subseteq Nat
        OBVIOUS
      <4> QED BY <3>2, <4>1
    <3>4. g[R(i) + 1] = i
      BY <1>4, <3>1, <3>2, <3>3
    <3> QED BY <3>2, <3>4
  <2> HIDE DEF g
  <2> QED BY <2>1, <2>2, <2>3 DEF Lists
<1> QED BY <1>0, <1>4, <1>6, <1>7

-----------------------------------------------------------------------------
(* Sizes. *)

\* A bijection and an injection, and how many members their sets have.
LEMMA SameSize ==
  ASSUME NEW S, NEW T, IsFiniteSet(T), NEW f \in [S -> T],
         \A a, b \in S : f[a] = f[b] => a = b,
         \A b \in T : \E a \in S : f[a] = b
  PROVE  IsFiniteSet(S) /\ Cardinality(S) = Cardinality(T)
<1>1. f \in Injection(S, T) /\ f \in Surjection(S, T)
  BY Fun_IsInj, Fun_IsSurj
<1> QED BY <1>1, FS_Injection

LEMMA FewerThan ==
  ASSUME NEW S, NEW T, IsFiniteSet(T), NEW f \in [S -> T],
         \A a, b \in S : f[a] = f[b] => a = b
  PROVE  Cardinality(S) <= Cardinality(T)
<1>1. f \in Injection(S, T)
  BY Fun_IsInj
<1> QED BY <1>1, FS_Injection

-----------------------------------------------------------------------------
(* The index. *)

Statuses == {"running", "completed", "failed"}
Texts == {"raw", "clean"}
Modes == {"standard", "zero_retention"}
Entries == [id : SRun, status : Statuses, text : Texts]

\* No run has two entries.
Single(ix) == \A i, j \in DOMAIN ix : ix[i].id = ix[j].id => i = j

\* The places of the entries of a tenant.
Of(ix, t) == {i \in DOMAIN ix : TenantOf[ix[i].id] = t}

LEMMA OfFinite ==
  ASSUME NEW S, NEW ix \in Seq(S), NEW t
  PROVE  IsFiniteSet(Of(ix, t)) /\ Cardinality(Of(ix, t)) \in Nat
<1>1. Of(ix, t) \in SUBSET (1..Len(ix)) /\ Len(ix) \in Nat
  BY DEF Of
<1>2. IsFiniteSet(Of(ix, t))
  BY <1>1, Interval, FS_Subset
<1> QED BY <1>2, FS_CardinalityType

\* Kept yields a sequence of entries of the other.
LEMMA KeptType ==
  ASSUME NEW S, NEW ix \in Seq(S), NEW K \in SUBSET (DOMAIN ix)
  PROVE  /\ IsFiniteSet(K) /\ Cardinality(K) \in Nat /\ Kept(ix, K) \in Seq(S) /\ Len(Kept(ix, K)) = Cardinality(K)
         /\ \E g : Lists(g, K) /\ \A n \in 1..Cardinality(K) : Kept(ix, K)[n] = ix[g[n]]
<1> DEFINE N == Cardinality(K)
<1>1. Len(ix) \in Nat /\ K \in SUBSET (1..Len(ix)) /\ \A i \in 1..Len(ix) : ix[i] \in S
  OBVIOUS
<1>2. /\ IsFiniteSet(K) /\ Cardinality(K) \in Nat
      /\ \E g : Lists(g, K) /\ Kept(ix, K) = [n \in 1..Cardinality(K) |-> ix[g[n]]]
  BY <1>1, KeptLists
<1>3. PICK g : Lists(g, K) /\ Kept(ix, K) = [n \in 1..N |-> ix[g[n]]]
  BY <1>2
<1>4. \A n \in 1..N : ix[g[n]] \in S
  <2>1. g \in [1..N -> K]
    BY <1>3 DEF Lists
  <2>2. \A n \in 1..N : g[n] \in K
    BY <2>1
  <2> QED BY <1>1, <2>2
<1>5. Kept(ix, K) \in [1..N -> S]
  BY <1>3, <1>4
<1>6. Kept(ix, K) \in Seq(S) /\ Len(Kept(ix, K)) = N
  <2> DEFINE y == Kept(ix, K)
  <2>1. y \in [1..N -> S] /\ N \in Nat
    BY <1>2, <1>5
  <2> HIDE DEF y, N
  <2>2. y \in Seq(S) /\ Len(y) = N
    BY <2>1
  <2> QED BY <2>2 DEF y, N
<1>7. \A n \in 1..N : Kept(ix, K)[n] = ix[g[n]]
  BY <1>3
<1> QED BY <1>2, <1>3, <1>6, <1>7

\* The places Retain keeps.
RetainSet(ix) == {i \in DOMAIN ix : Cardinality(Newer(ix, i)) < Cap}

\* Of a tenant Retain keeps the newest Cap entries, or all of fewer.
LEMMA RetainCount ==
  ASSUME NEW S, NEW ix \in Seq(S), NEW t
  PROVE  /\ Cardinality({i \in Of(ix, t) : i \in RetainSet(ix)}) =
              IF Cardinality(Of(ix, t)) < Cap THEN Cardinality(Of(ix, t)) ELSE Cap
         /\ Cardinality(Of(ix, t)) < Cap => Of(ix, t) \subseteq RetainSet(ix)
<1> DEFINE P == Of(ix, t)
           M == Cardinality(P)
           B == {p \in P \X P : p[1] > p[2]}
           h(i) == Cardinality(Newer(ix, i))
           m == IF M < Cap THEN M ELSE Cap
           Q == {i \in P : i \in RetainSet(ix)}
<1>0. Cap \in Nat \ {0} /\ P \subseteq DOMAIN ix /\ P \subseteq Nat /\ IsFiniteSet(P) /\ M \in Nat
  <2>1. P \subseteq DOMAIN ix /\ P \subseteq Nat
    BY DEF Of
  <2>2. IsFiniteSet(P) /\ M \in Nat
    BY OfFinite
  <2> QED BY <2>1, <2>2, StoreAssumption
<1>1. \A i, j \in P : <<i, j>> \in B <=> i > j
  OBVIOUS
<1>2. Orders(B, P)
  <2> HIDE DEF B, P
  <2> QED BY <1>0, <1>1 DEF Orders
<1>3. \A i \in P : Before(P, B, i) = Newer(ix, i)
  <2> SUFFICES ASSUME NEW i \in P PROVE Before(P, B, i) = Newer(ix, i)
    OBVIOUS
  <2>1. TenantOf[ix[i].id] = t
    BY DEF Of
  <2>2. Newer(ix, i) = {j \in P : j > i}
    BY <2>1 DEF Newer, Of
  <2> HIDE DEF B, P
  <2> QED BY <1>1, <2>2 DEF Before
<1>4. /\ \A i \in P : h(i) \in 0..(M - 1)
      /\ \A i, j \in P : i > j => h(i) < h(j)
      /\ \A n \in 0..(M - 1) : \E i \in P : h(i) = n
  <2> HIDE DEF B, P
  <2>1. /\ \A i \in P : Cardinality(Before(P, B, i)) \in 0..(Cardinality(P) - 1)
        /\ \A i, j \in P : <<i, j>> \in B => Cardinality(Before(P, B, i)) < Cardinality(Before(P, B, j))
        /\ \A n \in 0..(Cardinality(P) - 1) : \E i \in P : Cardinality(Before(P, B, i)) = n
    BY <1>0, <1>2, Ranks
  <2>2. \A i \in P : Cardinality(Before(P, B, i)) = h(i)
    BY <1>3
  <2> HIDE DEF h
  <2>3. \A i \in P : h(i) \in 0..(M - 1)
    BY <2>1, <2>2
  <2>4. ASSUME NEW i \in P, NEW j \in P, i > j PROVE h(i) < h(j)
    <3>1. <<i, j>> \in B
      BY <1>1, <2>4
    <3>2. Cardinality(Before(P, B, i)) < Cardinality(Before(P, B, j))
      BY <2>1, <3>1
    <3> QED BY <2>2, <3>2
  <2>5. ASSUME NEW n \in 0..(M - 1) PROVE \E i \in P : h(i) = n
    <3>1. PICK i \in P : Cardinality(Before(P, B, i)) = n
      BY <2>1
    <3> QED BY <2>2, <3>1
  <2> QED BY <2>3, <2>4, <2>5
<1>5. Q = {i \in P : h(i) < Cap}
  BY <1>0 DEF RetainSet
<1>6. Cardinality(Q) = m
  <2> DEFINE f == [i \in Q |-> h(i) + 1]
  <2>1. m \in Nat /\ \A n \in Nat : n < M /\ n < Cap <=> n < m
    <3> HIDE DEF M
    <3> QED BY <1>0
  <2> HIDE DEF h, P, m, M
  <2>2. f \in [Q -> 1..m]
    <3>1. ASSUME NEW i \in Q PROVE h(i) + 1 \in 1..m
      <4>1. i \in P /\ h(i) < Cap
        BY <1>5
      <4>2. h(i) \in 0..(M - 1)
        BY <1>4, <4>1
      <4>3. h(i) \in Nat /\ h(i) < M
        BY <1>0, <4>2
      <4> QED BY <2>1, <4>1, <4>3
    <3> HIDE DEF Q
    <3> QED BY <3>1
  <2>3. ASSUME NEW a \in Q, NEW b \in Q, f[a] = f[b] PROVE a = b
    <3>1. a \in P /\ b \in P /\ h(a) + 1 = h(b) + 1
      BY <2>3
    <3>2. h(a) \in Nat /\ h(b) \in Nat
      <4>1. h(a) \in 0..(M - 1) /\ h(b) \in 0..(M - 1)
        BY <1>4, <3>1
      <4> QED BY <4>1
    <3>3. ~(a > b) /\ ~(b > a)
      <4>1. ~(h(a) < h(b)) /\ ~(h(b) < h(a))
        BY <3>1, <3>2
      <4> QED BY <1>4, <3>1, <4>1
    <3>4. a \in Nat /\ b \in Nat
      BY <1>0, <3>1
    <3> QED BY <3>3, <3>4
  <2>4. ASSUME NEW n \in 1..m PROVE \E a \in Q : f[a] = n
    <3>1. n - 1 \in 0..(M - 1) /\ n - 1 < Cap
      <4>1. n - 1 \in Nat /\ n - 1 < m
        BY <2>1
      <4>2. n - 1 < M /\ n - 1 < Cap
        BY <2>1, <4>1
      <4> QED BY <1>0, <4>1, <4>2
    <3>2. PICK i \in P : h(i) = n - 1
      BY <1>4, <3>1
    <3>3. i \in Q
      BY <1>5, <3>1, <3>2
    <3>4. f[i] = h(i) + 1
      BY <3>3
    <3> QED BY <3>2, <3>3, <3>4
  <2>5. IsFiniteSet(1..m) /\ Cardinality(1..m) = m
    BY <2>1, Interval
  <2> HIDE DEF f, Q
  <2> QED BY <2>2, <2>3, <2>4, <2>5, SameSize
<1>7. ASSUME M < Cap PROVE P \subseteq RetainSet(ix)
  <2>1. ASSUME NEW i \in P PROVE h(i) < Cap
    <3>1. h(i) \in 0..(M - 1)
      BY <1>4
    <3> HIDE DEF h, M
    <3> QED BY <3>1, <1>0, <1>7
  <2> QED BY <2>1, <1>0 DEF RetainSet
<1> QED BY <1>6, <1>7

\* The runs that have an entry.
Ids(ix) == {ix[i].id : i \in DOMAIN ix}

\* y has at its places entries of x, each of another place.
LEMMA RetainType ==
  ASSUME NEW ix \in Seq(Entries)
  PROVE  /\ Retain(ix) \in Seq(Entries)
         /\ \E g : /\ Lists(g, RetainSet(ix))
                   /\ DOMAIN Retain(ix) = 1..Cardinality(RetainSet(ix))
                   /\ \A n \in DOMAIN Retain(ix) : Retain(ix)[n] = ix[g[n]]
<1> DEFINE K == RetainSet(ix)
<1>1. K \in SUBSET (DOMAIN ix) /\ Retain(ix) = Kept(ix, K)
  BY DEF RetainSet, Retain
<1>2. /\ IsFiniteSet(K) /\ Cardinality(K) \in Nat /\ Kept(ix, K) \in Seq(Entries) /\ Len(Kept(ix, K)) = Cardinality(K)
      /\ \E g : Lists(g, K) /\ \A n \in 1..Cardinality(K) : Kept(ix, K)[n] = ix[g[n]]
  <2> HIDE DEF K
  <2> QED BY <1>1, KeptType
<1>3. DOMAIN Retain(ix) = 1..Cardinality(K)
  <2> HIDE DEF K
  <2> QED BY <1>1, <1>2
<1> QED BY <1>1, <1>2, <1>3

\* The places of Retain's entries of a tenant are as many as the places kept.
LEMMA RetainOf ==
  ASSUME NEW ix \in Seq(Entries), NEW t
  PROVE  Cardinality(Of(Retain(ix), t)) = IF Cardinality(Of(ix, t)) < Cap THEN Cardinality(Of(ix, t)) ELSE Cap
<1> DEFINE K == RetainSet(ix)
           Q == {i \in Of(ix, t) : i \in K}
           y == Retain(ix)
<1>1. PICK g : Lists(g, K) /\ DOMAIN y = 1..Cardinality(K) /\ \A n \in DOMAIN y : y[n] = ix[g[n]]
  BY RetainType
<1>2. /\ g \in [1..Cardinality(K) -> K]
      /\ \A i \in K : \E n \in 1..Cardinality(K) : g[n] = i
      /\ \A a, b \in 1..Cardinality(K) : g[a] = g[b] => a = b
  <2>1. /\ g \in [1..Cardinality(K) -> K] /\ \A i \in K : \E n \in 1..Cardinality(K) : g[n] = i
        /\ \A a, b \in 1..Cardinality(K) : a < b => g[a] < g[b]
    BY <1>1 DEF Lists
  <2>2. K \subseteq Nat
    BY DEF RetainSet
  <2>3. ASSUME NEW a \in 1..Cardinality(K), NEW b \in 1..Cardinality(K), g[a] = g[b] PROVE a = b
    <3> HIDE DEF K
    <3>1. g[a] \in Nat /\ g[b] \in Nat
      BY <2>1, <2>2
    <3>2. ~(a < b) /\ ~(b < a)
      BY <2>1, <2>3, <3>1
    <3> QED BY <3>2
  <2> QED BY <2>1, <2>3
<1> DEFINE f == [n \in Of(y, t) |-> g[n]]
<1>3. f \in [Of(y, t) -> Q]
  <2>1. ASSUME NEW n \in Of(y, t) PROVE g[n] \in Q
    <3>1. n \in 1..Cardinality(K) /\ TenantOf[y[n].id] = t /\ y[n] = ix[g[n]]
      BY <1>1 DEF Of
    <3>2. g[n] \in K /\ TenantOf[ix[g[n]].id] = t
      BY <1>2, <3>1
    <3>3. g[n] \in DOMAIN ix
      BY <3>2 DEF RetainSet
    <3> QED BY <3>2, <3>3 DEF Of
  <2> HIDE DEF Q, y
  <2> QED BY <2>1
<1>4. ASSUME NEW a \in Of(y, t), NEW b \in Of(y, t), f[a] = f[b] PROVE a = b
  <2>1. a \in 1..Cardinality(K) /\ b \in 1..Cardinality(K)
    BY <1>1 DEF Of
  <2> QED BY <1>2, <1>4, <2>1
<1>5. ASSUME NEW i \in Q PROVE \E n \in Of(y, t) : f[n] = i
  <2>1. i \in K /\ TenantOf[ix[i].id] = t
    BY DEF Of
  <2>2. PICK n \in 1..Cardinality(K) : g[n] = i
    BY <1>2, <2>1
  <2>3. n \in Of(y, t)
    BY <1>1, <2>1, <2>2 DEF Of
  <2> QED BY <2>2, <2>3
<1>6. IsFiniteSet(Q)
  <2>1. Q \in SUBSET Of(ix, t)
    OBVIOUS
  <2> HIDE DEF Q
  <2> QED BY <2>1, OfFinite, FS_Subset
<1>7. Cardinality(Of(y, t)) = Cardinality(Q)
  <2> HIDE DEF f, Q, y, K
  <2> QED BY <1>3, <1>4, <1>5, <1>6, SameSize
<1> QED BY <1>7, RetainCount

\* What stays of the entries.
LEMMA RetainKeeps ==
  ASSUME NEW ix \in Seq(Entries)
  PROVE  /\ Single(ix) => Single(Retain(ix))
         /\ \A n \in DOMAIN Retain(ix) : \E i \in DOMAIN ix : Retain(ix)[n] = ix[i]
         /\ \A i \in DOMAIN ix :
              \/ \E n \in DOMAIN Retain(ix) : Retain(ix)[n] = ix[i]
              \/ Cardinality(Of(ix, TenantOf[ix[i].id])) >= Cap
         /\ ix # <<>> => \E n \in DOMAIN Retain(ix) : Retain(ix)[n] = ix[Len(ix)]
<1> DEFINE K == RetainSet(ix)
           y == Retain(ix)
<1>1. PICK g : Lists(g, K) /\ DOMAIN y = 1..Cardinality(K) /\ \A n \in DOMAIN y : y[n] = ix[g[n]]
  BY RetainType
<1>2. /\ K \subseteq DOMAIN ix /\ K \subseteq Nat
      /\ \A n \in DOMAIN y : g[n] \in K
      /\ \A i \in K : \E n \in DOMAIN y : g[n] = i
      /\ \A a, b \in DOMAIN y : a < b => g[a] < g[b]
      /\ DOMAIN y \subseteq Nat
  <2>1. K \subseteq DOMAIN ix /\ K \subseteq Nat
    BY DEF RetainSet
  <2>2. /\ g \in [1..Cardinality(K) -> K] /\ \A i \in K : \E n \in 1..Cardinality(K) : g[n] = i
        /\ \A a, b \in 1..Cardinality(K) : a < b => g[a] < g[b]
    BY <1>1 DEF Lists
  <2>3. 1..Cardinality(K) \subseteq Nat
    BY DEF K
  <2> HIDE DEF K, y
  <2> QED BY <1>1, <2>1, <2>2, <2>3
<1>3. \A i \in K : \E n \in DOMAIN y : y[n] = ix[i]
  <2> HIDE DEF K, y
  <2> QED BY <1>1, <1>2
<1>4. \A n \in DOMAIN y : \E i \in DOMAIN ix : y[n] = ix[i]
  <2> HIDE DEF K, y
  <2> QED BY <1>1, <1>2
<1>5. ASSUME Single(ix), NEW a \in DOMAIN y, NEW b \in DOMAIN y, y[a].id = y[b].id PROVE a = b
  <2> HIDE DEF K, y
  <2>1. g[a] = g[b] /\ g[a] \in Nat
    BY <1>1, <1>2, <1>5 DEF Single
  <2>2. ~(a < b) /\ ~(b < a) /\ a \in Nat /\ b \in Nat
    BY <1>2, <2>1
  <2> QED BY <2>2
<1>6. \A i \in DOMAIN ix : i \in K \/ Cardinality(Of(ix, TenantOf[ix[i].id])) >= Cap
  <2> SUFFICES ASSUME NEW i \in DOMAIN ix, i \notin K PROVE Cardinality(Of(ix, TenantOf[ix[i].id])) >= Cap
    OBVIOUS
  <2> DEFINE t == TenantOf[ix[i].id]
  <2>1. i \in Of(ix, t)
    BY DEF Of
  <2>2. ~(Cardinality(Of(ix, t)) < Cap)
    BY <2>1, RetainCount
  <2>3. Cardinality(Of(ix, t)) \in Nat /\ Cap \in Nat
    BY OfFinite, StoreAssumption
  <2>4. Cardinality(Of(ix, t)) >= Cap
    <3> HIDE DEF t
    <3> QED BY <2>2, <2>3
  <2> QED BY <2>4
<1>7. ix # <<>> => Len(ix) \in K
  <2> SUFFICES ASSUME ix # <<>> PROVE Len(ix) \in K
    OBVIOUS
  <2>1. Len(ix) \in DOMAIN ix /\ Newer(ix, Len(ix)) = {}
    BY DEF Newer
  <2>2. Cardinality({}) < Cap
    BY FS_EmptySet, StoreAssumption
  <2> QED BY <2>1, <2>2 DEF RetainSet
<1>8. Single(ix) => Single(y)
  <2> HIDE DEF K, y
  <2> QED BY <1>5 DEF Single
<1>9. \A i \in DOMAIN ix :
         (\E n \in DOMAIN y : y[n] = ix[i]) \/ Cardinality(Of(ix, TenantOf[ix[i].id])) >= Cap
  <2> HIDE DEF K, y
  <2> QED BY <1>3, <1>6
<1>10. ix # <<>> => \E n \in DOMAIN y : y[n] = ix[Len(ix)]
  <2> HIDE DEF K, y
  <2> QED BY <1>3, <1>7
<1> QED BY <1>4, <1>8, <1>9, <1>10

\* The recorded end of r is in ix, or its tenant has Cap others.
Recorded(ix, r) ==
    \/ \E i \in DOMAIN ix : ix[i].id = r /\ ix[i].status = "completed"
    \/ r \notin Ids(ix) /\ Cardinality(Of(ix, TenantOf[r])) = Cap

LEMMA RetainRecorded ==
  ASSUME NEW ix \in Seq(Entries), NEW r, Single(ix),
         \/ \E i \in DOMAIN ix : ix[i].id = r /\ ix[i].status = "completed"
         \/ r \notin Ids(ix) /\ Cardinality(Of(ix, TenantOf[r])) >= Cap
  PROVE  Recorded(Retain(ix), r)
<1> DEFINE y == Retain(ix)
           t == TenantOf[r]
<1>0. Cap \in Nat /\ Cardinality(Of(ix, t)) \in Nat
  BY StoreAssumption, OfFinite
<1>1. Cardinality(Of(ix, t)) >= Cap => Cardinality(Of(y, t)) = Cap
  <2>1. Cardinality(Of(y, t)) = IF Cardinality(Of(ix, t)) < Cap THEN Cardinality(Of(ix, t)) ELSE Cap
    BY RetainOf
  <2> HIDE DEF y, t
  <2> QED BY <1>0, <2>1
<1>2. /\ \A n \in DOMAIN y : \E i \in DOMAIN ix : y[n] = ix[i]
      /\ \A i \in DOMAIN ix :
              \/ \E n \in DOMAIN y : y[n] = ix[i]
              \/ Cardinality(Of(ix, TenantOf[ix[i].id])) >= Cap
  BY RetainKeeps
<1>3. CASE r \notin Ids(ix) /\ Cardinality(Of(ix, TenantOf[r])) >= Cap
  <2>1. r \notin Ids(y)
    <3> HIDE DEF y
    <3> QED BY <1>2, <1>3 DEF Ids
  <2> QED BY <1>1, <1>3, <2>1 DEF Recorded
<1>4. CASE \E i \in DOMAIN ix : ix[i].id = r /\ ix[i].status = "completed"
  <2>1. PICK i \in DOMAIN ix : ix[i].id = r /\ ix[i].status = "completed"
    BY <1>4
  <2>2. CASE \E n \in DOMAIN y : y[n] = ix[i]
    BY <2>1, <2>2 DEF Recorded
  <2>3. CASE ~\E n \in DOMAIN y : y[n] = ix[i]
    <3>1. Cardinality(Of(y, t)) = Cap
      BY <1>1, <1>2, <2>1, <2>3
    <3>2. r \notin Ids(y)
      <4> SUFFICES ASSUME NEW n \in DOMAIN y, y[n].id = r PROVE FALSE
        BY DEF Ids
      <4> HIDE DEF y
      <4>1. PICK k \in DOMAIN ix : y[n] = ix[k]
        BY <1>2
      <4>2. k = i
        BY <2>1, <4>1 DEF Single
      <4> QED BY <2>3, <4>1, <4>2
    <3> QED BY <3>1, <3>2 DEF Recorded
  <2> QED BY <2>2, <2>3
<1> QED BY <1>3, <1>4

\* The index without the entries of a run.
Others(ix, r) == Kept(ix, {i \in DOMAIN ix : ix[i].id # r})

\* Which entries those are, and how many of a tenant there are with another one at
\* the end in the place of the one left out.
LEMMA OthersAre ==
  ASSUME NEW ix \in Seq(Entries), NEW e \in Entries
  PROVE  LET z == Append(Others(ix, e.id), e)
         IN  /\ z \in Seq(Entries) /\ z # <<>> /\ z[Len(z)] = e
             /\ \A n \in DOMAIN z : z[n] = e \/ (z[n].id # e.id /\ \E i \in DOMAIN ix : z[n] = ix[i])
             /\ \A i \in DOMAIN ix : ix[i].id # e.id => \E n \in DOMAIN z : z[n] = ix[i]
             /\ Single(ix) => Single(z)
             /\ \A t : Single(ix) \/ t # TenantOf[e.id] => Cardinality(Of(ix, t)) <= Cardinality(Of(z, t))
<1> DEFINE K == {i \in DOMAIN ix : ix[i].id # e.id}
           N == Cardinality(K)
           o == Kept(ix, K)
           z == Append(Others(ix, e.id), e)
<1>0. K \subseteq DOMAIN ix /\ K \subseteq Nat /\ z = Append(o, e)
  BY DEF Others
<1>1. /\ N \in Nat /\ o \in Seq(Entries) /\ Len(o) = N
      /\ \E g : Lists(g, K) /\ \A n \in 1..N : o[n] = ix[g[n]]
  <2> HIDE DEF K
  <2> QED BY <1>0, KeptType
<1>2. PICK g : Lists(g, K) /\ \A n \in 1..N : o[n] = ix[g[n]]
  BY <1>1
<1>3. /\ \A n \in 1..N : g[n] \in K
      /\ \A i \in K : \E n \in 1..N : g[n] = i
      /\ \A a, b \in 1..N : g[a] = g[b] => a = b
  <2>1. /\ g \in [1..N -> K] /\ \A i \in K : \E n \in 1..N : g[n] = i
        /\ \A a, b \in 1..N : a < b => g[a] < g[b]
    BY <1>2 DEF Lists
  <2> HIDE DEF K, N
  <2>2. ASSUME NEW a \in 1..N, NEW b \in 1..N, g[a] = g[b] PROVE a = b
    <3>1. g[a] \in Nat /\ g[b] \in Nat
      BY <2>1, <1>0
    <3>2. ~(a < b) /\ ~(b < a)
      BY <2>1, <2>2, <3>1
    <3> QED BY <3>2
  <2> QED BY <2>1, <2>2
<1>4. /\ z \in Seq(Entries) /\ Len(z) = N + 1 /\ DOMAIN z = 1..(N + 1) /\ z[N + 1] = e
      /\ \A n \in 1..N : z[n] = o[n]
  <2> HIDE DEF o, N, z
  <2> QED BY <1>0, <1>1
<1>5. \A n \in 1..N : n \in DOMAIN z /\ z[n] = ix[g[n]] /\ g[n] \in DOMAIN ix /\ z[n].id # e.id
  <2>1. \A i \in K : i \in DOMAIN ix /\ ix[i].id # e.id
    OBVIOUS
  <2> HIDE DEF K, N, o, z
  <2> QED BY <1>1, <1>2, <1>3, <1>4, <2>1
<1>6. \A n \in DOMAIN z : n \in 1..N \/ n = N + 1
  <2> HIDE DEF N, z
  <2> QED BY <1>1, <1>4
<1>7. \A n \in DOMAIN z : z[n] = e \/ (z[n].id # e.id /\ \E i \in DOMAIN ix : z[n] = ix[i])
  <2> HIDE DEF N, z
  <2> QED BY <1>4, <1>5, <1>6
<1>8. \A i \in K : \E n \in 1..N : g[n] = i /\ z[n] = ix[i]
  <2> HIDE DEF K, N, z
  <2> QED BY <1>3, <1>5
<1>9. ASSUME Single(ix), NEW a \in DOMAIN z, NEW b \in DOMAIN z, z[a].id = z[b].id PROVE a = b
  <2> HIDE DEF N, z
  <2>1. CASE a \in 1..N /\ b \in 1..N
    <3>1. g[a] = g[b]
      BY <1>5, <1>9, <2>1 DEF Single
    <3> QED BY <1>3, <2>1, <3>1
  <2> QED BY <1>4, <1>5, <1>6, <1>9, <2>1
<1> DEFINE F(i) == IF i \in K THEN CHOOSE n \in 1..N : g[n] = i /\ z[n] = ix[i] ELSE N + 1
<1>10. \A i \in K : F(i) \in 1..N /\ g[F(i)] = i /\ z[F(i)] = ix[i]
  <2> HIDE DEF K, N, z
  <2> QED BY <1>8
<1>11. ASSUME NEW t, Single(ix) \/ t # TenantOf[e.id]
       PROVE  Cardinality(Of(ix, t)) <= Cardinality(Of(z, t))
  <2> DEFINE f == [i \in Of(ix, t) |-> F(i)]
  <2>0. \A i \in Of(ix, t) : i \in DOMAIN ix /\ TenantOf[ix[i].id] = t /\ (i \notin K => ix[i].id = e.id /\ F(i) = N + 1)
    BY DEF Of
  <2>1. \A i \in Of(ix, t) : F(i) \in Of(z, t)
    <3> SUFFICES ASSUME NEW i \in Of(ix, t) PROVE F(i) \in Of(z, t)
      OBVIOUS
    <3>1. F(i) \in DOMAIN z /\ z[F(i)].id = ix[i].id
      <4> HIDE DEF F, K, N, z
      <4> QED BY <1>1, <1>4, <1>6, <1>10, <2>0
    <3> HIDE DEF F, K, N, z
    <3> QED BY <3>1, <2>0 DEF Of
  <2>2. f \in [Of(ix, t) -> Of(z, t)]
    <3> HIDE DEF F, z
    <3> QED BY <2>1
  <2>3. ASSUME NEW a \in Of(ix, t), NEW b \in Of(ix, t), f[a] = f[b] PROVE a = b
    <3>1. F(a) = F(b)
      BY <2>3
    <3> HIDE DEF F, K, N, z, f
    <3>2. N + 1 \notin 1..N
      BY <1>1
    <3>3. CASE a \in K /\ b \in K
      BY <1>10, <3>1, <3>3
    <3>4. CASE a \notin K /\ b \notin K
      <4>1. Single(ix)
        BY <1>11, <2>0, <3>4
      <4> QED BY <2>0, <3>4, <4>1 DEF Single
    <3> QED BY <1>10, <2>0, <3>1, <3>2, <3>3, <3>4
  <2>4. IsFiniteSet(Of(z, t))
    <3> HIDE DEF z
    <3> QED BY <1>4, OfFinite
  <2> HIDE DEF f, z
  <2> QED BY <2>2, <2>3, <2>4, FewerThan
<1>12. \A i \in DOMAIN ix : ix[i].id # e.id => \E n \in DOMAIN z : z[n] = ix[i]
  <2>1. \A i \in DOMAIN ix : ix[i].id # e.id => i \in K
    OBVIOUS
  <2> HIDE DEF K, N, z
  <2> QED BY <1>5, <1>8, <2>1
<1>13. z # <<>> /\ z[Len(z)] = e
  <2> HIDE DEF N, z
  <2> QED BY <1>1, <1>4
<1>14. Single(ix) => Single(z)
  <2> HIDE DEF N, z
  <2> QED BY <1>9 DEF Single
<1>15. z \in Seq(Entries)
  BY <1>4
<1> HIDE DEF z
<1>16. \A t : Single(ix) \/ t # TenantOf[e.id] => Cardinality(Of(ix, t)) <= Cardinality(Of(z, t))
  BY <1>11
<1>17. z = Append(Others(ix, e.id), e)
  BY DEF z
<1> QED BY <1>7, <1>12, <1>13, <1>14, <1>15, <1>16 DEF z

\* upsertRunSummary: the entry is in the index, the others are as they were or have
\* gone to the cap.
LEMMA UpsertedIs ==
  ASSUME NEW ix \in Seq(Entries), NEW e \in Entries, Single(ix)
  PROVE  LET u == Upserted(ix, e)
         IN  /\ u \in Seq(Entries) /\ Single(u)
             /\ \E n \in DOMAIN u : u[n] = e
             /\ \A n \in DOMAIN u : u[n] = e \/ (u[n].id # e.id /\ \E i \in DOMAIN ix : u[n] = ix[i])
             /\ \A r : r # e.id /\ Recorded(ix, r) => Recorded(u, r)
<1> DEFINE z == Append(Others(ix, e.id), e)
           u == Upserted(ix, e)
<1>1. /\ z \in Seq(Entries) /\ z # <<>> /\ z[Len(z)] = e
      /\ \A n \in DOMAIN z : z[n] = e \/ (z[n].id # e.id /\ \E i \in DOMAIN ix : z[n] = ix[i])
      /\ \A i \in DOMAIN ix : ix[i].id # e.id => \E n \in DOMAIN z : z[n] = ix[i]
      /\ Single(z)
      /\ \A t : Cardinality(Of(ix, t)) <= Cardinality(Of(z, t))
  <2>1. /\ z \in Seq(Entries) /\ z # <<>> /\ z[Len(z)] = e
        /\ \A n \in DOMAIN z : z[n] = e \/ (z[n].id # e.id /\ \E i \in DOMAIN ix : z[n] = ix[i])
        /\ \A i \in DOMAIN ix : ix[i].id # e.id => \E n \in DOMAIN z : z[n] = ix[i]
        /\ Single(ix) => Single(z)
        /\ \A t : Single(ix) \/ t # TenantOf[e.id] => Cardinality(Of(ix, t)) <= Cardinality(Of(z, t))
    BY OthersAre
  <2> HIDE DEF z
  <2> QED BY <2>1
<1>2. u = Retain(z)
  BY DEF Upserted, Others
<1> HIDE DEF z, u
<1>3. /\ u \in Seq(Entries) /\ Single(u)
      /\ \A n \in DOMAIN u : \E i \in DOMAIN z : u[n] = z[i]
      /\ \E n \in DOMAIN u : u[n] = z[Len(z)]
  BY <1>1, <1>2, RetainKeeps, RetainType
<1>4. \E n \in DOMAIN u : u[n] = e
  BY <1>1, <1>3
<1>5. \A n \in DOMAIN u : u[n] = e \/ (u[n].id # e.id /\ \E i \in DOMAIN ix : u[n] = ix[i])
  BY <1>1, <1>3
<1>6. ASSUME NEW r, r # e.id, Recorded(ix, r) PROVE Recorded(u, r)
  <2>1. CASE \E i \in DOMAIN ix : ix[i].id = r /\ ix[i].status = "completed"
    <3>1. \E n \in DOMAIN z : z[n].id = r /\ z[n].status = "completed"
      BY <1>1, <1>6, <2>1
    <3> QED BY <1>1, <1>2, <3>1, RetainRecorded
  <2>2. CASE r \notin Ids(ix) /\ Cardinality(Of(ix, TenantOf[r])) = Cap
    <3>1. r \notin Ids(z)
      BY <1>1, <1>6, <2>2 DEF Ids
    <3>2. Cardinality(Of(z, TenantOf[r])) >= Cap
      <4>1. Cardinality(Of(z, TenantOf[r])) \in Nat /\ Cap \in Nat
        BY <1>1, OfFinite, StoreAssumption
      <4>2. Cap <= Cardinality(Of(z, TenantOf[r]))
        BY <1>1, <2>2
      <4> QED BY <4>1, <4>2
    <3> QED BY <1>1, <1>2, <3>1, <3>2, RetainRecorded
  <2> QED BY <1>6, <2>1, <2>2 DEF Recorded
<1> QED BY <1>3, <1>4, <1>5, <1>6 DEF u

\* SetToSeq lists a finite set.
LEMMA SetListed ==
  ASSUME NEW T, IsFiniteSet(T)
  PROVE  /\ Cardinality(T) \in Nat
         /\ SetToSeq(T) \in [1..Cardinality(T) -> T]
         /\ \A a, b \in 1..Cardinality(T) : SetToSeq(T)[a] = SetToSeq(T)[b] => a = b
<1> DEFINE N == Cardinality(T)
<1>1. N \in Nat /\ ExistsBijection(1..N, T)
  BY FS_CardinalityType
<1>2. PICK f : f \in Bijection(1..N, T)
  BY <1>1 DEF ExistsBijection
<1>3. f \in [1..N -> T] /\ \A a, b \in 1..N : f[a] = f[b] => a = b
  <2> HIDE DEF N
  <2> QED BY <1>2, Fun_BijectionProperties
<1>4. IsInjective(f)
  BY <1>3 DEF IsInjective
<1>5. SetToSeq(T) \in [1..N -> T] /\ IsInjective(SetToSeq(T))
  BY <1>3, <1>4 DEF SetToSeq
<1> QED BY <1>1, <1>5 DEF IsInjective

\* mergeIndex: of every live run there is its entry as given, or it went to the cap;
\* the others are as they were, or went to it.
LEMMA MergedIs ==
  ASSUME NEW ix \in Seq(Entries), Single(ix), NEW D, IsFiniteSet(D), NEW live \in [D -> Entries],
         \A r \in D : live[r].id = r
  PROVE  LET u == MergedIndex(ix, live)
         IN  /\ u \in Seq(Entries) /\ Single(u)
             /\ \A n \in DOMAIN u :
                  \/ u[n].id \in D /\ u[n] = live[u[n].id]
                  \/ u[n].id \notin D /\ \E i \in DOMAIN ix : u[n] = ix[i]
             /\ \A r : r \notin D /\ Recorded(ix, r) => Recorded(u, r)
<1> DEFINE T == {r \in DOMAIN live : \A i \in DOMAIN ix : ix[i].id # r}
           new == SetToSeq(T)
           N == Cardinality(T)
           a == [i \in DOMAIN ix |-> IF ix[i].id \in DOMAIN live THEN live[ix[i].id] ELSE ix[i]]
           b == [i \in DOMAIN new |-> live[new[i]]]
           z == a \o b
           u == MergedIndex(ix, live)
<1>1. u = Retain(z)
  BY DEF MergedIndex
<1>2. T \in SUBSET D /\ IsFiniteSet(T) /\ DOMAIN live = D
  <2>1. T \in SUBSET D /\ DOMAIN live = D
    OBVIOUS
  <2> HIDE DEF T
  <2> QED BY <2>1, FS_Subset
<1>3. /\ N \in Nat /\ DOMAIN new = 1..N /\ \A i \in 1..N : new[i] \in T
      /\ \A i, j \in 1..N : new[i] = new[j] => i = j
  <2> HIDE DEF T
  <2>1. /\ N \in Nat /\ new \in [1..N -> T]
        /\ \A i, j \in 1..N : new[i] = new[j] => i = j
    BY <1>2, SetListed
  <2> HIDE DEF new
  <2> QED BY <2>1
<1>4. /\ a \in Seq(Entries) /\ Len(a) = Len(ix) /\ \A i \in DOMAIN ix : a[i].id = ix[i].id
      /\ \A i \in DOMAIN ix : a[i] = IF ix[i].id \in D THEN live[ix[i].id] ELSE ix[i]
  <2>1. \A i \in DOMAIN ix : a[i] = (IF ix[i].id \in D THEN live[ix[i].id] ELSE ix[i]) /\ ix[i] \in Entries
    BY <1>2
  <2>2. \A i \in DOMAIN ix : a[i] \in Entries /\ a[i].id = ix[i].id
    <3> HIDE DEF a
    <3> QED BY <2>1
  <2>3. DOMAIN ix = 1..Len(ix) /\ Len(ix) \in Nat /\ a = [i \in 1..Len(ix) |-> a[i]]
    OBVIOUS
  <2> HIDE DEF a
  <2>4. a \in [1..Len(ix) -> Entries]
    BY <2>2, <2>3
  <2> QED BY <2>1, <2>2, <2>3, <2>4
<1>5. b \in Seq(Entries) /\ Len(b) = N /\ \A i \in 1..N : b[i] = live[new[i]] /\ b[i].id = new[i]
  <2> HIDE DEF T, new, N
  <2>1. \A i \in 1..N : b[i] = live[new[i]] /\ new[i] \in D
    BY <1>2, <1>3
  <2>2. \A i \in 1..N : b[i] \in Entries /\ b[i].id = new[i]
    <3> HIDE DEF b
    <3> QED BY <2>1
  <2>3. b = [i \in 1..N |-> b[i]]
    BY <1>3
  <2> HIDE DEF b
  <2>4. b \in [1..N -> Entries]
    BY <2>2, <2>3
  <2> QED BY <1>3, <2>1, <2>2, <2>4
<1> HIDE DEF a, b, T, N
<1>6. /\ z \in Seq(Entries) /\ DOMAIN z = 1..(Len(ix) + N)
      /\ \A i \in 1..Len(ix) : z[i] = a[i]
      /\ \A i \in 1..N : z[Len(ix) + i] = b[i]
  <2>1. /\ z \in Seq(Entries) /\ Len(z) = Len(a) + Len(b)
        /\ \A i \in 1..(Len(a) + Len(b)) : z[i] = IF i <= Len(a) THEN a[i] ELSE b[i - Len(a)]
    <3>1. a \in Seq(Entries) /\ b \in Seq(Entries)
      BY <1>4, <1>5
    <3>2. /\ a \o b \in Seq(Entries) /\ Len(a \o b) = Len(a) + Len(b)
          /\ \A i \in 1..Len(a) + Len(b) : (a \o b)[i] = IF i <= Len(a) THEN a[i] ELSE b[i - Len(a)]
      BY <3>1, ConcatProperties, Zenon
    <3> QED BY <3>2
  <2>2. Len(ix) \in Nat /\ N \in Nat /\ Len(a) = Len(ix) /\ Len(b) = N
    BY <1>3, <1>4, <1>5
  <2> HIDE DEF z
  <2>3. DOMAIN z = 1..(Len(ix) + N)
    BY <2>1, <2>2
  <2>4. \A i \in 1..(Len(ix) + N) : z[i] = IF i <= Len(ix) THEN a[i] ELSE b[i - Len(ix)]
    BY <2>1, <2>2
  <2>5. \A i \in 1..Len(ix) : i \in 1..(Len(ix) + N) /\ i <= Len(ix)
    BY <2>2
  <2>6. \A i \in 1..N : Len(ix) + i \in 1..(Len(ix) + N) /\ ~(Len(ix) + i <= Len(ix)) /\ Len(ix) + i - Len(ix) = i
    BY <2>2
  <2>7. \A i \in 1..Len(ix) : z[i] = a[i]
    BY <2>4, <2>5
  <2>8. \A i \in 1..N : z[Len(ix) + i] = b[i]
    BY <2>4, <2>6
  <2> QED BY <2>1, <2>3, <2>7, <2>8
<1> HIDE DEF z, new
<1>7. \A n \in DOMAIN z : n \in DOMAIN ix \/ \E i \in 1..N : n = Len(ix) + i
  <2> SUFFICES ASSUME NEW n \in DOMAIN z, ~(n \in DOMAIN ix) PROVE \E i \in 1..N : n = Len(ix) + i
    OBVIOUS
  <2>1. Len(ix) \in Nat /\ n \in Nat /\ n > Len(ix) /\ n <= Len(ix) + N
    BY <1>3, <1>6
  <2>2. n - Len(ix) \in 1..N /\ n = Len(ix) + (n - Len(ix))
    BY <1>3, <2>1
  <2> QED BY <2>2
<1>8. /\ \A n \in DOMAIN ix : n \in DOMAIN z /\ z[n].id = ix[n].id /\ z[n] = IF ix[n].id \in D THEN live[ix[n].id] ELSE ix[n]
      /\ \A i \in 1..N : z[Len(ix) + i].id = new[i] /\ z[Len(ix) + i] = live[new[i]] /\ new[i] \in D
                         /\ \A n \in DOMAIN ix : ix[n].id # new[i]
  <2>1. \A n \in DOMAIN ix : n \in 1..Len(ix) /\ n \in DOMAIN z
    BY <1>3, <1>6
  <2>2. \A i \in 1..N : new[i] \in D /\ \A n \in DOMAIN ix : ix[n].id # new[i]
    BY <1>3 DEF T
  <2>3. \A n \in DOMAIN ix : z[n] = a[n]
    BY <1>6, <2>1
  <2>4. \A i \in 1..N : z[Len(ix) + i].id = new[i] /\ z[Len(ix) + i] = live[new[i]]
    BY <1>5, <1>6
  <2> QED BY <1>4, <2>1, <2>2, <2>3, <2>4
<1>9. \A n \in DOMAIN z :
          \/ z[n].id \in D /\ z[n] = live[z[n].id]
          \/ z[n].id \notin D /\ \E i \in DOMAIN ix : z[n] = ix[i]
  BY <1>7, <1>8
<1>10. Single(z)
  <2> SUFFICES ASSUME NEW m \in DOMAIN z, NEW n \in DOMAIN z, z[m].id = z[n].id PROVE m = n
    BY DEF Single
  <2>1. CASE m \in DOMAIN ix /\ n \in DOMAIN ix
    BY <1>8, <2>1 DEF Single
  <2>2. CASE m \in DOMAIN ix /\ n \notin DOMAIN ix
    BY <1>7, <1>8, <2>2
  <2>3. CASE m \notin DOMAIN ix /\ n \in DOMAIN ix
    BY <1>7, <1>8, <2>3
  <2>4. CASE m \notin DOMAIN ix /\ n \notin DOMAIN ix
    <3>1. PICK i \in 1..N : m = Len(ix) + i
      BY <1>7, <2>4
    <3>2. PICK j \in 1..N : n = Len(ix) + j
      BY <1>7, <2>4
    <3>3. i = j
      BY <1>3, <1>8, <3>1, <3>2
    <3> QED BY <3>1, <3>2, <3>3
  <2> QED BY <2>1, <2>2, <2>3, <2>4
<1>11. \A t : Cardinality(Of(ix, t)) <= Cardinality(Of(z, t))
  <2> TAKE t
  <2>1. Of(ix, t) \in SUBSET Of(z, t)
    BY <1>8 DEF Of
  <2>2. IsFiniteSet(Of(z, t))
    BY <1>6, OfFinite
  <2> QED BY <2>1, <2>2, FS_Subset
<1> HIDE DEF u
<1>12. /\ u \in Seq(Entries) /\ Single(u)
       /\ \A n \in DOMAIN u : \E i \in DOMAIN z : u[n] = z[i]
  BY <1>1, <1>6, <1>10, RetainKeeps, RetainType
<1>13. \A n \in DOMAIN u :
                  \/ u[n].id \in D /\ u[n] = live[u[n].id]
                  \/ u[n].id \notin D /\ \E i \in DOMAIN ix : u[n] = ix[i]
  BY <1>9, <1>12
<1>14. ASSUME NEW r, r \notin D, Recorded(ix, r) PROVE Recorded(u, r)
  <2>1. CASE \E i \in DOMAIN ix : ix[i].id = r /\ ix[i].status = "completed"
    <3>1. \E n \in DOMAIN z : z[n].id = r /\ z[n].status = "completed"
      BY <1>8, <1>14, <2>1
    <3> QED BY <1>1, <1>6, <1>10, <3>1, RetainRecorded
  <2>2. CASE r \notin Ids(ix) /\ Cardinality(Of(ix, TenantOf[r])) = Cap
    <3>1. r \notin Ids(z)
      BY <1>9, <1>14, <2>2 DEF Ids
    <3>2. Cardinality(Of(z, TenantOf[r])) >= Cap
      <4>1. Cardinality(Of(z, TenantOf[r])) \in Nat /\ Cap \in Nat
        BY <1>6, OfFinite, StoreAssumption
      <4>2. Cap <= Cardinality(Of(z, TenantOf[r]))
        BY <1>11, <2>2
      <4> QED BY <4>1, <4>2
    <3> QED BY <1>1, <1>6, <1>10, <3>1, <3>2, RetainRecorded
  <2> QED BY <1>14, <2>1, <2>2 DEF Recorded
<1> QED BY <1>12, <1>13, <1>14 DEF u

Jobs == [run : SRun, kind : {"end", "step", "tick"}, at : {"summary", "events", "snapshot"},
         mode : Modes, text : Texts \cup {"none"}]

RunsType ==
    /\ pg \in BOOLEAN
    /\ mem \in [SRun -> {"none", "running", "ended", "gone"}] /\ IsFiniteSet({q \in SRun : mem[q] # "none"})
    /\ privacy \in [SRun -> Modes] /\ projectMode \in Modes
    /\ stored \in [SRun -> [events : Texts \cup {"none"}, snapshot : Texts \cup {"none"}]]
    /\ complete \subseteq SRun /\ late \subseteq SRun

WritersType ==
    /\ jobs \subseteq Jobs
    /\ tick \in [at : {"idle", "load", "save", "runs"}, runs : SUBSET SRun, raw : SUBSET SRun, index : Seq(Entries)]
    /\ purge \in [at : {"no", "next", "events", "snapshot", "done", "cut"}, todo : SUBSET Entries, run : SUBSET SRun]

\* No index has two entries of a run.
IndexType == index \in Seq(Entries) /\ Single(index) /\ Single(tick.index)

\* What an entry says of its run: it was created, only a run of an earlier process
\* failed, and no run whose end was recorded did.
EntrySound(e) ==
    /\ mem[e.id] # "none"
    /\ e.status = "failed" => mem[e.id] = "gone" /\ e.id \notin complete

EntriesInv ==
    /\ \A i \in DOMAIN index : EntrySound(index[i])
    /\ \A i \in DOMAIN tick.index : EntrySound(tick.index[i])
    /\ \A e \in purge.todo : EntrySound(e)

JobsInv ==
    /\ \A r \in SRun : mem[r] = "none" => stored[r] = NoFiles
    /\ \A r \in complete : mem[r] # "none"
    /\ \A j \in jobs :
          /\ mem[j.run] \in {"running", "ended"}
          /\ j.kind = "end" => mem[j.run] = "ended"
          /\ j.at = "summary" => j.kind \in {"end", "tick"}
          /\ pg => j.text # "none"
    /\ \A r \in tick.runs : mem[r] \in {"running", "ended"}

PurgeInv ==
    /\ purge.at \in {"no", "done", "cut"} => purge.todo = {}
    /\ purge.at \in {"events", "snapshot"} => \E r \in SRun : purge.run = {r}
    /\ purge.at \notin {"events", "snapshot"} => purge.run = {}
    /\ purge.at = "no" => projectMode = "standard" /\ \A r \in SRun : privacy[r] = "standard"
    /\ purge.at # "no" => projectMode = "zero_retention"

\* A run of the project that knows of the new mode.
Strict(r) == Private(r) /\ privacy[r] = "zero_retention"

ContentInv ==
    \A r \in SRun : Strict(r) =>
        /\ purge.at # "cut" =>
             /\ stored[r].events = "raw" =>
                  (pg /\ r \in late) \/ (purge.at = "events" /\ r \in purge.run) \/ r \in missed
             /\ stored[r].snapshot = "raw" =>
                  (pg /\ r \in late) \/ (purge.at \in {"events", "snapshot"} /\ r \in purge.run) \/ r \in missed
        /\ \A i \in DOMAIN index : index[i].id = r /\ index[i].text = "raw" => r \in late \cup missed

\* FilesKept, entry by entry.
FilesInv ==
    \A i \in DOMAIN index :
        /\ index[i].id \in complete /\ mem[index[i].id] = "ended"
        /\ index[i].id \notin missed /\ (\A j \in jobs : j.run # index[i].id)
        => stored[index[i].id].snapshot # "none"

HistoryInv == \A r \in complete : Recorded(index, r)

StoreInv ==
    /\ RunsType /\ WritersType /\ IndexType
    /\ EntriesInv /\ JobsInv /\ PurgeInv /\ HistoryInv /\ FilesInv /\ ContentInv

-----------------------------------------------------------------------------
(* The write of the index. *)

\* saveRunIndex: what is written are entries it was given, and what stays recorded
\* was recorded in those.
LEMMA SavedIndex ==
  ASSUME NEW ix \in Seq(Entries), Single(ix), NEW recorded, NEW faults, SaveIndex(ix, recorded, faults)
  PROVE  /\ index' \in Seq(Entries) /\ Single(index') /\ complete' \subseteq recorded
         /\ \A n \in DOMAIN index' : \E i \in DOMAIN ix : index'[n] = ix[i]
         /\ \A r \in complete' : Recorded(ix, r) => Recorded(index', r)
<1>1. CASE index' = ix /\ complete' = recorded
  BY <1>1
<1>2. CASE \E h \in 1..6 : /\ index' = Halved(ix, h)
                           /\ complete' = {r \in recorded : \E i \in DOMAIN index' : index'[i].id = r}
  <2>1. PICK k : index' = LastEntries(ix, k)
    BY <1>2 DEF Halved
  <2> DEFINE K == {i \in DOMAIN ix : i > Len(ix) - k}
  <2>2. K \in SUBSET (DOMAIN ix) /\ index' = Kept(ix, K)
    BY <2>1 DEF LastEntries
  <2> HIDE DEF K
  <2>3. /\ IsFiniteSet(K) /\ Cardinality(K) \in Nat /\ Kept(ix, K) \in Seq(Entries)
        /\ Len(Kept(ix, K)) = Cardinality(K)
        /\ \E g : Lists(g, K) /\ \A n \in 1..Cardinality(K) : Kept(ix, K)[n] = ix[g[n]]
    BY <2>2, KeptType
  <2>4. PICK g : Lists(g, K) /\ \A n \in 1..Cardinality(K) : index'[n] = ix[g[n]]
    BY <2>2, <2>3
  <2>5. DOMAIN index' = 1..Cardinality(K) /\ index' \in Seq(Entries)
    BY <2>2, <2>3
  <2>6. /\ \A n \in DOMAIN index' : g[n] \in DOMAIN ix /\ index'[n] = ix[g[n]]
        /\ \A m, n \in DOMAIN index' : g[m] = g[n] => m = n
    <3>1. g \in [1..Cardinality(K) -> K]
      BY <2>4 DEF Lists
    <3>2. \A n \in DOMAIN index' : g[n] \in K
      BY <2>5, <3>1
    <3>3. \A m, n \in 1..Cardinality(K) : g[m] = g[n] => m = n
      <4>1. K \subseteq Nat /\ Cardinality(K) \in Nat
        BY <2>2, <2>3
      <4>2. \A n \in 1..Cardinality(K) : g[n] \in Nat
        BY <3>1, <4>1
      <4>3. \A m, n \in 1..Cardinality(K) : m < n => g[m] < g[n]
        BY <2>4 DEF Lists
      <4> QED BY <4>1, <4>2, <4>3
    <3> QED BY <2>2, <2>4, <2>5, <3>2, <3>3
  <2>7. Single(index')
    BY <2>6 DEF Single
  <2>8. ASSUME NEW r \in complete', Recorded(ix, r) PROVE Recorded(index', r)
    <3>1. PICK n \in DOMAIN index' : index'[n].id = r
      BY <1>2, <2>8
    <3>2. ix[g[n]].id = r /\ g[n] \in DOMAIN ix
      BY <2>6, <3>1
    <3>3. \E i \in DOMAIN ix : ix[i].id = r /\ ix[i].status = "completed"
      BY <2>8, <3>2 DEF Recorded, Ids
    <3>4. ix[g[n]].status = "completed"
      BY <3>2, <3>3 DEF Single
    <3> QED BY <2>6, <3>1, <3>4 DEF Recorded
  <2> QED BY <1>2, <2>5, <2>6, <2>7, <2>8
<1> QED BY <1>1, <1>2 DEF SaveIndex

-----------------------------------------------------------------------------
(* Runs and their jobs. *)

LEMMA CreateRunRunsType ==
  ASSUME StoreInv, NEW r \in SRun, CreateRun(r)
  PROVE  RunsType'
<1> DEFINE A == {q \in SRun : mem[q] # "none"}
<1>1. {q \in SRun : mem'[q] # "none"} = A \cup {r}
  BY DEF StoreInv, CreateRun, RunsType
<1>2. IsFiniteSet({q \in SRun : mem'[q] # "none"})
  <2>1. IsFiniteSet(A)
    BY DEF StoreInv, RunsType
  <2> HIDE DEF A
  <2>2. IsFiniteSet(A \cup {r})
    BY <2>1, FS_AddElement
  <2> QED BY <1>1, <2>2
<1>3. mem' \in [SRun -> {"none", "running", "ended", "gone"}] /\ privacy' \in [SRun -> Modes]
  BY DEF StoreInv, CreateRun, RunsType, Mode, Modes
<1> QED BY <1>2, <1>3 DEF StoreInv, CreateRun, RunsType

LEMMA EndRunFilesInv ==
  ASSUME StoreInv, NEW r \in SRun, EndRun(r)
  PROVE  FilesInv'
<1> SUFFICES ASSUME NEW i \in DOMAIN index, index[i].id \in complete, mem'[index[i].id] = "ended",
                    index[i].id \notin missed, \A j \in jobs' : j.run # index[i].id
             PROVE  stored[index[i].id].snapshot # "none"
  BY DEF EndRun, FilesInv
<1>1. Job(r, "end", "summary") \in jobs' /\ Job(r, "end", "summary").run = r /\ jobs \subseteq jobs'
  BY DEF EndRun, Job
<1>2. index[i].id # r
  BY <1>1
<1>3. mem[index[i].id] = "ended"
  <2>1. index[i].id \in SRun
    BY DEF StoreInv, RunsType
  <2> QED BY <1>2, <2>1 DEF EndRun, StoreInv, RunsType
<1> QED BY <1>1, <1>3 DEF StoreInv, FilesInv

LEMMA SaveEventsRunsType ==
  ASSUME StoreInv, NEW j \in jobs, SaveEvents(j)
  PROVE  RunsType'
<1>1. j.run \in SRun /\ j.text \in Texts \cup {"none"}
  BY DEF StoreInv, WritersType, Jobs
<1>2. Content(j) \in Texts \cup {"none"}
  BY <1>1 DEF Content, Text, Texts
<1>3. stored' \in [SRun -> [events : Texts \cup {"none"}, snapshot : Texts \cup {"none"}]]
  <2>1. ASSUME NEW c \in Texts \cup {"none"}
        PROVE  [stored EXCEPT ![j.run].events = IF @ = "raw" THEN "raw" ELSE c]
                 \in [SRun -> [events : Texts \cup {"none"}, snapshot : Texts \cup {"none"}]]
    BY <1>1 DEF StoreInv, RunsType, Texts
  <2> QED BY <1>2, <2>1 DEF StoreInv, RunsType, SaveEvents
<1>4. late' \subseteq SRun
  BY <1>1 DEF SaveEvents, LateContent, StoreInv, RunsType
<1> QED BY <1>3, <1>4 DEF StoreInv, RunsType, SaveEvents

\* The job goes on and stays one of its run.
LEMMA JobGoesOn ==
  ASSUME StoreInv, NEW j \in jobs, NEW at \in {"events", "snapshot"}, Advance(j, at)
  PROVE  /\ \A q \in jobs' : q \in jobs \/ (q.run = j.run /\ q.kind = j.kind /\ q.at = at /\ q.text = Sent(j.run))
         /\ \E q \in jobs' : q.run = j.run
         /\ \A q \in jobs : \E p \in jobs' : p.run = q.run
<1> DEFINE n == [j EXCEPT !.at = at, !.text = Sent(j.run)]
<1>1. n.run = j.run /\ n.kind = j.kind /\ n.at = at /\ n.text = Sent(j.run)
  BY DEF StoreInv, WritersType, Jobs
<1>2. jobs' = (jobs \ {j}) \cup {n}
  BY DEF Advance
<1> HIDE DEF n
<1> QED BY <1>1, <1>2

LEMMA SaveEventsJobsInv ==
  ASSUME StoreInv, NEW j \in jobs, SaveEvents(j)
  PROVE  JobsInv'
<1>1. \A q \in jobs' : q \in jobs \/ (q.run = j.run /\ q.kind = j.kind /\ q.at = "snapshot" /\ q.text = Sent(j.run))
  BY JobGoesOn DEF SaveEvents
<1>2. \A q \in jobs' :
          /\ mem[q.run] \in {"running", "ended"}
          /\ q.kind = "end" => mem[q.run] = "ended"
          /\ q.at = "summary" => q.kind \in {"end", "tick"}
          /\ pg => q.text # "none"
  BY <1>1 DEF StoreInv, JobsInv, Sent, Text
<1>3. \A r \in SRun : mem[r] = "none" => stored'[r] = NoFiles
  <2>1. mem[j.run] # "none" /\ j.run \in SRun
    BY DEF StoreInv, JobsInv, WritersType, Jobs
  <2>2. \A r \in SRun : r # j.run => stored'[r] = stored[r]
    BY <2>1 DEF SaveEvents, StoreInv, RunsType
  <2> QED BY <2>1, <2>2 DEF StoreInv, JobsInv
<1> QED BY <1>2, <1>3 DEF SaveEvents, StoreInv, JobsInv

LEMMA SaveEventsFilesInv ==
  ASSUME StoreInv, NEW j \in jobs, SaveEvents(j)
  PROVE  FilesInv'
<1>1. \A q \in jobs : \E p \in jobs' : p.run = q.run
  BY JobGoesOn DEF SaveEvents
<1>2. \A r \in SRun : stored'[r].snapshot = stored[r].snapshot
  BY DEF SaveEvents, StoreInv, RunsType
<1>3. complete \subseteq SRun
  BY DEF StoreInv, RunsType
<1> QED BY <1>1, <1>2, <1>3 DEF SaveEvents, StoreInv, FilesInv

\* What SaveSummary puts into the index.
LEMMA SummaryUpserted ==
  ASSUME StoreInv, NEW j \in jobs, SaveSummary(j)
  PROVE  /\ index' \in Seq(Entries) /\ Single(index')
         /\ complete' \subseteq (IF j.kind = "end" THEN complete \cup {j.run} ELSE complete \ {j.run})
         /\ \A n \in DOMAIN index' : \/ index'[n] = Entry(j.run, Status(j), Text(j.mode))
                                     \/ (index'[n].id # j.run /\ \E i \in DOMAIN index : index'[n] = index[i])
         /\ \A r \in complete' : r # j.run /\ Recorded(index, r) => Recorded(index', r)
         /\ j.run \in complete' => Recorded(index', j.run)
<1> DEFINE e == Entry(j.run, Status(j), Text(j.mode))
           u == Upserted(index, e)
           recorded == IF j.kind = "end" THEN complete \cup {j.run} ELSE complete \ {j.run}
<1>1. e \in Entries /\ e.id = j.run /\ (j.kind = "end" => e.status = "completed")
  BY DEF StoreInv, WritersType, Jobs, Entries, Entry, Status, Statuses, Text, Texts
<1>2. index \in Seq(Entries) /\ Single(index) /\ SaveIndex(u, recorded, storeFaults)
  BY DEF StoreInv, IndexType, SaveSummary
<1>3. j.run \in recorded => j.kind = "end"
  OBVIOUS
<1> HIDE DEF e, recorded
<1>4. /\ u \in Seq(Entries) /\ Single(u)
      /\ \E n \in DOMAIN u : u[n] = e
      /\ \A n \in DOMAIN u : u[n] = e \/ (u[n].id # e.id /\ \E i \in DOMAIN index : u[n] = index[i])
      /\ \A r : r # e.id /\ Recorded(index, r) => Recorded(u, r)
  BY <1>1, <1>2, UpsertedIs
<1> HIDE DEF u
<1>5. /\ index' \in Seq(Entries) /\ Single(index') /\ complete' \subseteq recorded
      /\ \A n \in DOMAIN index' : \E i \in DOMAIN u : index'[n] = u[i]
      /\ \A r \in complete' : Recorded(u, r) => Recorded(index', r)
  BY <1>2, <1>4, SavedIndex
<1>6. \A n \in DOMAIN index' : index'[n] = e \/ (index'[n].id # j.run /\ \E i \in DOMAIN index : index'[n] = index[i])
  BY <1>1, <1>4, <1>5
<1>7. \A r \in complete' : r # j.run /\ Recorded(index, r) => Recorded(index', r)
  BY <1>1, <1>4, <1>5
<1>8. ASSUME j.run \in complete' PROVE Recorded(index', j.run)
  <2>1. \E n \in DOMAIN u : u[n].id = j.run /\ u[n].status = "completed"
    BY <1>1, <1>3, <1>4, <1>5, <1>8
  <2> QED BY <1>5, <1>8, <2>1 DEF Recorded
<1> QED BY <1>5, <1>6, <1>7, <1>8 DEF e, recorded

LEMMA SaveSummaryIndexType ==
  ASSUME StoreInv, NEW j \in jobs, SaveSummary(j)
  PROVE  IndexType'
<1>1. tick' = tick /\ Single(tick.index)
  BY DEF SaveSummary, StoreInv, IndexType
<1>2. index' \in Seq(Entries) /\ Single(index')
  BY SummaryUpserted
<1> QED BY <1>1, <1>2 DEF IndexType, Single

LEMMA SaveSummaryEntriesInv ==
  ASSUME StoreInv, NEW j \in jobs, SaveSummary(j)
  PROVE  EntriesInv'
<1>1. /\ mem[j.run] \in {"running", "ended"} /\ (j.kind = "end" => mem[j.run] = "ended")
      /\ j.kind \in {"end", "tick"}
  BY DEF StoreInv, JobsInv, SaveSummary
<1>2. complete' \subseteq complete \cup {j.run} /\ mem' = mem
  BY SummaryUpserted DEF SaveSummary
<1>3. ASSUME NEW x, EntrySound(x) PROVE EntrySound(x)'
  BY <1>1, <1>2, <1>3 DEF EntrySound
<1>4. EntrySound(Entry(j.run, Status(j), Text(j.mode)))'
  BY <1>1, <1>2 DEF EntrySound, Entry, Status
<1>5. \A i \in DOMAIN index' : EntrySound(index[i])'
  <2> SUFFICES ASSUME NEW n \in DOMAIN index' PROVE EntrySound(index[n])'
    OBVIOUS
  <2> DEFINE x == index'[n]
  <2>1. x = Entry(j.run, Status(j), Text(j.mode)) \/ \E i \in DOMAIN index : x = index[i]
    BY SummaryUpserted
  <2>2. \A i \in DOMAIN index : EntrySound(index[i])
    BY DEF StoreInv, EntriesInv
  <2> QED BY <1>3, <1>4, <2>1, <2>2 DEF EntrySound
<1>6. tick' = tick /\ purge' = purge
  BY DEF SaveSummary
<1> QED BY <1>3, <1>5, <1>6 DEF StoreInv, EntriesInv, EntrySound

LEMMA SaveSummaryJobsInv ==
  ASSUME StoreInv, NEW j \in jobs, SaveSummary(j)
  PROVE  JobsInv'
<1>1. \A q \in jobs' : q \in jobs \/ (q.run = j.run /\ q.kind = j.kind /\ q.at = "events" /\ q.text = Sent(j.run))
  BY JobGoesOn DEF SaveSummary
<1>2. \A q \in jobs' :
          /\ mem[q.run] \in {"running", "ended"}
          /\ q.kind = "end" => mem[q.run] = "ended"
          /\ q.at = "summary" => q.kind \in {"end", "tick"}
          /\ pg => q.text # "none"
  BY <1>1 DEF StoreInv, JobsInv, Sent, Text
<1>3. \A r \in complete' : mem[r] # "none"
  <2>1. complete' \subseteq complete \cup {j.run} /\ mem[j.run] # "none"
    BY SummaryUpserted DEF StoreInv, JobsInv
  <2> QED BY <2>1 DEF StoreInv, JobsInv
<1> QED BY <1>2, <1>3 DEF SaveSummary, StoreInv, JobsInv

LEMMA SaveSummaryHistoryInv ==
  ASSUME StoreInv, NEW j \in jobs, SaveSummary(j)
  PROVE  HistoryInv'
<1> SUFFICES ASSUME NEW r \in complete' PROVE Recorded(index', r)
  BY DEF HistoryInv, Recorded, Ids, Of
<1>1. CASE r # j.run
  <2>1. r \in complete
    BY <1>1, SummaryUpserted
  <2> QED BY <1>1, <2>1, SummaryUpserted DEF StoreInv, HistoryInv
<1>2. CASE r = j.run
  BY <1>2, SummaryUpserted
<1> QED BY <1>1, <1>2

LEMMA SaveSummaryFilesInv ==
  ASSUME StoreInv, NEW j \in jobs, SaveSummary(j)
  PROVE  FilesInv'
<1> SUFFICES ASSUME NEW n \in DOMAIN index', index'[n].id \in complete', mem[index'[n].id] = "ended",
                    index'[n].id \notin missed, \A q \in jobs' : q.run # index'[n].id
             PROVE  stored[index'[n].id].snapshot # "none"
  BY DEF SaveSummary, FilesInv
<1>1. /\ \E q \in jobs' : q.run = j.run
      /\ \A q \in jobs : \E p \in jobs' : p.run = q.run
  BY JobGoesOn DEF SaveSummary
<1>2. index'[n].id # j.run
  BY <1>1
<1>3. PICK i \in DOMAIN index : index'[n] = index[i]
  <2>1. Entry(j.run, Status(j), Text(j.mode)).id = j.run
    BY DEF Entry
  <2> QED BY <1>2, <2>1, SummaryUpserted
<1>4. index[i].id \in complete
  BY <1>2, <1>3, SummaryUpserted
<1> QED BY <1>1, <1>3, <1>4 DEF StoreInv, FilesInv

LEMMA SaveSummaryContentInv ==
  ASSUME StoreInv, NEW j \in jobs, SaveSummary(j)
  PROVE  ContentInv'
<1>1. \A r \in SRun : Strict(r)' = Strict(r)
  BY DEF SaveSummary, Strict, Private
<1>2. late \subseteq late' /\ UNCHANGED <<pg, stored, purge, missed>>
  BY DEF SaveSummary
<1>3. ASSUME NEW r \in SRun, Strict(r), NEW n \in DOMAIN index', index'[n].id = r, index'[n].text = "raw"
      PROVE  r \in late' \cup missed
  <2>1. CASE index'[n] = Entry(j.run, Status(j), Text(j.mode))
    <3>1. r = j.run /\ Text(j.mode) = "raw"
      BY <1>3, <2>1 DEF Entry
    <3>2. j.mode = "standard" /\ Private(r) /\ privacy[r] = "zero_retention"
      BY <1>3, <3>1 DEF Text, Strict
    <3>3. purge.at # "no"
      BY <3>2 DEF StoreInv, PurgeInv
    <3> QED BY <3>1, <3>2, <3>3 DEF SaveSummary, Late
  <2>2. CASE \E i \in DOMAIN index : index'[n] = index[i]
    BY <1>2, <1>3, <2>2 DEF StoreInv, ContentInv
  <2> QED BY <2>1, <2>2, SummaryUpserted
<1> QED BY <1>1, <1>2, <1>3 DEF StoreInv, ContentInv

-----------------------------------------------------------------------------
(* The tick. *)

\* What the tick makes of the index it has.
Base == IF pg THEN index ELSE tick.index
Live == [r \in tick.runs |-> Entry(r, "running", IF r \in tick.raw THEN "raw" ELSE "clean")]

\* The recorded ends its write leaves as they are.
TickEnded == {e.id : e \in {x \in ToSet(tick.index) : x.status # "running"}}
TickSpared == complete \ {r \in complete : r \in tick.runs \/ (~pg /\ r \notin Indexed \cap TickEnded)}

LEMMA TickMerged ==
  ASSUME StoreInv, TickSaves
  PROVE  /\ index' \in Seq(Entries) /\ Single(index')
         /\ \A n \in DOMAIN index' :
              \/ index'[n].id \in tick.runs
                 /\ index'[n] = Entry(index'[n].id, "running", IF index'[n].id \in tick.raw THEN "raw" ELSE "clean")
              \/ index'[n].id \notin tick.runs /\ \E i \in DOMAIN Base : index'[n] = Base[i]
         /\ complete' \subseteq TickSpared
         /\ \A r \in complete' : r \notin tick.runs /\ Recorded(Base, r) => Recorded(index', r)
<1> DEFINE D == tick.runs
           u == MergedIndex(Base, Live)
<1>1. Base \in Seq(Entries) /\ Single(Base)
  BY DEF StoreInv, IndexType, WritersType, Base
<1>2. IsFiniteSet(D) /\ D \subseteq SRun
  <2> DEFINE A == {q \in SRun : mem[q] # "none"}
  <2>1. IsFiniteSet(A)
    BY DEF StoreInv, RunsType
  <2>2. D \in SUBSET A /\ D \subseteq SRun
    BY DEF StoreInv, WritersType, JobsInv
  <2> HIDE DEF A, D
  <2> QED BY <2>1, <2>2, FS_Subset
<1>3. /\ Live \in [D -> Entries] /\ \A r \in D : Live[r].id = r
      /\ \A r \in D : Live[r] = Entry(r, "running", IF r \in tick.raw THEN "raw" ELSE "clean")
  BY <1>2 DEF Live, Entry, Entries, Statuses, Texts
<1>4. SaveIndex(u, TickSpared, storeFaults)
  BY DEF TickSaves, Base, Live, TickSpared, TickEnded
<1> HIDE DEF D
<1>5. /\ u \in Seq(Entries) /\ Single(u)
      /\ \A n \in DOMAIN u :
              \/ u[n].id \in D /\ u[n] = Live[u[n].id]
              \/ u[n].id \notin D /\ \E i \in DOMAIN Base : u[n] = Base[i]
      /\ \A r : r \notin D /\ Recorded(Base, r) => Recorded(u, r)
  BY <1>1, <1>2, <1>3, MergedIs
<1> HIDE DEF u
<1>6. /\ index' \in Seq(Entries) /\ Single(index') /\ complete' \subseteq TickSpared
      /\ \A n \in DOMAIN index' : \E i \in DOMAIN u : index'[n] = u[i]
      /\ \A r \in complete' : Recorded(u, r) => Recorded(index', r)
  BY <1>4, <1>5, SavedIndex
<1>7. \A n \in DOMAIN index' : index'[n].id \in D /\ index'[n] = Live[index'[n].id] =>
         index'[n] = Entry(index'[n].id, "running", IF index'[n].id \in tick.raw THEN "raw" ELSE "clean")
  BY <1>3
<1>8. \A n \in DOMAIN index' :
         \/ index'[n].id \in D /\ index'[n] = Live[index'[n].id]
         \/ index'[n].id \notin D /\ \E i \in DOMAIN Base : index'[n] = Base[i]
  BY <1>5, <1>6
<1>9. \A r \in complete' : r \notin D /\ Recorded(Base, r) => Recorded(index', r)
  BY <1>5, <1>6
<1> QED BY <1>6, <1>7, <1>8, <1>9 DEF D

\* A run whose end stays recorded is not one the tick writes, and its end is in the
\* index the tick has.
LEMMA TickSpares ==
  ASSUME StoreInv, TickSaves, NEW r \in complete'
  PROVE  /\ r \in complete /\ r \notin tick.runs /\ Recorded(Base, r)
         /\ pg \/ r \in Ids(index)
<1>1. r \in TickSpared
  BY TickMerged
<1>2. r \in complete /\ r \notin tick.runs /\ (pg \/ r \in Indexed \cap TickEnded)
  BY <1>1 DEF TickSpared
<1>3. CASE pg
  BY <1>2, <1>3 DEF StoreInv, HistoryInv, Base
<1>4. CASE ~pg
  <2>1. r \in Ids(index) /\ r \in TickEnded
    BY <1>2, <1>4 DEF Indexed, Ids
  <2>2. PICK i \in DOMAIN tick.index : tick.index[i].id = r /\ tick.index[i].status # "running"
    BY <2>1 DEF ToSet, TickEnded
  <2>3. tick.index[i].status \in Statuses /\ EntrySound(tick.index[i])
    <3>1. tick.index \in Seq(Entries)
      BY DEF StoreInv, WritersType
    <3>2. tick.index[i] \in Entries
      BY <3>1
    <3> QED BY <3>2 DEF StoreInv, EntriesInv, Entries
  <2>4. tick.index[i].status = "completed"
    BY <1>2, <2>2, <2>3 DEF EntrySound, Statuses
  <2>5. Recorded(tick.index, r)
    BY <2>2, <2>4 DEF Recorded
  <2> QED BY <1>2, <1>4, <2>1, <2>5 DEF Base
<1> QED BY <1>2, <1>3, <1>4

LEMMA TickSavesRunsType ==
  ASSUME StoreInv, TickSaves
  PROVE  RunsType'
<1>1. complete' \subseteq SRun
  BY TickMerged DEF TickSpared, StoreInv, RunsType
<1>2. late' \subseteq SRun
  <2> DEFINE again == {e.id : e \in {x \in ToSet(tick.index) : x.text = "raw"}}
  <2>1. tick.index \in Seq(Entries) /\ tick.raw \subseteq SRun
    BY DEF StoreInv, WritersType
  <2>2. \A i \in DOMAIN tick.index : tick.index[i].id \in SRun
    <3>1. \A i \in DOMAIN tick.index : tick.index[i] \in Entries
      BY <2>1
    <3> QED BY <3>1 DEF Entries
  <2>3. again \subseteq SRun
    BY <2>2 DEF ToSet
  <2>4. late' = late \cup {r \in tick.raw \cup again : Private(r) /\ purge.at # "no"}
    BY DEF TickSaves
  <2> HIDE DEF again
  <2> QED BY <2>1, <2>3, <2>4 DEF StoreInv, RunsType
<1> QED BY <1>1, <1>2 DEF TickSaves, StoreInv, RunsType

LEMMA TickSavesWritersType ==
  ASSUME StoreInv, TickSaves
  PROVE  WritersType'
<1>1. <<>> \in Seq(Entries)
  OBVIOUS
<1>2. tick' \in [at : {"idle", "load", "save", "runs"}, runs : SUBSET SRun, raw : SUBSET SRun, index : Seq(Entries)]
  BY <1>1 DEF TickSaves, StoreInv, WritersType
<1> QED BY <1>2 DEF TickSaves, StoreInv, WritersType

LEMMA TickSavesIndexType ==
  ASSUME StoreInv, TickSaves
  PROVE  IndexType'
<1>1. tick'.index = <<>>
  BY DEF TickSaves, StoreInv, WritersType
<1>2. Single(index)' /\ Single(tick.index)'
  BY <1>1, TickMerged DEF Single
<1> QED BY <1>2, TickMerged DEF IndexType

LEMMA TickSavesEntriesInv ==
  ASSUME StoreInv, TickSaves
  PROVE  EntriesInv'
<1>1. complete' \subseteq complete /\ mem' = mem /\ purge' = purge /\ tick'.index = <<>>
  BY TickMerged DEF TickSpared, TickSaves, StoreInv, WritersType
<1>2. ASSUME NEW x, EntrySound(x) PROVE EntrySound(x)'
  BY <1>1, <1>2 DEF EntrySound
<1>3. \A n \in DOMAIN index' : EntrySound(index[n])'
  <2> SUFFICES ASSUME NEW n \in DOMAIN index' PROVE EntrySound(index[n])'
    OBVIOUS
  <2> DEFINE x == index'[n]
  <2>1. CASE x.id \in tick.runs /\ x = Entry(x.id, "running", IF x.id \in tick.raw THEN "raw" ELSE "clean")
    <3>1. mem[x.id] # "none" /\ x.status = "running"
      BY <2>1 DEF StoreInv, JobsInv, Entry
    <3> QED BY <1>1, <3>1 DEF EntrySound
  <2>2. CASE \E i \in DOMAIN Base : x = Base[i]
    <3>1. \A i \in DOMAIN Base : EntrySound(Base[i])
      BY DEF Base, StoreInv, EntriesInv
    <3> QED BY <1>2, <2>2, <3>1 DEF EntrySound
  <2> QED BY <2>1, <2>2, TickMerged
<1> QED BY <1>1, <1>2, <1>3 DEF StoreInv, EntriesInv, EntrySound

LEMMA TickSavesHistoryInv ==
  ASSUME StoreInv, TickSaves
  PROVE  HistoryInv'
<1> SUFFICES ASSUME NEW r \in complete' PROVE Recorded(index', r)
  BY DEF HistoryInv, Recorded, Ids, Of
<1> QED BY TickSpares, TickMerged

LEMMA TickSavesFilesInv ==
  ASSUME StoreInv, TickSaves
  PROVE  FilesInv'
<1> SUFFICES ASSUME NEW n \in DOMAIN index', index'[n].id \in complete', mem[index'[n].id] = "ended",
                    index'[n].id \notin missed, \A q \in jobs : q.run # index'[n].id
             PROVE  stored[index'[n].id].snapshot # "none"
  BY DEF TickSaves, FilesInv
<1> DEFINE r == index'[n].id
<1>1. r \in complete /\ r \notin tick.runs /\ (pg \/ r \in Ids(index))
  BY TickSpares
<1>2. \E i \in DOMAIN index : index[i].id = r
  <2>1. CASE pg
    BY <1>1, <2>1, TickMerged DEF Base
  <2>2. CASE r \in Ids(index)
    BY <2>2 DEF Ids
  <2> QED BY <1>1, <2>1, <2>2
<1> QED BY <1>1, <1>2 DEF StoreInv, FilesInv

LEMMA TickSavesContentInv ==
  ASSUME StoreInv, TickSaves
  PROVE  ContentInv'
<1>1. \A r \in SRun : Strict(r)' = Strict(r)
  BY DEF TickSaves, Strict, Private
<1>2. late \subseteq late' /\ UNCHANGED <<pg, stored, purge, missed>>
  BY DEF TickSaves
<1>3. ASSUME NEW r \in SRun, Strict(r), NEW n \in DOMAIN index', index'[n].id = r, index'[n].text = "raw"
      PROVE  r \in late' \cup missed
  <2> DEFINE again == {e.id : e \in {x \in ToSet(tick.index) : x.text = "raw"}}
  <2>1. Private(r) /\ purge.at # "no"
    BY <1>3 DEF Strict, StoreInv, PurgeInv
  <2>2. r \in tick.raw \cup again => r \in late'
    <3>1. late' = late \cup {q \in tick.raw \cup again : Private(q) /\ purge.at # "no"}
      BY DEF TickSaves
    <3> HIDE DEF again
    <3> QED BY <2>1, <3>1
  <2>3. CASE index'[n] = Entry(r, "running", IF r \in tick.raw THEN "raw" ELSE "clean")
    <3>1. r \in tick.raw
      BY <1>3, <2>3 DEF Entry
    <3> QED BY <2>2, <3>1
  <2>4. CASE \E i \in DOMAIN Base : index'[n] = Base[i]
    <3>1. CASE pg
      BY <1>2, <1>3, <2>4, <3>1 DEF StoreInv, ContentInv, Base
    <3>2. CASE ~pg
      <4>1. PICK i \in DOMAIN tick.index : index'[n] = tick.index[i]
        BY <2>4, <3>2 DEF Base
      <4>2. r \in again
        BY <1>3, <4>1 DEF ToSet
      <4> QED BY <2>2, <4>2
    <3> QED BY <3>1, <3>2
  <2> QED BY <1>3, <2>3, <2>4, TickMerged
<1> QED BY <1>1, <1>2, <1>3 DEF StoreInv, ContentInv

\* The tick's next save is a job of a run that is running or ended.
LEMMA TickNextIs ==
  ASSUME StoreInv, TickNext
  PROVE  \/ tick' = IdleTick /\ jobs' = jobs
         \/ \E r \in tick.runs : tick' = [tick EXCEPT !.runs = @ \ {r}] /\ jobs' = jobs \cup {Job(r, "tick", "summary")}
BY DEF TickNext

LEMMA TickNextWritersType ==
  ASSUME StoreInv, TickNext
  PROVE  WritersType'
<1>1. purge' = purge
  BY DEF TickNext
<1>2. CASE tick' = IdleTick /\ jobs' = jobs
  BY <1>1, <1>2 DEF StoreInv, WritersType, IdleTick
<1>3. CASE \E r \in tick.runs : tick' = [tick EXCEPT !.runs = @ \ {r}] /\ jobs' = jobs \cup {Job(r, "tick", "summary")}
  <2>1. PICK r \in tick.runs : tick' = [tick EXCEPT !.runs = @ \ {r}] /\ jobs' = jobs \cup {Job(r, "tick", "summary")}
    BY <1>3
  <2>2. r \in SRun
    BY DEF StoreInv, WritersType
  <2>3. Job(r, "tick", "summary") \in Jobs
    BY <2>2 DEF Job, Sent, Text, Jobs, Texts, Modes, StoreInv, RunsType
  <2> QED BY <1>1, <2>1, <2>3 DEF StoreInv, WritersType
<1> QED BY <1>2, <1>3, TickNextIs

LEMMA TickNextJobsInv ==
  ASSUME StoreInv, TickNext
  PROVE  JobsInv'
<1>1. UNCHANGED <<pg, mem, stored, complete>>
  BY DEF TickNext
<1>2. CASE tick' = IdleTick /\ jobs' = jobs
  BY <1>1, <1>2 DEF StoreInv, JobsInv, IdleTick
<1>3. CASE \E r \in tick.runs : tick' = [tick EXCEPT !.runs = @ \ {r}] /\ jobs' = jobs \cup {Job(r, "tick", "summary")}
  <2>1. PICK r \in tick.runs : tick' = [tick EXCEPT !.runs = @ \ {r}] /\ jobs' = jobs \cup {Job(r, "tick", "summary")}
    BY <1>3
  <2> DEFINE q == Job(r, "tick", "summary")
  <2>2. q.run = r /\ q.kind = "tick" /\ q.at = "summary" /\ (pg => q.text # "none") /\ mem[r] \in {"running", "ended"}
    BY DEF Job, Sent, Text, StoreInv, JobsInv
  <2> HIDE DEF q
  <2>3. jobs' = jobs \cup {q}
    BY <2>1 DEF q
  <2>4. tick'.runs \subseteq tick.runs
    BY <2>1 DEF StoreInv, WritersType
  <2> QED BY <1>1, <2>2, <2>3, <2>4 DEF StoreInv, JobsInv
<1> QED BY <1>2, <1>3, TickNextIs

LEMMA PurgeStartsWritersType ==
  ASSUME StoreInv, PurgeStarts
  PROVE  WritersType'
<1>1. \A x \in ToSet(index) : x \in Entries
  BY DEF ToSet, StoreInv, IndexType
<1>2. {e \in ToSet(index) : Private(e.id)} \in SUBSET Entries
  BY <1>1
<1> QED BY <1>2 DEF PurgeStarts, StoreInv, WritersType

LEMMA PurgeStartsEntriesInv ==
  ASSUME StoreInv, PurgeStarts
  PROVE  EntriesInv'
<1>1. UNCHANGED <<mem, complete, index, tick>>
  BY DEF PurgeStarts
<1>2. \A x \in purge'.todo : \E i \in DOMAIN index : x = index[i]
  BY DEF PurgeStarts, ToSet
<1> QED BY <1>1, <1>2 DEF StoreInv, EntriesInv, EntrySound

\* The recorded ends PurgeRun leaves as they are.
PurgeSpared(e) == IF e.status = "running" \/ e.id \notin Indexed THEN complete \ {e.id} ELSE complete

\* What PurgeRun puts into the index.
LEMMA PurgedUpserted ==
  ASSUME StoreInv, NEW e \in purge.todo, PurgeRun(e)
  PROVE  /\ e \in Entries /\ Entry(e.id, e.status, "clean") \in Entries
         /\ index' \in Seq(Entries) /\ Single(index')
         /\ complete' \subseteq PurgeSpared(e)
         /\ \A n \in DOMAIN index' : \/ index'[n] = Entry(e.id, e.status, "clean")
                                     \/ (index'[n].id # e.id /\ \E i \in DOMAIN index : index'[n] = index[i])
         /\ \A r \in complete' : r # e.id /\ Recorded(index, r) => Recorded(index', r)
         /\ e.id \in complete' /\ e.status = "completed" => Recorded(index', e.id)
<1> DEFINE c == Entry(e.id, e.status, "clean")
           u == Upserted(index, c)
<1>0. e \in Entries
  BY DEF StoreInv, WritersType
<1>1. c \in Entries /\ c.id = e.id /\ c.status = e.status
  BY <1>0 DEF Entries, Entry, Texts
<1>2. index \in Seq(Entries) /\ Single(index) /\ SaveIndex(u, PurgeSpared(e), storeFaults)
  BY DEF StoreInv, IndexType, PurgeRun, PurgeSpared
<1> HIDE DEF c
<1>3. /\ u \in Seq(Entries) /\ Single(u)
      /\ \E n \in DOMAIN u : u[n] = c
      /\ \A n \in DOMAIN u : u[n] = c \/ (u[n].id # c.id /\ \E i \in DOMAIN index : u[n] = index[i])
      /\ \A r : r # c.id /\ Recorded(index, r) => Recorded(u, r)
  BY <1>1, <1>2, UpsertedIs
<1> HIDE DEF u
<1>4. /\ index' \in Seq(Entries) /\ Single(index') /\ complete' \subseteq PurgeSpared(e)
      /\ \A n \in DOMAIN index' : \E i \in DOMAIN u : index'[n] = u[i]
      /\ \A r \in complete' : Recorded(u, r) => Recorded(index', r)
  BY <1>2, <1>3, SavedIndex
<1>5. /\ \A n \in DOMAIN index' : index'[n] = c \/ (index'[n].id # e.id /\ \E i \in DOMAIN index : index'[n] = index[i])
      /\ \A r \in complete' : r # e.id /\ Recorded(index, r) => Recorded(index', r)
  BY <1>1, <1>3, <1>4
<1>6. ASSUME e.id \in complete', e.status = "completed" PROVE Recorded(index', e.id)
  <2>1. \E n \in DOMAIN u : u[n].id = e.id /\ u[n].status = "completed"
    BY <1>1, <1>3, <1>6
  <2> QED BY <1>4, <1>6, <2>1 DEF Recorded
<1> QED BY <1>0, <1>1, <1>4, <1>5, <1>6 DEF c

LEMMA PurgeRunIndexType ==
  ASSUME StoreInv, NEW e \in purge.todo, PurgeRun(e)
  PROVE  IndexType'
<1>1. tick' = tick /\ Single(tick.index)
  BY DEF PurgeRun, StoreInv, IndexType
<1>2. index' \in Seq(Entries) /\ Single(index')
  BY PurgedUpserted
<1> QED BY <1>1, <1>2 DEF IndexType, Single

\* The entry is of a run whose end is not recorded, or as it was recorded.
LEMMA PurgedEntry ==
  ASSUME StoreInv, NEW e \in purge.todo, PurgeRun(e)
  PROVE  /\ complete' \subseteq complete /\ EntrySound(e)
         /\ e.id \in complete' => e.status = "completed" /\ e.id \in Ids(index)
<1>1. complete' \subseteq (IF e.status = "running" \/ e.id \notin Indexed THEN complete \ {e.id} ELSE complete)
  BY PurgedUpserted DEF PurgeSpared
<1>2. EntrySound(e)
  BY DEF StoreInv, EntriesInv
<1>3. e.status \in Statuses
  BY PurgedUpserted DEF Entries
<1>4. ASSUME e.id \in complete' PROVE e.status = "completed" /\ e.id \in Ids(index)
  BY <1>1, <1>2, <1>3, <1>4 DEF EntrySound, Statuses, Ids, Indexed
<1> QED BY <1>1, <1>2, <1>4

LEMMA PurgeRunEntriesInv ==
  ASSUME StoreInv, NEW e \in purge.todo, PurgeRun(e)
  PROVE  EntriesInv'
<1>1. complete' \subseteq complete /\ mem' = mem /\ tick' = tick /\ purge'.todo \subseteq purge.todo
  BY PurgedEntry DEF PurgeRun, StoreInv, WritersType
<1>2. ASSUME NEW x, EntrySound(x) PROVE EntrySound(x)'
  BY <1>1, <1>2 DEF EntrySound
<1>3. \A n \in DOMAIN index' : EntrySound(index[n])'
  <2> SUFFICES ASSUME NEW n \in DOMAIN index' PROVE EntrySound(index[n])'
    OBVIOUS
  <2>1. CASE index'[n] = Entry(e.id, e.status, "clean")
    <3>1. EntrySound(e) /\ index'[n].id = e.id /\ index'[n].status = e.status
      BY <2>1, PurgedEntry DEF Entry
    <3> QED BY <1>1, <3>1 DEF EntrySound
  <2>2. CASE \E i \in DOMAIN index : index'[n] = index[i]
    BY <1>2, <2>2 DEF StoreInv, EntriesInv, EntrySound
  <2> QED BY <2>1, <2>2, PurgedUpserted
<1> QED BY <1>1, <1>2, <1>3 DEF StoreInv, EntriesInv, EntrySound

LEMMA PurgeRunHistoryInv ==
  ASSUME StoreInv, NEW e \in purge.todo, PurgeRun(e)
  PROVE  HistoryInv'
<1> SUFFICES ASSUME NEW r \in complete' PROVE Recorded(index', r)
  BY DEF HistoryInv, Recorded, Ids, Of
<1>1. CASE r # e.id
  BY <1>1, PurgedEntry, PurgedUpserted DEF StoreInv, HistoryInv
<1>2. CASE r = e.id
  <2>1. e.status = "completed"
    BY <1>2, PurgedEntry
  <2> QED BY <1>2, <2>1, PurgedUpserted
<1> QED BY <1>1, <1>2

LEMMA PurgeRunFilesInv ==
  ASSUME StoreInv, NEW e \in purge.todo, PurgeRun(e)
  PROVE  FilesInv'
<1> SUFFICES ASSUME NEW n \in DOMAIN index', index'[n].id \in complete', mem[index'[n].id] = "ended",
                    index'[n].id \notin missed, \A q \in jobs : q.run # index'[n].id
             PROVE  stored[index'[n].id].snapshot # "none"
  BY DEF PurgeRun, FilesInv
<1>1. \E i \in DOMAIN index : index[i].id = index'[n].id
  <2>1. CASE index'[n] = Entry(e.id, e.status, "clean")
    <3>1. index'[n].id = e.id
      BY <2>1 DEF Entry
    <3> QED BY <3>1, PurgedEntry DEF Ids
  <2> QED BY <2>1, PurgedUpserted
<1>2. index'[n].id \in complete
  BY PurgedEntry
<1> QED BY <1>1, <1>2 DEF StoreInv, FilesInv

LEMMA PurgeRunContentInv ==
  ASSUME StoreInv, NEW e \in purge.todo, PurgeRun(e)
  PROVE  ContentInv'
<1>0. e.id \in SRun /\ purge.at = "next" /\ purge'.at = "events" /\ purge'.run = {e.id}
  <2>1. e \in Entries
    BY PurgedUpserted
  <2> QED BY <2>1 DEF PurgeRun, Entries
<1>1. UNCHANGED <<pg, stored, late, missed>> /\ \A r \in SRun : r # e.id => privacy'[r] = privacy[r]
  BY <1>0 DEF PurgeRun, StoreInv, RunsType
<1>2. \A r \in SRun : r # e.id /\ Strict(r)' => Strict(r)
  BY <1>1 DEF Strict, Private
<1>3. ASSUME NEW r \in SRun, Strict(r)', NEW n \in DOMAIN index', index'[n].id = r, index'[n].text = "raw"
      PROVE  r \in late \cup missed
  <2>1. index'[n] # Entry(e.id, e.status, "clean")
    BY <1>3 DEF Entry
  <2>2. index'[n].id # e.id /\ \E i \in DOMAIN index : index'[n] = index[i]
    BY <2>1, PurgedUpserted
  <2> QED BY <1>2, <1>3, <2>2 DEF StoreInv, ContentInv
<1>4. ASSUME NEW r \in SRun, Strict(r)'
      PROVE  /\ stored[r].events = "raw" => (pg /\ r \in late) \/ r \in purge'.run \/ r \in missed
             /\ stored[r].snapshot = "raw" => (pg /\ r \in late) \/ r \in purge'.run \/ r \in missed
  <2>1. CASE r = e.id
    BY <1>0, <2>1
  <2>2. CASE r # e.id
    BY <1>0, <1>2, <1>4, <2>2 DEF StoreInv, ContentInv
  <2> QED BY <2>1, <2>2
<1> QED BY <1>0, <1>1, <1>3, <1>4 DEF ContentInv

-----------------------------------------------------------------------------
(* The restart. *)

\* The index as restorePersisted gives it to saveRunIndex.
Reported == [i \in DOMAIN index |-> IF index[i].status = "running" THEN [index[i] EXCEPT !.status = "failed"] ELSE index[i]]

LEMMA ReportedIs ==
  ASSUME StoreInv
  PROVE  /\ Reported \in Seq(Entries) /\ DOMAIN Reported = DOMAIN index
         /\ \A i \in DOMAIN index :
              /\ Reported[i].id = index[i].id /\ Reported[i].text = index[i].text
              /\ Reported[i].status = IF index[i].status = "running" THEN "failed" ELSE index[i].status
<1> DEFINE E(i) == IF index[i].status = "running" THEN [index[i] EXCEPT !.status = "failed"] ELSE index[i]
<1>1. index \in Seq(Entries) /\ Reported = [i \in DOMAIN index |-> E(i)]
  BY DEF StoreInv, IndexType, Reported
<1>2. \A i \in DOMAIN index : index[i] \in Entries
  BY <1>1
<1>3. \A i \in DOMAIN index :
         /\ E(i) \in Entries /\ E(i).id = index[i].id /\ E(i).text = index[i].text
         /\ E(i).status = IF index[i].status = "running" THEN "failed" ELSE index[i].status
  BY <1>2 DEF Entries, Statuses
<1> HIDE DEF E
<1>4. DOMAIN index = 1..Len(index) /\ Len(index) \in Nat
  BY <1>1
<1>5. Reported \in [1..Len(index) -> Entries]
  BY <1>1, <1>3, <1>4
<1>6. Reported \in Seq(Entries)
  BY <1>4, <1>5
<1> QED BY <1>1, <1>3, <1>6

LEMMA RestartIndex ==
  ASSUME StoreInv, Restart
  PROVE  /\ index' \in Seq(Entries) /\ Single(index') /\ complete' \subseteq complete
         /\ \A n \in DOMAIN index' : \E i \in DOMAIN index :
              /\ index'[n].id = index[i].id /\ index'[n].text = index[i].text
              /\ index'[n].status = IF index[i].status = "running" THEN "failed" ELSE index[i].status
         /\ \A r \in complete' : Recorded(Reported, r) => Recorded(index', r)
<1>1. Reported \in Seq(Entries) /\ Single(Reported)
  BY ReportedIs DEF StoreInv, IndexType, Single
<1>2. SaveIndex(Reported, complete, storeFaults + 1)
  BY DEF Restart, Reported
<1>3. /\ index' \in Seq(Entries) /\ Single(index') /\ complete' \subseteq complete
      /\ \A n \in DOMAIN index' : \E i \in DOMAIN Reported : index'[n] = Reported[i]
      /\ \A r \in complete' : Recorded(Reported, r) => Recorded(index', r)
  BY <1>1, <1>2, SavedIndex
<1> QED BY <1>3, ReportedIs

LEMMA RestartIndexType ==
  ASSUME StoreInv, Restart
  PROVE  IndexType'
<1>1. tick'.index = <<>>
  BY DEF Restart, IdleTick
<1>2. Single(tick.index)' /\ Single(index)'
  BY <1>1, RestartIndex DEF Single
<1> QED BY <1>2, RestartIndex DEF IndexType

LEMMA RestartEntriesInv ==
  ASSUME StoreInv, Restart
  PROVE  EntriesInv'
<1>1. tick'.index = <<>> /\ complete' \subseteq complete
  BY RestartIndex DEF Restart, IdleTick
<1>2. purge'.todo = {}
  BY DEF Restart, StoreInv, PurgeInv
<1>3. ASSUME NEW n \in DOMAIN index' PROVE EntrySound(index[n])'
  <2>1. PICK i \in DOMAIN index :
              /\ index'[n].id = index[i].id
              /\ index'[n].status = IF index[i].status = "running" THEN "failed" ELSE index[i].status
    BY RestartIndex
  <2>2. EntrySound(index[i]) /\ index[i].id \in SRun
    <3>1. index[i] \in Entries
      BY DEF StoreInv, IndexType
    <3> QED BY <3>1 DEF StoreInv, EntriesInv, Entries
  <2>3. mem'[index[i].id] = "gone"
    BY <2>2 DEF Restart, EntrySound
  <2>4. index[i].status = "running" => index[i].id \notin complete
    <3> SUFFICES ASSUME index[i].status = "running", index[i].id \in complete PROVE FALSE
      OBVIOUS
    <3>1. Recorded(index, index[i].id)
      BY DEF StoreInv, HistoryInv
    <3>2. \E k \in DOMAIN index : index[k].id = index[i].id /\ index[k].status = "completed"
      BY <3>1 DEF Recorded, Ids
    <3> QED BY <3>2 DEF StoreInv, IndexType, Single
  <2> QED BY <1>1, <2>1, <2>2, <2>3, <2>4 DEF EntrySound
<1> QED BY <1>1, <1>2, <1>3 DEF EntriesInv

LEMMA RestartHistoryInv ==
  ASSUME StoreInv, Restart
  PROVE  HistoryInv'
<1>1. ASSUME NEW r \in complete' PROVE Recorded(index', r)
  <2>1. Recorded(index, r)
    BY RestartIndex DEF StoreInv, HistoryInv
  <2>2. CASE \E i \in DOMAIN index : index[i].id = r /\ index[i].status = "completed"
    <3>1. PICK i \in DOMAIN index : index[i].id = r /\ index[i].status = "completed"
      BY <2>2
    <3>2. Reported[i].id = r /\ Reported[i].status = "completed" /\ i \in DOMAIN Reported
      BY <3>1, ReportedIs
    <3>3. Recorded(Reported, r)
      BY <3>2 DEF Recorded
    <3> QED BY <3>3, RestartIndex
  <2>3. CASE r \notin Ids(index) /\ Cardinality(Of(index, TenantOf[r])) = Cap
    <3>1. Ids(Reported) = Ids(index) /\ Of(Reported, TenantOf[r]) = Of(index, TenantOf[r])
      BY ReportedIs DEF Ids, Of
    <3>2. Recorded(Reported, r)
      BY <2>3, <3>1 DEF Recorded
    <3> QED BY <3>2, RestartIndex
  <2> QED BY <2>1, <2>2, <2>3 DEF Recorded
<1> QED BY <1>1 DEF HistoryInv, Recorded, Ids, Of

LEMMA RestartFilesInv ==
  ASSUME StoreInv, Restart
  PROVE  FilesInv'
<1>1. \A n \in DOMAIN index' : index'[n].id \in SRun
  <2>1. \A n \in DOMAIN index' : index'[n] \in Entries
    BY RestartIndex
  <2> QED BY <2>1 DEF Entries
<1>2. \A r \in SRun : mem'[r] # "ended"
  BY DEF Restart, StoreInv, RunsType
<1> QED BY <1>1, <1>2 DEF FilesInv

LEMMA RestartContentInv ==
  ASSUME StoreInv, Restart
  PROVE  ContentInv'
<1>1. \A r \in SRun : Strict(r)' = Strict(r)
  BY DEF Restart, Strict, Private
<1>2. UNCHANGED <<pg, stored, late, missed>> /\ (purge'.at # "cut" => purge' = purge)
  BY DEF Restart
<1>3. ASSUME NEW r \in SRun, Strict(r), NEW n \in DOMAIN index', index'[n].id = r, index'[n].text = "raw"
      PROVE  r \in late \cup missed
  <2>1. PICK i \in DOMAIN index : index'[n].id = index[i].id /\ index'[n].text = index[i].text
    BY RestartIndex
  <2> QED BY <1>3, <2>1 DEF StoreInv, ContentInv
<1> QED BY <1>1, <1>2, <1>3 DEF StoreInv, ContentInv

-----------------------------------------------------------------------------
(* The steps. *)

LEMMA StoreInvInit ==
  ASSUME StoreInit
  PROVE  StoreInv
<1>1. RunsType
  <2>1. {q \in SRun : mem[q] # "none"} = {}
    BY DEF StoreInit
  <2>2. IsFiniteSet({q \in SRun : mem[q] # "none"})
    BY <2>1, FS_EmptySet
  <2> QED BY <2>2 DEF StoreInit, RunsType, Modes, Texts, NoFiles
<1>2. WritersType
  <2>1. <<>> \in Seq(Entries)
    OBVIOUS
  <2> QED BY <2>1 DEF StoreInit, WritersType, IdleTick
<1>3. IndexType
  <2>1. <<>> \in Seq(Entries) /\ index = <<>> /\ tick.index = <<>>
    BY DEF StoreInit, IdleTick
  <2> QED BY <2>1 DEF IndexType, Single
<1>4. EntriesInv
  BY DEF StoreInit, IdleTick, EntriesInv
<1>5. JobsInv
  BY DEF StoreInit, IdleTick, JobsInv
<1>6. PurgeInv
  BY DEF StoreInit, PurgeInv
<1>7. HistoryInv
  BY DEF StoreInit, HistoryInv
<1>8. FilesInv
  BY DEF StoreInit, FilesInv
<1>9. ContentInv
  BY DEF StoreInit, ContentInv, NoFiles
<1> QED BY <1>1, <1>2, <1>3, <1>4, <1>5, <1>6, <1>7, <1>8, <1>9 DEF StoreInv

LEMMA StoreInvStutter ==
  ASSUME StoreInv, UNCHANGED storeVars
  PROVE  StoreInv'
<1>0. /\ pg' = pg /\ mem' = mem /\ privacy' = privacy /\ projectMode' = projectMode /\ index' = index
      /\ stored' = stored /\ jobs' = jobs /\ tick' = tick /\ purge' = purge /\ complete' = complete /\ late' = late
      /\ missed' = missed
  BY DEF storeVars
<1>1. RunsType' /\ WritersType' /\ IndexType'
  BY <1>0 DEF StoreInv, RunsType, WritersType, IndexType, Single
<1>2. EntriesInv' /\ JobsInv' /\ PurgeInv'
  BY <1>0 DEF StoreInv, EntriesInv, EntrySound, JobsInv, PurgeInv
<1>3. HistoryInv' /\ FilesInv'
  BY <1>0 DEF StoreInv, HistoryInv, Recorded, Ids, Of, FilesInv
<1>4. ContentInv'
  BY <1>0 DEF StoreInv, ContentInv, Strict, Private
<1> QED BY <1>1, <1>2, <1>3, <1>4 DEF StoreInv

LEMMA CreateRunKeeps ==
  ASSUME StoreInv, NEW r \in SRun, CreateRun(r)
  PROVE  StoreInv'
<1>1. WritersType' /\ IndexType' /\ JobsInv' /\ HistoryInv' /\ FilesInv'
  BY DEF StoreInv, CreateRun, WritersType, IndexType, JobsInv, HistoryInv, FilesInv
<1>2. RunsType'
  BY CreateRunRunsType
<1>3. EntriesInv'
  BY DEF StoreInv, CreateRun, EntriesInv, EntrySound
<1>4. PurgeInv'
  BY DEF StoreInv, CreateRun, PurgeInv, Mode
<1>5. ContentInv'
  BY DEF StoreInv, CreateRun, ContentInv, Mode, Strict, Private, RunsType, IndexType, JobsInv,
         EntriesInv, EntrySound, NoFiles
<1> QED BY <1>1, <1>2, <1>3, <1>4, <1>5 DEF StoreInv

LEMMA EndRunKeeps ==
  ASSUME StoreInv, NEW r \in SRun, EndRun(r)
  PROVE  StoreInv'
<1>1. RunsType' /\ IndexType' /\ PurgeInv' /\ HistoryInv'
  BY DEF StoreInv, EndRun, RunsType, IndexType, PurgeInv, HistoryInv
<1>2. WritersType'
  BY DEF StoreInv, EndRun, WritersType, Job, Sent, Text, Jobs, Texts, RunsType
<1>3. EntriesInv'
  BY DEF StoreInv, EndRun, EntriesInv, EntrySound
<1>4. JobsInv'
  BY DEF StoreInv, EndRun, JobsInv, Job, Sent, Text, RunsType
<1>5. FilesInv'
  BY EndRunFilesInv
<1>6. ContentInv'
  BY DEF StoreInv, EndRun, ContentInv, Strict, Private
<1> QED BY <1>1, <1>2, <1>3, <1>4, <1>5, <1>6 DEF StoreInv

LEMMA StepDoneKeeps ==
  ASSUME StoreInv, NEW r \in SRun, StepDone(r)
  PROVE  StoreInv'
<1>1. RunsType' /\ IndexType' /\ PurgeInv' /\ HistoryInv' /\ FilesInv'
  BY DEF StoreInv, StepDone, RunsType, IndexType, PurgeInv, HistoryInv, FilesInv
<1>2. WritersType'
  BY DEF StoreInv, StepDone, WritersType, Job, Sent, Text, Jobs, Texts, RunsType
<1>3. EntriesInv'
  BY DEF StoreInv, StepDone, EntriesInv, EntrySound
<1>4. JobsInv'
  BY DEF StoreInv, StepDone, JobsInv, Job, Sent, Text
<1>5. ContentInv'
  BY DEF StoreInv, StepDone, ContentInv, Strict, Private
<1> QED BY <1>1, <1>2, <1>3, <1>4, <1>5 DEF StoreInv

LEMMA PurgeEventsKeeps ==
  ASSUME StoreInv, NEW r \in SRun, PurgeEvents(r)
  PROVE  StoreInv'
<1>1. WritersType' /\ IndexType' /\ PurgeInv' /\ HistoryInv' /\ FilesInv'
  BY DEF StoreInv, PurgeEvents, WritersType, IndexType, PurgeInv, HistoryInv, FilesInv
<1>2. RunsType'
  BY DEF StoreInv, PurgeEvents, RunsType, Texts
<1>3. EntriesInv'
  BY DEF StoreInv, PurgeEvents, EntriesInv, EntrySound
<1>4. JobsInv'
  BY DEF StoreInv, PurgeEvents, JobsInv, NoFiles, RunsType
<1>5. ContentInv'
  BY DEF StoreInv, PurgeEvents, ContentInv, Strict, Private, RunsType, WritersType, PurgeInv
<1> QED BY <1>1, <1>2, <1>3, <1>4, <1>5 DEF StoreInv

LEMMA PurgeSnapshotKeeps ==
  ASSUME StoreInv, NEW r \in SRun, PurgeSnapshot(r)
  PROVE  StoreInv'
<1>1. IndexType' /\ HistoryInv' /\ FilesInv'
  BY DEF StoreInv, PurgeSnapshot, IndexType, HistoryInv, FilesInv
<1>2. RunsType'
  BY DEF StoreInv, PurgeSnapshot, RunsType, Texts
<1>3. WritersType'
  BY DEF StoreInv, PurgeSnapshot, WritersType
<1>4. EntriesInv'
  BY DEF StoreInv, PurgeSnapshot, EntriesInv, EntrySound
<1>5. JobsInv'
  BY DEF StoreInv, PurgeSnapshot, JobsInv, NoFiles, RunsType
<1>6. PurgeInv'
  BY DEF StoreInv, PurgeSnapshot, PurgeInv
<1>7. ContentInv'
  BY DEF StoreInv, PurgeSnapshot, ContentInv, Strict, Private, RunsType, WritersType, PurgeInv
<1> QED BY <1>1, <1>2, <1>3, <1>4, <1>5, <1>6, <1>7 DEF StoreInv

LEMMA SaveSummaryKeeps ==
  ASSUME StoreInv, NEW j \in jobs, SaveSummary(j)
  PROVE  StoreInv'
<1>1. PurgeInv'
  BY DEF StoreInv, SaveSummary, PurgeInv
<1>2. RunsType'
  <2>1. j.run \in SRun /\ complete' \subseteq SRun
    BY SummaryUpserted DEF StoreInv, RunsType, WritersType, Jobs
  <2> QED BY <2>1 DEF StoreInv, SaveSummary, RunsType, Late
<1>3. WritersType'
  BY DEF StoreInv, SaveSummary, WritersType, Advance, Sent, Text, Jobs, Texts
<1>4. IndexType'
  BY SaveSummaryIndexType
<1>5. EntriesInv'
  BY SaveSummaryEntriesInv
<1>6. JobsInv'
  BY SaveSummaryJobsInv
<1>7. HistoryInv'
  BY SaveSummaryHistoryInv
<1>8. FilesInv'
  BY SaveSummaryFilesInv
<1>9. ContentInv'
  BY SaveSummaryContentInv
<1> QED BY <1>1, <1>2, <1>3, <1>4, <1>5, <1>6, <1>7, <1>8, <1>9 DEF StoreInv

LEMMA SaveEventsKeeps ==
  ASSUME StoreInv, NEW j \in jobs, SaveEvents(j)
  PROVE  StoreInv'
<1>1. IndexType' /\ PurgeInv' /\ HistoryInv'
  BY DEF StoreInv, SaveEvents, IndexType, PurgeInv, HistoryInv
<1>2. RunsType'
  BY SaveEventsRunsType
<1>3. WritersType'
  BY DEF StoreInv, SaveEvents, WritersType, Advance, Sent, Text, Jobs, Texts
<1>4. EntriesInv'
  BY DEF StoreInv, SaveEvents, EntriesInv, EntrySound
<1>5. JobsInv'
  BY SaveEventsJobsInv
<1>6. FilesInv'
  BY SaveEventsFilesInv
<1>7. ContentInv'
  BY DEF StoreInv, SaveEvents, ContentInv, Content, Text, LateContent, Strict, Private,
         RunsType, WritersType, Jobs, PurgeInv
<1> QED BY <1>1, <1>2, <1>3, <1>4, <1>5, <1>6, <1>7 DEF StoreInv

LEMMA SaveSnapshotKeeps ==
  ASSUME StoreInv, NEW j \in jobs, SaveSnapshot(j)
  PROVE  StoreInv'
<1>1. IndexType' /\ PurgeInv' /\ HistoryInv'
  BY DEF StoreInv, SaveSnapshot, IndexType, PurgeInv, HistoryInv
<1>2. RunsType'
  BY DEF StoreInv, SaveSnapshot, RunsType, Content, Text, LateContent, Texts, WritersType, Jobs
<1>3. WritersType'
  BY DEF StoreInv, SaveSnapshot, WritersType, Advance, Sent, Text, Jobs, Texts
<1>4. EntriesInv'
  BY DEF StoreInv, SaveSnapshot, EntriesInv, EntrySound
<1>5. JobsInv'
  BY DEF StoreInv, SaveSnapshot, JobsInv, Advance, Sent, Text, RunsType
<1>6. FilesInv'
  BY DEF StoreInv, SaveSnapshot, FilesInv, Advance, Content, Text, RunsType, WritersType, Jobs,
         JobsInv
<1>7. ContentInv'
  BY DEF StoreInv, SaveSnapshot, ContentInv, Content, Text, LateContent, Strict, Private,
         RunsType, WritersType, Jobs, PurgeInv
<1> QED BY <1>1, <1>2, <1>3, <1>4, <1>5, <1>6, <1>7 DEF StoreInv

LEMMA TickStartsKeeps ==
  ASSUME StoreInv, TickStarts
  PROVE  StoreInv'
<1>1. RunsType' /\ PurgeInv' /\ HistoryInv' /\ FilesInv'
  BY DEF StoreInv, TickStarts, RunsType, PurgeInv, HistoryInv, FilesInv
<1>2. WritersType'
  BY DEF StoreInv, TickStarts, WritersType, Running
<1>3. IndexType'
  BY DEF StoreInv, TickStarts, IndexType, Single
<1>4. EntriesInv'
  BY DEF StoreInv, TickStarts, EntriesInv, EntrySound
<1>5. JobsInv'
  BY DEF StoreInv, TickStarts, JobsInv, Running
<1>6. ContentInv'
  BY DEF StoreInv, TickStarts, ContentInv, Strict, Private
<1> QED BY <1>1, <1>2, <1>3, <1>4, <1>5, <1>6 DEF StoreInv

LEMMA TickLoadsKeeps ==
  ASSUME StoreInv, TickLoads
  PROVE  StoreInv'
<1>1. RunsType' /\ IndexType' /\ JobsInv' /\ PurgeInv' /\ HistoryInv' /\ FilesInv'
  BY DEF StoreInv, TickLoads, RunsType, IndexType, JobsInv, PurgeInv, HistoryInv, FilesInv
<1>2. WritersType'
  BY DEF StoreInv, TickLoads, WritersType, IndexType
<1>3. EntriesInv'
  BY DEF StoreInv, TickLoads, EntriesInv, EntrySound
<1>4. ContentInv'
  BY DEF StoreInv, TickLoads, ContentInv, Strict, Private
<1> QED BY <1>1, <1>2, <1>3, <1>4 DEF StoreInv

LEMMA TickSavesKeeps ==
  ASSUME StoreInv, TickSaves
  PROVE  StoreInv'
<1>1. JobsInv' /\ PurgeInv'
  <2>1. complete' \subseteq complete
    BY TickMerged DEF TickSpared
  <2> QED BY <2>1 DEF StoreInv, TickSaves, JobsInv, PurgeInv
<1>2. RunsType'
  BY TickSavesRunsType
<1>3. WritersType'
  BY TickSavesWritersType
<1>4. IndexType'
  BY TickSavesIndexType
<1>5. EntriesInv'
  BY TickSavesEntriesInv
<1>6. HistoryInv'
  BY TickSavesHistoryInv
<1>7. FilesInv'
  BY TickSavesFilesInv
<1>8. ContentInv'
  BY TickSavesContentInv
<1> QED BY <1>1, <1>2, <1>3, <1>4, <1>5, <1>6, <1>7, <1>8 DEF StoreInv

LEMMA TickNextKeeps ==
  ASSUME StoreInv, TickNext
  PROVE  StoreInv'
<1>1. RunsType' /\ PurgeInv' /\ HistoryInv' /\ FilesInv'
  BY DEF StoreInv, TickNext, RunsType, PurgeInv, HistoryInv, FilesInv
<1>2. WritersType'
  BY TickNextWritersType
<1>3. IndexType'
  BY DEF StoreInv, TickNext, IndexType, IdleTick, Single, WritersType
<1>4. EntriesInv'
  BY DEF StoreInv, TickNext, EntriesInv, IdleTick, EntrySound, WritersType
<1>5. JobsInv'
  BY TickNextJobsInv
<1>6. ContentInv'
  BY DEF StoreInv, TickNext, ContentInv, Strict, Private
<1> QED BY <1>1, <1>2, <1>3, <1>4, <1>5, <1>6 DEF StoreInv

LEMMA PurgeStartsKeeps ==
  ASSUME StoreInv, PurgeStarts
  PROVE  StoreInv'
<1>1. IndexType' /\ JobsInv' /\ PurgeInv' /\ HistoryInv' /\ FilesInv'
  BY DEF StoreInv, PurgeStarts, IndexType, JobsInv, PurgeInv, HistoryInv, FilesInv
<1>2. RunsType'
  BY DEF StoreInv, PurgeStarts, RunsType, Modes
<1>3. WritersType'
  BY PurgeStartsWritersType
<1>4. EntriesInv'
  BY PurgeStartsEntriesInv
<1>5. ContentInv'
  BY DEF StoreInv, PurgeStarts, ContentInv, Strict, Private
<1> QED BY <1>1, <1>2, <1>3, <1>4, <1>5 DEF StoreInv

LEMMA PurgeDoneKeeps ==
  ASSUME StoreInv, PurgeDone
  PROVE  StoreInv'
<1>1. RunsType' /\ WritersType' /\ IndexType' /\ JobsInv' /\ PurgeInv' /\ HistoryInv' /\ FilesInv'
  BY DEF StoreInv, PurgeDone, RunsType, WritersType, IndexType, JobsInv, PurgeInv, HistoryInv,
         FilesInv
<1>2. EntriesInv'
  BY DEF StoreInv, PurgeDone, EntriesInv, EntrySound
<1>3. ContentInv'
  BY DEF StoreInv, PurgeDone, ContentInv, Strict, Private
<1> QED BY <1>1, <1>2, <1>3 DEF StoreInv

LEMMA PurgeRunKeeps ==
  ASSUME StoreInv, NEW e \in purge.todo, PurgeRun(e)
  PROVE  StoreInv'
<1>0. complete' \subseteq complete
  BY PurgedEntry
<1>1. JobsInv'
  BY <1>0 DEF StoreInv, PurgeRun, JobsInv
<1>2. RunsType'
  BY <1>0 DEF StoreInv, PurgeRun, RunsType, Modes, Entries
<1>3. WritersType'
  BY DEF StoreInv, PurgeRun, WritersType, Entries
<1>4. IndexType'
  BY PurgeRunIndexType
<1>5. EntriesInv'
  BY PurgeRunEntriesInv
<1>6. PurgeInv'
  BY DEF StoreInv, PurgeRun, PurgeInv, WritersType, Entries
<1>7. HistoryInv'
  BY PurgeRunHistoryInv
<1>8. FilesInv'
  BY PurgeRunFilesInv
<1>9. ContentInv'
  BY PurgeRunContentInv
<1> QED BY <1>1, <1>2, <1>3, <1>4, <1>5, <1>6, <1>7, <1>8, <1>9 DEF StoreInv

LEMMA SweepKeeps ==
  ASSUME StoreInv, Sweep
  PROVE  StoreInv'
<1>1. WritersType' /\ IndexType' /\ JobsInv' /\ PurgeInv' /\ HistoryInv'
  BY DEF StoreInv, Sweep, WritersType, IndexType, JobsInv, PurgeInv, HistoryInv
<1>2. RunsType'
  BY DEF StoreInv, Sweep, RunsType, NoFiles, Texts
<1>3. EntriesInv'
  BY DEF StoreInv, Sweep, EntriesInv, EntrySound
<1>4. FilesInv'
  BY DEF StoreInv, Sweep, FilesInv, Indexed, RunsType
<1>5. ContentInv'
  BY DEF StoreInv, Sweep, ContentInv, Strict, Private, NoFiles
<1> QED BY <1>1, <1>2, <1>3, <1>4, <1>5 DEF StoreInv

LEMMA QuarantineKeeps ==
  ASSUME StoreInv, Quarantine
  PROVE  StoreInv'
<1>1. RunsType' /\ WritersType' /\ JobsInv' /\ PurgeInv' /\ HistoryInv' /\ FilesInv'
  BY DEF StoreInv, Quarantine, RunsType, WritersType, JobsInv, PurgeInv, HistoryInv, FilesInv
<1>2. IndexType'
  BY DEF StoreInv, Quarantine, IndexType, Single
<1>3. EntriesInv'
  BY DEF StoreInv, Quarantine, EntriesInv, EntrySound
<1>4. ContentInv'
  BY DEF StoreInv, Quarantine, ContentInv, Strict, Private
<1> QED BY <1>1, <1>2, <1>3, <1>4 DEF StoreInv

LEMMA RestartKeeps ==
  ASSUME StoreInv, Restart
  PROVE  StoreInv'
<1>0. complete' \subseteq complete
  BY RestartIndex
<1>1. RunsType' /\ PurgeInv'
  BY <1>0 DEF StoreInv, Restart, RunsType, PurgeInv
<1>2. WritersType'
  BY DEF StoreInv, Restart, WritersType, IdleTick
<1>3. IndexType'
  BY RestartIndexType
<1>4. EntriesInv'
  BY RestartEntriesInv
<1>5. JobsInv'
  BY <1>0 DEF StoreInv, Restart, JobsInv, IdleTick, RunsType
<1>6. HistoryInv'
  BY RestartHistoryInv
<1>7. FilesInv'
  BY RestartFilesInv
<1>8. ContentInv'
  BY RestartContentInv
<1> QED BY <1>1, <1>2, <1>3, <1>4, <1>5, <1>6, <1>7, <1>8 DEF StoreInv

LEMMA SaveFailsKeeps ==
  ASSUME StoreInv, NEW j \in jobs, SaveFails(j)
  PROVE  StoreInv'
<1>0. After(j.at) \in {"events", "snapshot", "done"} /\ (j.at \in {"summary", "events"} => After(j.at) # "done")
  BY DEF StoreInv, WritersType, Jobs, After
<1>1. IndexType' /\ PurgeInv' /\ HistoryInv' /\ RunsType'
  BY DEF StoreInv, SaveFails, IndexType, PurgeInv, HistoryInv, RunsType
<1>2. WritersType'
  BY <1>0 DEF StoreInv, SaveFails, WritersType, Advance, Sent, Text, Jobs, Texts
<1>3. EntriesInv'
  BY DEF StoreInv, SaveFails, EntriesInv, EntrySound
<1>4. JobsInv'
  <2>1. CASE After(j.at) = "done"
    BY <2>1 DEF StoreInv, SaveFails, JobsInv, Advance
  <2>2. CASE After(j.at) # "done"
    <3>1. \A q \in jobs' : q \in jobs \/ (q.run = j.run /\ q.kind = j.kind /\ q.at # "summary" /\ q.text = Sent(j.run))
      BY <1>0, <2>2, JobGoesOn DEF SaveFails
    <3> QED BY <3>1 DEF StoreInv, SaveFails, JobsInv, Sent, Text
  <2> QED BY <2>1, <2>2
<1>5. FilesInv'
  BY DEF StoreInv, SaveFails, Refused, FilesInv, Advance
<1>6. ContentInv'
  BY DEF StoreInv, SaveFails, Refused, ContentInv, Strict, Private
<1> QED BY <1>1, <1>2, <1>3, <1>4, <1>5, <1>6 DEF StoreInv

LEMMA TickSaveFailsKeeps ==
  ASSUME StoreInv, TickSaveFails
  PROVE  StoreInv'
<1>1. RunsType' /\ PurgeInv' /\ HistoryInv'
  BY DEF StoreInv, TickSaveFails, RunsType, PurgeInv, HistoryInv
<1>2. FilesInv' /\ ContentInv'
  BY DEF StoreInv, TickSaveFails, Refused, FilesInv, ContentInv, Strict, Private
<1>3. tick' \in [at : {"idle", "load", "save", "runs"}, runs : SUBSET SRun, raw : SUBSET SRun, index : Seq(Entries)]
      /\ tick'.runs = tick.runs /\ tick'.index = <<>>
  <2>1. <<>> \in Seq(Entries)
    OBVIOUS
  <2> QED BY <2>1 DEF TickSaveFails, StoreInv, WritersType
<1>4. WritersType' /\ JobsInv'
  BY <1>3 DEF TickSaveFails, StoreInv, WritersType, JobsInv
<1>5. IndexType'
  BY <1>3 DEF TickSaveFails, StoreInv, IndexType, Single
<1>6. EntriesInv'
  BY <1>3 DEF TickSaveFails, StoreInv, EntriesInv, EntrySound
<1> QED BY <1>1, <1>2, <1>4, <1>5, <1>6 DEF StoreInv

LEMMA PurgeRunFailsKeeps ==
  ASSUME StoreInv, NEW e \in purge.todo, PurgeRunFails(e)
  PROVE  StoreInv'
<1>0. e \in Entries /\ e.id \in SRun /\ purge' = [at |-> "events", todo |-> purge.todo \ {e}, run |-> {e.id}]
  BY DEF StoreInv, WritersType, Entries, PurgeRunFails
<1>1. JobsInv' /\ IndexType' /\ HistoryInv'
  BY DEF StoreInv, PurgeRunFails, JobsInv, IndexType, HistoryInv
<1>2. RunsType' /\ WritersType'
  BY <1>0 DEF StoreInv, PurgeRunFails, RunsType, WritersType, Modes
<1>3. EntriesInv'
  BY <1>0 DEF StoreInv, PurgeRunFails, EntriesInv, EntrySound
<1>4. PurgeInv'
  BY <1>0 DEF StoreInv, PurgeRunFails, PurgeInv
<1>5. FilesInv'
  BY DEF StoreInv, PurgeRunFails, Refused, FilesInv
<1>6. ContentInv'
  <2>1. /\ UNCHANGED <<pg, stored, late, index>> /\ missed' = missed \cup {e.id} /\ purge.at = "next"
        /\ \A r \in SRun : r # e.id => privacy'[r] = privacy[r]
    BY <1>0 DEF PurgeRunFails, Refused, StoreInv, RunsType
  <2>2. \A r \in SRun : Strict(r)' => r = e.id \/ Strict(r)
    BY <2>1 DEF Strict, Private
  <2> QED BY <1>0, <2>1, <2>2 DEF StoreInv, ContentInv
<1> QED BY <1>1, <1>2, <1>3, <1>4, <1>5, <1>6 DEF StoreInv

LEMMA PurgeWriteFailsKeeps ==
  ASSUME StoreInv, PurgeWriteFails
  PROVE  StoreInv'
<1>1. JobsInv' /\ IndexType' /\ HistoryInv' /\ RunsType'
  BY DEF StoreInv, PurgeWriteFails, JobsInv, IndexType, HistoryInv, RunsType
<1>2. WritersType'
  BY DEF StoreInv, PurgeWriteFails, WritersType
<1>3. EntriesInv'
  BY DEF StoreInv, PurgeWriteFails, EntriesInv, EntrySound, WritersType
<1>4. PurgeInv'
  BY DEF StoreInv, PurgeWriteFails, PurgeInv, WritersType
<1>5. FilesInv'
  BY DEF StoreInv, PurgeWriteFails, Refused, FilesInv
<1>6. ContentInv'
  BY DEF StoreInv, PurgeWriteFails, Refused, ContentInv, Strict, Private, WritersType, PurgeInv
<1> QED BY <1>1, <1>2, <1>3, <1>4, <1>5, <1>6 DEF StoreInv

LEMMA PurgeThrowsKeeps ==
  ASSUME StoreInv, PurgeThrows
  PROVE  StoreInv'
<1>1. JobsInv' /\ IndexType' /\ HistoryInv' /\ RunsType' /\ WritersType'
  BY DEF StoreInv, PurgeThrows, JobsInv, IndexType, HistoryInv, RunsType, WritersType
<1>2. EntriesInv' /\ PurgeInv'
  BY DEF StoreInv, PurgeThrows, EntriesInv, EntrySound, PurgeInv
<1>3. FilesInv' /\ ContentInv'
  BY DEF StoreInv, PurgeThrows, Refused, FilesInv, ContentInv, Strict, Private
<1> QED BY <1>1, <1>2, <1>3 DEF StoreInv

LEMMA StoreInvNext ==
  ASSUME StoreInv, StoreNext
  PROVE  StoreInv'
<1>1. CASE \E r \in SRun : CreateRun(r) \/ EndRun(r) \/ StepDone(r) \/ PurgeEvents(r) \/ PurgeSnapshot(r)
  BY <1>1, CreateRunKeeps, EndRunKeeps, StepDoneKeeps, PurgeEventsKeeps, PurgeSnapshotKeeps
<1>2. CASE \E j \in jobs : SaveSummary(j) \/ SaveEvents(j) \/ SaveSnapshot(j) \/ SaveFails(j)
  BY <1>2, SaveSummaryKeeps, SaveEventsKeeps, SaveSnapshotKeeps, SaveFailsKeeps
<1>3. CASE TickStarts \/ TickLoads \/ TickSaves \/ TickSaveFails \/ TickNext
  BY <1>3, TickStartsKeeps, TickLoadsKeeps, TickSavesKeeps, TickSaveFailsKeeps, TickNextKeeps
<1>4. CASE \/ PurgeStarts \/ PurgeDone \/ \E e \in purge.todo : PurgeRun(e) \/ PurgeRunFails(e)
           \/ PurgeWriteFails \/ PurgeThrows
  BY <1>4, PurgeStartsKeeps, PurgeDoneKeeps, PurgeRunKeeps, PurgeRunFailsKeeps, PurgeWriteFailsKeeps,
     PurgeThrowsKeeps
<1>5. CASE Sweep \/ Quarantine \/ Restart
  BY <1>5, SweepKeeps, QuarantineKeeps, RestartKeeps
<1> QED BY <1>1, <1>2, <1>3, <1>4, <1>5 DEF StoreNext

\* The invariant gives what the store promises.
LEMMA StoreInvKeeps ==
  ASSUME StoreInv
  PROVE  StoreKept
<1>1. StoreTypeOK
  <2>1. \A i \in DOMAIN index : index[i] \in Entries
    BY DEF StoreInv, IndexType
  <2>2. \A i \in DOMAIN index : index[i].id \in SRun /\ index[i].status \in {"running", "completed", "failed"}
    BY <2>1 DEF Entries, Statuses
  <2> QED BY <2>2 DEF StoreInv, WritersType, Jobs, StoreTypeOK
<1>2. HistoryKept
  BY DEF StoreInv, HistoryInv, Recorded, Ids, Of, HistoryKept, Indexed
<1>3. FilesKept
  BY DEF StoreInv, FilesInv, FilesKept, Indexed
<1>4. RetentionObeyed
  BY DEF StoreInv, ContentInv, Strict, RetentionObeyed
<1> QED BY <1>1, <1>2, <1>3, <1>4 DEF StoreKept

\* persistence.js and privacy.js promise of the store: the recorded end of a run
\* stays listed until its own tenant has Cap newer ones, what was saved of a listed
\* run stays, and after a purge no content is left but by the writers StoreKept
\* names, whatever saves, ticks, purges, sweeps, damages and restarts interleave.
THEOREM StoreKeptAlways == EventsSpec => []StoreKept
<1>1. EventsInit => StoreInv
  BY StoreInvInit DEF EventsInit
<1>2. StoreInv /\ [EventsNext]_<<streamVars, viewVars, storeVars, part>> => StoreInv'
  <2> SUFFICES ASSUME StoreInv, [EventsNext]_<<streamVars, viewVars, storeVars, part>> PROVE StoreInv'
    OBVIOUS
  <2>1. StoreNext \/ UNCHANGED storeVars
    BY DEF EventsNext
  <2> QED BY <2>1, StoreInvNext, StoreInvStutter
<1>3. StoreInv => StoreKept
  BY StoreInvKeeps
<1> QED BY <1>1, <1>2, <1>3, PTL DEF EventsSpec
=============================================================================
