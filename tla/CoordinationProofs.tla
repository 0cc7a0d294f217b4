-------------------------- MODULE CoordinationProofs --------------------------
(***************************************************************************)
(* Proofs about the parts that coordinate instances with each other (Locks, *)
(* RateLimit, Startup, Webhooks) and about the in-memory queue, for every  *)
(* number of processes, workers, jobs, requests and events and for every   *)
(* bound.  Each part has an inductive invariant of its own.                *)
(***************************************************************************)
EXTENDS MCCoordination, FiniteSetTheorems, TLAPS

-----------------------------------------------------------------------------
(* The run lock. *)

\* Nobody has come as far as the lock while redis is being probed or cannot be
\* reached, and only a failed script of redis leaves a write to come late.
ReachInv ==
    \A w \in Worker :
        /\ coord \in {"probing", "degraded"}
             => work[w] \notin {"trying", "free", "working", "releasing"}
        /\ work[w] = "free" => coord = "local"
        /\ late[w] # "no" => coord = "redis"

\* Who works holds the key of its store, unless its lease is gone.
HeldInv == \A w \in Worker : work[w] = "working" => Holds(w) \/ w \in gone

\* The in-flight key of a process: of two deliveries to it at most one is
\* started and not settled; and who tries for a lock in memory is not settled.
InFlightInv ==
    /\ \A v, w \in Worker :
          v # w /\ ServerOf[v] = ServerOf[w]
          => work[v] = "new" \/ settled[v] \/ work[w] = "new" \/ settled[w]
    /\ \A w \in Worker :
          work[w] = "new" \/ (coord = "local" /\ work[w] \in {"trying", "free"}) => ~settled[w]

\* Who found the key free in memory and has not written it yet is not ahead of
\* a worker that still has its lease.
FoundFreeInv ==
    \A v, w \in Worker :
        work[w] = "free" /\ work[v] = "working" /\ ServerOf[v] = ServerOf[w] => v \in gone

LockInv == LockTypeOK /\ ReachInv /\ HeldInv /\ InFlightInv /\ FoundFreeInv

\* No lock is held at first.
LEMMA LockInvInit == LockInit => LockInv
<1> SUFFICES ASSUME LockInit PROVE LockInv
  OBVIOUS
<1>1. \A w \in Worker : work[w] = "new" /\ late[w] = "no" /\ settled[w] = FALSE
  BY DEF LockInit
<1>2. LockTypeOK
  BY LocksAssumption DEF LockInit, LockTypeOK, Place
<1>3. ReachInv /\ HeldInv /\ InFlightInv /\ FoundFreeInv
  BY <1>1 DEF ReachInv, HeldInv, InFlightInv, FoundFreeInv
<1> QED BY <1>2, <1>3 DEF LockInv

\* Workers and the keys they hold: a worker is never the absent one.
LEMMA StoreTyped ==
  ASSUME LockTypeOK, NEW w \in Worker
  PROVE  /\ StoreOf(w) \in Server \cup {Redis} /\ ServerOf[w] \in Server /\ ServerOf[w] # Redis
         /\ w # NoWorker
  BY LocksAssumption DEF StoreOf, Redis

\* Every action of a worker keeps the types.
LEMMA WorkerTyped ==
  ASSUME LockInv, NEW w \in Worker, WorkerStepL(w)
  PROVE  LockTypeOK'
<1> USE DEF LockInv, LockTypeOK, Place, Move, Settle, LockFault, Bounds
<1>1. /\ StoreOf(w) \in Server \cup {Redis} /\ ServerOf[w] \in Server \cup {Redis}
      /\ Redis \in Server \cup {Redis}
  BY StoreTyped
<1>2. CASE Deliver(w)
  BY <1>2 DEF Deliver
<1>3. CASE CoordinationKnown(w)
  BY <1>3 DEF CoordinationKnown
<1>4. CASE RenewFails(w)
  BY <1>4 DEF RenewFails
<1>5. CASE JobTimesOut(w) \/ JobReturns(w)
  BY <1>5 DEF JobTimesOut, JobReturns
<1>6. CASE Acquire(w)
  BY <1>1, <1>6 DEF Acquire
<1>7. CASE MemoryGet(w) 
  BY <1>1, <1>7 DEF MemoryGet
<1>8. CASE MemorySet(w)
  BY <1>1, <1>8 DEF MemorySet
<1>9. ASSUME NEW applied \in BOOLEAN, AcquireFails(w, applied) PROVE LockTypeOK'
  BY <1>1, <1>9 DEF AcquireFails
<1>10. CASE Release(w)
  BY <1>1, <1>10 DEF Release
<1>11. CASE FallbackReads(w)
  BY <1>1, <1>11 DEF FallbackReads
<1>12. CASE FallbackWrites(w)
  BY <1>1, <1>12 DEF FallbackWrites
<1> QED BY <1>2, <1>3, <1>4, <1>5, <1>6, <1>7, <1>8, <1>9, <1>10, <1>11, <1>12 DEF WorkerStepL

\* A worker's step leaves the other workers where they are, moves its own on,
\* and forgets neither a settlement nor a lost lease.
LEMMA WorkerMoves ==
  ASSUME LockInv, NEW w \in Worker, WorkerStepL(w)
  PROVE  /\ \A v \in Worker \ {w} : /\ work'[v] = work[v] /\ late'[v] = late[v]
                                    /\ settled'[v] = settled[v]
         /\ coord' = coord /\ gone \subseteq gone' /\ (settled[w] => settled'[w])
         /\ work'[w] = "new" => work[w] = "new" /\ settled'[w] = settled[w]
<1>1. /\ work \in [Worker -> Place] /\ late \in [Worker -> {"no", "renew", "delete"}]
      /\ settled \in [Worker -> BOOLEAN]
  BY DEF LockInv, LockTypeOK
<1> USE <1>1 DEF Move, Settle, Place
<1>2. CASE Deliver(w) \/ CoordinationKnown(w)
  BY <1>2 DEF Deliver, CoordinationKnown, KeyFree, Bounds
<1>3. CASE Acquire(w) \/ MemoryGet(w) \/ MemorySet(w)
  BY <1>3 DEF Acquire, MemoryGet, MemorySet, Bounds
<1>4. ASSUME NEW applied \in BOOLEAN, AcquireFails(w, applied)
      PROVE  /\ work' = [work EXCEPT ![w] = "busy"]
             /\ settled' = [settled EXCEPT ![w] = TRUE]
             /\ late' = late /\ coord' = coord /\ gone' = gone
  BY <1>4 DEF AcquireFails, Bounds
<1>5. CASE RenewFails(w) \/ JobTimesOut(w) \/ JobReturns(w) \/ Release(w)
  BY <1>5 DEF RenewFails, JobTimesOut, JobReturns, Release, Bounds
<1>6. CASE FallbackReads(w)
  BY <1>6 DEF FallbackReads
<1>7. CASE FallbackWrites(w)
  BY <1>7 DEF FallbackWrites, Bounds
<1> QED BY <1>2, <1>3, <1>4, <1>5, <1>6, <1>7 DEF WorkerStepL

\* How far a worker comes with each state of the coordination.
LEMMA WorkerReach ==
  ASSUME LockInv, NEW w \in Worker, WorkerStepL(w)
  PROVE  ReachInv'
<1>t. work \in [Worker -> Place] /\ late \in [Worker -> {"no", "renew", "delete"}]
  BY DEF LockInv, LockTypeOK
<1>r. ReachInv
  BY DEF LockInv
<1>1. /\ coord \in {"probing", "degraded"} => work'[w] \notin {"trying", "free", "working", "releasing"}
      /\ work'[w] = "free" => coord = "local"
      /\ late'[w] # "no" => coord = "redis"
  <2> USE <1>t, <1>r DEF Move, ReachInv
  <2>1. CASE Deliver(w)
    BY <2>1 DEF Deliver
  <2>2. CASE CoordinationKnown(w)
    BY <2>2 DEF CoordinationKnown
  <2>3. CASE Acquire(w) \/ \E applied \in BOOLEAN : AcquireFails(w, applied)
    BY <2>3 DEF Acquire, AcquireFails
  <2>4. CASE MemoryGet(w)
    BY <2>4 DEF MemoryGet
  <2>5. CASE MemorySet(w)
    BY <2>5 DEF MemorySet
  <2>6. CASE RenewFails(w) \/ JobTimesOut(w)
    BY <2>6 DEF RenewFails, JobTimesOut
  <2>7. CASE JobReturns(w) \/ Release(w)
    BY <2>7 DEF JobReturns, Release
  <2>8. CASE FallbackReads(w)
    BY <2>8 DEF FallbackReads
  <2>9. CASE FallbackWrites(w)
    BY <2>9 DEF FallbackWrites
  <2> QED BY <2>1, <2>2, <2>3, <2>4, <2>5, <2>6, <2>7, <2>8, <2>9 DEF WorkerStepL
<1> QED BY <1>r, <1>1, WorkerMoves DEF ReachInv

\* A worker's step takes the key of another one only when its lease ran out or
\* is marked as gone by the step.
LEMMA WorkerHeld ==
  ASSUME LockInv, NEW w \in Worker, WorkerStepL(w)
  PROVE  HeldInv'
<1>t. /\ work \in [Worker -> Place] /\ held \in [Server \cup {Redis} -> Worker \cup {NoWorker}]
      /\ ServerOf[w] \in Server \cup {Redis} /\ Redis \in Server \cup {Redis}
  BY StoreTyped DEF LockInv, LockTypeOK
<1>r. ReachInv /\ HeldInv
  BY DEF LockInv
<1>m. coord' = coord /\ gone \subseteq gone' /\ \A v \in Worker \ {w} : work'[v] = work[v]
  BY WorkerMoves
<1> SUFFICES ASSUME NEW v \in Worker, work'[v] = "working"
             PROVE  held'[StoreOf(v)] = v \/ v \in gone'
  BY <1>m DEF HeldInv, Holds, StoreOf
<1>v. /\ StoreOf(v) \in Server \cup {Redis} /\ ServerOf[v] \in Server \cup {Redis}
      /\ v # NoWorker /\ w # NoWorker /\ ServerOf[v] # Redis
  BY StoreTyped DEF LockInv
<1>o. v # w => work[v] = "working" /\ (held[StoreOf(v)] = v \/ v \in gone)
  BY <1>r, <1>m DEF HeldInv, Holds
<1> HIDE DEF StoreOf
<1>1. CASE held' = held /\ work'[w] = work[w]
  BY <1>1, <1>m, <1>r DEF HeldInv, Holds
<1>2. CASE held' = held /\ work'[w] # "working"
  BY <1>2, <1>m, <1>o
<1>3. CASE Acquire(w)
  <2>1. \/ held[Redis] = NoWorker /\ held' = [held EXCEPT ![Redis] = w] /\ coord = "redis"
        \/ held' = held /\ work'[w] = "busy"
    BY <1>t, <1>3 DEF Acquire, Move
  <2> QED BY <2>1, <1>2, <1>t, <1>v, <1>o, <1>m DEF StoreOf
<1>4. CASE MemorySet(w)
  <2>1. work[w] = "free" /\ held' = [held EXCEPT ![ServerOf[w]] = w] /\ coord = "local"
    BY <1>r, <1>4 DEF MemorySet, Move, ReachInv
  <2>2. v # w /\ ServerOf[v] = ServerOf[w] => v \in gone
    BY <2>1, <1>o DEF LockInv, FoundFreeInv
  <2> QED BY <2>1, <2>2, <1>t, <1>v, <1>o, <1>m DEF StoreOf
<1>5. ASSUME NEW applied \in BOOLEAN, AcquireFails(w, applied)
      PROVE  held'[StoreOf(v)] = v \/ v \in gone'
  <2>1. /\ work'[w] = "busy"
        /\ held' = held \/ (held[Redis] = NoWorker /\ held' = [held EXCEPT ![Redis] = w])
    BY <1>t, <1>5 DEF AcquireFails, Move
  <2> QED BY <2>1, <1>t, <1>v, <1>o, <1>m
<1>6. CASE Release(w)
  <2>1. /\ work'[w] = "done"
        /\ held' = held \/ (Holds(w) /\ held' = [held EXCEPT ![StoreOf(w)] = NoWorker])
    BY <1>t, <1>6 DEF Release, Move
  <2> QED BY <2>1, <1>t, <1>v, <1>o, <1>m DEF Holds
<1>7. CASE FallbackWrites(w)
  <2>1. late[w] # "no" /\ coord = "redis" /\ StoreOf(v) = Redis /\ StoreOf(w) = Redis
    BY <1>7, <1>r DEF FallbackWrites, ReachInv, StoreOf
  <2>2. /\ gone' = gone \cup {u \in Worker \ {w} : held[Redis] = u /\ work[u] = "working"}
        /\ \/ held' = [held EXCEPT ![Redis] = w]
           \/ held' = [held EXCEPT ![Redis] = NoWorker] /\ work'[w] = "done"
    BY <1>7, <1>t DEF FallbackWrites, Move
  <2> QED BY <2>1, <2>2, <1>t, <1>v, <1>o, <1>m
<1>8. CASE Deliver(w) \/ CoordinationKnown(w) \/ JobReturns(w) \/ MemoryGet(w)
  <2>1. held' = held /\ work'[w] # "working"
    BY <1>t, <1>8 DEF Deliver, CoordinationKnown, JobReturns, MemoryGet, Move
  <2> QED BY <2>1, <1>2
<1>9. CASE RenewFails(w) \/ JobTimesOut(w) \/ FallbackReads(w)
  BY <1>1, <1>9 DEF RenewFails, JobTimesOut, FallbackReads
<1> QED BY <1>3, <1>4, <1>5, <1>6, <1>7, <1>8, <1>9 DEF WorkerStepL

\* Nobody starts beside an unsettled delivery to the same process.
LEMMA WorkerInFlight ==
  ASSUME LockInv, NEW w \in Worker, WorkerStepL(w)
  PROVE  InFlightInv'
<1>t. work \in [Worker -> Place] /\ settled \in [Worker -> BOOLEAN]
  BY DEF LockInv, LockTypeOK
<1>r. InFlightInv
  BY DEF LockInv
<1>m. /\ coord' = coord /\ (settled[w] => settled'[w])
      /\ work'[w] = "new" => work[w] = "new" /\ settled'[w] = settled[w]
      /\ \A v \in Worker \ {w} : work'[v] = work[v] /\ settled'[v] = settled[v]
  BY WorkerMoves
<1>1. CASE Deliver(w)
  <2>1. /\ \A v \in Worker : ServerOf[v] = ServerOf[w] => work[v] = "new" \/ settled[v]
        /\ settled' = settled /\ ~settled[w]
    BY <1>1, <1>r DEF Deliver, KeyFree, InFlightInv
  <2> QED BY <2>1, <1>m, <1>r DEF InFlightInv
<1>2. CASE ~Deliver(w)
  <2>1. work'[w] = "new" <=> work[w] = "new"
    BY <1>2, <1>m, <1>t DEF WorkerStepL, CoordinationKnown, Acquire, MemoryGet, MemorySet, AcquireFails,
       RenewFails, JobTimesOut, JobReturns, Release, FallbackReads, FallbackWrites, Move
  <2>2. coord = "local" /\ work'[w] \in {"trying", "free"} =>
           work[w] \in {"trying", "free"} /\ settled'[w] = settled[w]
    BY <1>2, <1>t DEF WorkerStepL, CoordinationKnown, Acquire, MemoryGet, MemorySet, AcquireFails,
       RenewFails, JobTimesOut, JobReturns, Release, FallbackReads, FallbackWrites, Move
  <2> QED BY <2>1, <2>2, <1>m, <1>r DEF InFlightInv
<1> QED BY <1>1, <1>2

\* Who finds the key free in memory finds it when the leases of all who work in
\* the process are gone, and nobody begins to work before it does.
LEMMA WorkerFoundFree ==
  ASSUME LockInv, NEW w \in Worker, WorkerStepL(w)
  PROVE  FoundFreeInv'
<1>t. /\ work \in [Worker -> Place] /\ settled \in [Worker -> BOOLEAN]
      /\ ServerOf[w] \in Server /\ w # NoWorker
  BY StoreTyped DEF LockInv, LockTypeOK
<1>r. ReachInv /\ HeldInv /\ InFlightInv /\ FoundFreeInv
  BY DEF LockInv
<1>m. gone \subseteq gone' /\ \A v \in Worker \ {w} : work'[v] = work[v]
  BY WorkerMoves
<1>1. work'[w] = "free" => work[w] = "free" \/ MemoryGet(w)
  BY <1>t DEF WorkerStepL, Deliver, CoordinationKnown, Acquire, MemorySet, AcquireFails,
     RenewFails, JobTimesOut, JobReturns, Release, FallbackReads, FallbackWrites, Move
<1>2. work'[w] = "working" => work[w] = "working" \/ work[w] = "free" \/ coord = "redis"
  BY <1>t DEF WorkerStepL, Deliver, CoordinationKnown, Acquire, MemoryGet, MemorySet, AcquireFails,
     RenewFails, JobTimesOut, JobReturns, Release, FallbackReads, FallbackWrites, Move
<1>3. ASSUME NEW v \in Worker, NEW u \in Worker, ServerOf[v] = ServerOf[u], v # u,
             work'[u] = "free", work'[v] = "working"
      PROVE  v \in gone'
  <2>1. CASE u # w /\ v # w
    BY <1>3, <2>1, <1>m, <1>r DEF FoundFreeInv
  <2>2. CASE u = w
    <3>1. CASE work[w] = "free"
      BY <1>3, <2>2, <3>1, <1>m, <1>r DEF FoundFreeInv
    <3>2. CASE MemoryGet(w)
      <4>1. coord = "local" /\ held[ServerOf[v]] = NoWorker
        BY <1>3, <2>2, <3>2, <1>t DEF MemoryGet, Move
      <4>2. held[StoreOf(v)] # v
        BY <4>1, StoreTyped DEF StoreOf, LockInv
      <4> QED BY <1>3, <2>2, <4>2, <1>m, <1>r DEF HeldInv, Holds
    <3> QED BY <1>3, <2>2, <3>1, <3>2, <1>1
  <2>3. CASE v = w
    <3>1. work[u] = "free" /\ coord = "local" /\ ~settled[u]
      BY <1>3, <2>3, <1>m, <1>r DEF ReachInv, InFlightInv
    <3>2. CASE work[w] = "free"
      BY <1>3, <2>3, <3>1, <3>2, <1>r DEF InFlightInv
    <3>3. CASE work[w] = "working"
      BY <1>3, <2>3, <3>1, <3>3, <1>m, <1>r DEF FoundFreeInv
    <3> QED BY <1>3, <2>3, <3>1, <3>2, <3>3, <1>2
  <2> QED BY <1>3, <2>1, <2>2, <2>3
<1> QED BY <1>3 DEF FoundFreeInv

\* The invariant of the lock is kept by every step.
LEMMA LockInvStep == LockInv /\ [LockNext]_lockVars => LockInv'
<1> SUFFICES ASSUME LockInv, [LockNext]_lockVars PROVE LockInv'
  OBVIOUS
<1>t. LockTypeOK /\ ReachInv /\ HeldInv /\ InFlightInv /\ FoundFreeInv
  BY DEF LockInv
<1>1. ASSUME NEW w \in Worker, WorkerStepL(w) PROVE LockInv'
  BY <1>1, WorkerTyped, WorkerReach, WorkerHeld, WorkerInFlight, WorkerFoundFree DEF LockInv
<1>2. CASE ProbeEnds
  <2>1. /\ coord = "probing" /\ coord' \in {"redis", "degraded"}
        /\ work' = work /\ held' = held /\ late' = late /\ settled' = settled /\ gone' = gone
    BY <1>2 DEF ProbeEnds
  <2>2. LockTypeOK'
    BY <1>2, <1>t DEF ProbeEnds, LockTypeOK, Bounds
  <2>3. \A w \in Worker : /\ work[w] \notin {"trying", "free", "working", "releasing"}
                          /\ late[w] = "no"
    BY <1>t, <2>1 DEF ReachInv
  <2>4. ReachInv' /\ HeldInv' /\ InFlightInv' /\ FoundFreeInv'
    BY <1>t, <2>1, <2>3 DEF ReachInv, HeldInv, InFlightInv, FoundFreeInv
  <2> QED BY <2>2, <2>4 DEF LockInv
<1>3. ASSUME NEW s \in Server \cup {Redis}, Expire(s) PROVE LockInv'
  <2>1. /\ coord' = coord /\ work' = work /\ late' = late /\ settled' = settled /\ gone \subseteq gone'
        /\ held' = [held EXCEPT ![s] = NoWorker]
        /\ held[s] # NoWorker /\ work[held[s]] = "working" => held[s] \in gone'
    BY <1>3 DEF Expire
  <2>2. LockTypeOK'
    BY <1>3, <1>t DEF Expire, LockTypeOK
  <2>3. ReachInv' /\ InFlightInv' /\ FoundFreeInv'
    BY <1>t, <2>1 DEF ReachInv, InFlightInv, FoundFreeInv
  <2>4. ASSUME NEW w \in Worker, work'[w] = "working" PROVE held'[StoreOf(w)] = w \/ w \in gone'
    BY <1>t, <2>1, <2>4, StoreTyped DEF HeldInv, Holds, LockTypeOK
  <2>5. HeldInv'
    BY <2>1, <2>4 DEF HeldInv, Holds, StoreOf
  <2> QED BY <2>2, <2>3, <2>5 DEF LockInv
<1>4. ASSUME NEW p \in Server, ServerCrash(p) PROVE LockInv'
  <2>1. /\ coord' = coord /\ late' = late /\ gone' = gone
        /\ held' = [held EXCEPT ![p] = NoWorker]
        /\ \A w \in Worker : /\ \/ work'[w] = work[w]
                                \/ work'[w] = "dead" /\ ServerOf[w] = p /\ work[w] # "new"
                             /\ settled[w] => settled'[w]
                             /\ work[w] = "new" \/ ServerOf[w] # p => (settled'[w] => settled[w])
                             /\ work'[w] \in {"trying", "free", "working"} => ServerOf[w] # p
    BY <1>4, <1>t DEF ServerCrash, Ended, LockTypeOK, Place
  <2>2. LockTypeOK'
    BY <1>4, <1>t DEF ServerCrash, LockTypeOK, Place, Ended
  <2>3. ReachInv' /\ FoundFreeInv'
    BY <1>t, <2>1 DEF ReachInv, FoundFreeInv
  <2>4. InFlightInv'
    BY <1>t, <2>1 DEF InFlightInv
  <2>5. ASSUME NEW w \in Worker, work'[w] = "working" PROVE held'[StoreOf(w)] = w \/ w \in gone'
    <3>1. work[w] = "working" /\ StoreOf(w) # p
      BY <2>1, <2>5, StoreTyped, LocksAssumption, <1>t DEF StoreOf, Redis
    <3> QED BY <1>t, <2>1, <2>5, <3>1, StoreTyped DEF HeldInv, Holds, LockTypeOK
  <2>6. HeldInv'
    BY <2>1, <2>5 DEF HeldInv, Holds, StoreOf
  <2> QED BY <2>2, <2>3, <2>4, <2>6 DEF LockInv
<1>5. CASE UNCHANGED lockVars
  BY <1>5, <1>t DEF lockVars, LockInv, LockTypeOK, ReachInv, HeldInv, InFlightInv, FoundFreeInv,
                     Holds, StoreOf
<1> QED BY <1>1, <1>2, <1>3, <1>4, <1>5 DEF LockNext

\* "exactly one worker runs a run at a time, even across API instances": the
\* invariant says who holds the key of a store, and a key has one holder.
LEMMA LockInvFences == LockInv => LockTypeOK /\ FencedByLease
  BY DEF LockInv, HeldInv, FencedByLease, Holds
-----------------------------------------------------------------------------
(* The shared rate limit. *)

Expiring == {r \in RReq : req[r] = "expire"}

\* One request at a time is about to give the window its end, while the window
\* has none; every admitted request and this one have a count of their own.
RateInv ==
    /\ RateTypeOK /\ IsFiniteSet(admitted)
    /\ \A r, q \in Expiring : r = q
    /\ Expiring # {} => /\ counter.count > 0 /\ ~counter.ttl
                        /\ Cardinality(admitted) + 1 <= counter.count
                        /\ Cardinality(admitted) + 1 <= Limit
    /\ counter.ttl => counter.count > 0
    /\ Cardinality(admitted) <= counter.count /\ Cardinality(admitted) <= Limit
    /\ counter.count > 0 /\ ~counter.ttl /\ rateFaults = 0 => Expiring # {}

\* No request was counted at first.
LEMMA RateInvInit == RateInit => RateInv
<1> SUFFICES ASSUME RateInit PROVE RateInv
  OBVIOUS
<1>1. Expiring = {} /\ admitted = {} /\ counter.count = 0 /\ counter.ttl = FALSE
      /\ Cardinality(admitted) = 0
      /\ IsFiniteSet(admitted)
  BY FS_EmptySet DEF RateInit, Expiring
<1>2. RateTypeOK
  BY RateLimitAssumption DEF RateInit, RateTypeOK, RPlaces
<1> QED BY <1>1, <1>2, RateLimitAssumption DEF RateInv

\* A request is admitted at most once.
LEMMA AdmitOne ==
  ASSUME IsFiniteSet(admitted), NEW r
  PROVE  /\ IsFiniteSet(admitted \cup {r})
         /\ Cardinality(admitted \cup {r}) \in Nat /\ Cardinality(admitted) \in Nat
         /\ Cardinality(admitted \cup {r}) <= Cardinality(admitted) + 1
  BY FS_AddElement, FS_CardinalityType

\* A request that moves leaves the others at EXPIRE that were there.
LEMMA ExpiringMoves ==
  ASSUME RateTypeOK, NEW r \in RReq, NEW from, NEW to, Goes(r, from, to)
  PROVE  /\ from # "expire" /\ to # "expire" => Expiring' = Expiring
         /\ from # "expire" /\ to = "expire" => Expiring' = Expiring \cup {r}
         /\ from = "expire" /\ to # "expire" => r \in Expiring /\ Expiring' = Expiring \ {r}
  BY DEF Goes, Expiring, RateTypeOK

\* INCR: the request takes a count of its own.
LEMMA IncrKeeps == ASSUME RateInv, NEW r \in RReq, Incr(r) PROVE RateInv'
<1>t. /\ RateTypeOK /\ IsFiniteSet(admitted) /\ Limit \in Nat \ {0}
      /\ counter.count \in Nat /\ counter.ttl \in BOOLEAN /\ Cardinality(admitted) \in Nat
  BY RateLimitAssumption, FS_CardinalityType DEF RateInv, RateTypeOK
<1>c. counter'.count = counter.count + 1 /\ counter'.ttl = counter.ttl
      /\ counter' \in [count: Nat, ttl: BOOLEAN] /\ rateFaults' = rateFaults
  BY <1>t DEF Incr, RateTypeOK
<1>1. CASE counter.count = 0
  <2>1. Goes(r, "local", "expire") /\ admitted' = admitted /\ Expiring = {}
    BY <1>1, <1>t, <1>c DEF Incr, RateInv
  <2>2. Expiring' = {r}
    BY <2>1, <1>t, ExpiringMoves
  <2>3. RateTypeOK'
    BY <2>1, <1>t, <1>c DEF Incr, RateTypeOK, Goes, RPlaces
  <2>4. Cardinality(admitted) <= 0
    BY <1>1 DEF RateInv
  <2>5. counter'.ttl = FALSE
    BY <1>1, <1>c, <1>t DEF RateInv
  <2> QED BY <2>1, <2>2, <2>3, <2>4, <1>1, <1>c, <1>t DEF RateInv
<1>2. CASE counter.count # 0
  <2>1. Decide(r, "local", counter'.count)
    BY <1>2, <1>t, <1>c DEF Incr
  <2>2. Expiring' = Expiring
    BY <2>1, <1>t, ExpiringMoves DEF Decide
  <2>3. RateTypeOK'
    BY <1>2, <2>1, <1>t, <1>c DEF Incr, Decide, RateTypeOK, Goes, RPlaces
  <2>4. \/ counter'.count <= Limit /\ admitted' = admitted \cup {r}
        \/ admitted' = admitted
    BY <2>1 DEF Decide, Within
  <2>5. /\ IsFiniteSet(admitted') /\ Cardinality(admitted') \in Nat
        /\ Cardinality(admitted') <= Cardinality(admitted) + 1
        /\ Cardinality(admitted') <= Cardinality(admitted) \/ counter'.count <= Limit
    <3>1. CASE admitted' = admitted
      BY <3>1, <1>t
    <3>2. CASE counter'.count <= Limit /\ admitted' = admitted \cup {r}
      BY <3>2, <1>t, AdmitOne
    <3> QED BY <2>4, <3>1, <3>2
  <2>6. /\ Cardinality(admitted) <= counter.count /\ Cardinality(admitted) <= Limit
        /\ Expiring # {} => /\ Cardinality(admitted) + 1 <= counter.count
                            /\ Cardinality(admitted) + 1 <= Limit
    BY DEF RateInv
  <2>7. /\ Cardinality(admitted') <= counter'.count /\ Cardinality(admitted') <= Limit
        /\ Expiring # {} => /\ Cardinality(admitted') + 1 <= counter'.count
                            /\ Cardinality(admitted') + 1 <= Limit
    BY <2>5, <2>6, <1>c, <1>t
  <2>8. /\ \A p, q \in Expiring : p = q
        /\ Expiring # {} => counter'.count > 0 /\ ~counter'.ttl
        /\ counter'.ttl => counter'.count > 0
        /\ counter'.count > 0 /\ ~counter'.ttl /\ rateFaults' = 0 => Expiring # {}
    BY <1>2, <1>c, <1>t DEF RateInv
  <2> QED BY <2>2, <2>3, <2>5, <2>7, <2>8 DEF RateInv
<1> QED BY <1>1, <1>2

\* EXPIRE: the request that reserved the first count is admitted.
LEMMA SetExpireKeeps == ASSUME RateInv, NEW r \in RReq, SetExpire(r) PROVE RateInv'
<1>t. /\ RateTypeOK /\ IsFiniteSet(admitted) /\ Limit \in Nat \ {0}
      /\ counter.count \in Nat /\ Cardinality(admitted) \in Nat
  BY RateLimitAssumption, FS_CardinalityType DEF RateInv, RateTypeOK
<1>1. /\ Goes(r, "expire", "allowed") /\ admitted' = admitted \cup {r}
  BY <1>t DEF SetExpire, Decide, Within
<1>2. r \in Expiring /\ Expiring' = Expiring \ {r}
  BY <1>1, <1>t, ExpiringMoves
<1>3. Expiring' = {}
  BY <1>2 DEF RateInv
<1>4. /\ counter.count > 0 /\ Cardinality(admitted) + 1 <= counter.count
      /\ Cardinality(admitted) + 1 <= Limit
  BY <1>2 DEF RateInv
<1>5. counter' = [counter EXCEPT !.ttl = TRUE] /\ counter' \in [count: Nat, ttl: BOOLEAN]
  BY <1>4, <1>t DEF SetExpire, RateTypeOK
<1>6. counter'.count = counter.count /\ counter'.ttl = TRUE
  BY <1>5, <1>t DEF RateTypeOK
<1>7. RateTypeOK'
  BY <1>1, <1>5, <1>t DEF SetExpire, RateTypeOK, Goes, RPlaces
<1>8. /\ IsFiniteSet(admitted') /\ Cardinality(admitted') \in Nat
      /\ Cardinality(admitted') <= Cardinality(admitted) + 1
  BY <1>1, <1>t, AdmitOne
<1>9. Cardinality(admitted') <= counter'.count /\ Cardinality(admitted') <= Limit
  BY <1>4, <1>6, <1>8, <1>t
<1> QED BY <1>3, <1>4, <1>6, <1>7, <1>8, <1>9 DEF RateInv

\* A failed call lets the request pass without admitting it to the window.
LEMMA RedisFailsKeeps ==
  ASSUME RateInv, NEW r \in RReq, NEW applied \in BOOLEAN, RedisFails(r, applied)
  PROVE  RateInv'
<1>t. /\ RateTypeOK /\ IsFiniteSet(admitted) /\ rateFaults \in Nat
      /\ counter \in [count: Nat, ttl: BOOLEAN] /\ Cardinality(admitted) \in Nat
      /\ Limit \in Nat /\ MaxRateFaults \in Nat
  BY RateLimitAssumption, FS_CardinalityType DEF RateInv, RateTypeOK
<1>1. /\ Goes(r, req[r], "allowed") /\ req[r] \in {"local", "expire"} /\ admitted' = admitted
      /\ rateFaults' = rateFaults + 1
  BY DEF RedisFails, RateFault
<1>2. /\ req[r] = "local" => Expiring' = Expiring
      /\ req[r] = "expire" => r \in Expiring /\ Expiring' = Expiring \ {r}
  BY <1>1, <1>t, ExpiringMoves
<1>3. /\ req[r] = "expire" => Expiring' = {}
      /\ req[r] = "expire" => counter.count > 0
  BY <1>2 DEF RateInv
<1>4. /\ counter' \in [count: Nat, ttl: BOOLEAN] /\ counter'.count >= counter.count
      /\ counter'.ttl = counter.ttl \/ (req[r] = "expire" /\ counter'.ttl = TRUE)
  <2>1. CASE ~applied
    BY <2>1, <1>t DEF RedisFails
  <2>2. CASE applied /\ req[r] = "local"
    BY <2>2, <1>t DEF RedisFails
  <2>3. CASE applied /\ req[r] = "expire"
    <3>1. counter' = [counter EXCEPT !.ttl = TRUE]
      BY <2>3, <1>3, <1>t DEF RedisFails
    <3>2. counter'.count = counter.count /\ counter'.ttl = TRUE
      BY <3>1, <1>t
    <3>3. counter' \in [count: Nat, ttl: BOOLEAN]
      BY <3>1, <1>t
    <3>4. counter.count \in Nat
      BY <1>t
    <3> QED BY <2>3, <3>2, <3>3, <3>4
  <2> QED BY <1>1, <2>1, <2>2, <2>3
<1>5. RateTypeOK'
  BY <1>1, <1>4, <1>t DEF RedisFails, RateFault, RateTypeOK, Goes, RPlaces
<1>6. rateFaults' # 0
  BY <1>1, <1>t
<1>7. counter'.count \in Nat /\ counter.count \in Nat
  BY <1>4, <1>t
<1>8. /\ Cardinality(admitted) <= counter.count /\ Cardinality(admitted) <= Limit
      /\ counter.ttl => counter.count > 0
      /\ Expiring # {} => /\ counter.count > 0 /\ ~counter.ttl
                          /\ Cardinality(admitted) + 1 <= counter.count
                          /\ Cardinality(admitted) + 1 <= Limit
      /\ \A p, q \in Expiring : p = q
  BY DEF RateInv
<1>9. /\ Cardinality(admitted) <= counter'.count
      /\ counter'.ttl => counter'.count > 0
      /\ Expiring' # {} => /\ counter'.count > 0 /\ ~counter'.ttl
                           /\ Cardinality(admitted) + 1 <= counter'.count
                           /\ Cardinality(admitted) + 1 <= Limit
      /\ \A p, q \in Expiring' : p = q
  BY <1>1, <1>2, <1>3, <1>4, <1>7, <1>8, <1>t
<1> QED BY <1>1, <1>5, <1>6, <1>8, <1>9, <1>t DEF RateInv

\* The invariant of the limit is kept by every step.
LEMMA RateInvStep == RateInv /\ [RateNext]_rateVars => RateInv'
<1> SUFFICES ASSUME RateInv, [RateNext]_rateVars PROVE RateInv'
  OBVIOUS
<1>t. /\ RateTypeOK /\ IsFiniteSet(admitted) /\ rateFaults \in Nat /\ Limit \in Nat
      /\ MaxRateFaults \in Nat /\ MaxWindows \in Nat /\ RServerOf \in [RReq -> RServer]
  BY RateLimitAssumption DEF RateInv, RateTypeOK
<1>1. ASSUME NEW r \in RReq, LocalShed(r) PROVE RateInv'
  <2>1. PICK to : to \in {"refused", "local", "allowed"} /\ Goes(r, "new", to)
    BY <1>1 DEF LocalShed
  <2>2. Expiring' = Expiring
    BY <2>1, <1>t, ExpiringMoves
  <2>3. bucket' \in [RServer -> Nat]
    BY <1>1, <1>t DEF LocalShed, RateTypeOK
  <2>4. RateTypeOK'
    BY <1>1, <2>1, <2>3, <1>t DEF LocalShed, RateTypeOK, Goes, RPlaces
  <2> QED BY <1>1, <2>2, <2>4 DEF LocalShed, RateInv
<1>2. ASSUME NEW s \in RServer, RateCrash(s) PROVE RateInv'
  <2>1. Expiring' \subseteq Expiring /\ counter' = counter /\ admitted' = admitted /\ rateFaults' # 0
    BY <1>2, <1>t DEF RateCrash, RateFault, Expiring, RateTypeOK
  <2>2. RateTypeOK'
    BY <1>2, <1>t DEF RateCrash, RateFault, RateTypeOK, RPlaces
  <2> QED BY <2>1, <2>2 DEF RateInv
<1>3. ASSUME NEW s \in RServer, LocalWindowEnds(s) PROVE RateInv'
  <2>1. RateTypeOK' /\ Expiring' = Expiring
    BY <1>3, <1>t DEF LocalWindowEnds, RateTypeOK, Expiring
  <2> QED BY <1>3, <2>1 DEF LocalWindowEnds, RateInv
<1>4. CASE SharedWindowEnds
  <2>1. /\ Expiring' = Expiring /\ Expiring = {} /\ admitted' = {} /\ counter'.count = 0
        /\ counter'.ttl = FALSE /\ RateTypeOK'
    BY <1>4, <1>t DEF SharedWindowEnds, RateTypeOK, Expiring, RateInv
  <2>2. IsFiniteSet(admitted') /\ Cardinality(admitted') = 0
    BY <2>1, FS_EmptySet
  <2> QED BY <2>1, <2>2, <1>t DEF RateInv
<1>5. CASE UNCHANGED rateVars
  <2>1. RateTypeOK' /\ Expiring' = Expiring
    BY <1>5, <1>t DEF rateVars, RateTypeOK, Expiring
  <2> QED BY <1>5, <2>1 DEF rateVars, RateInv
<1> QED BY <1>1, <1>2, <1>3, <1>4, <1>5, IncrKeeps, SetExpireKeeps, RedisFailsKeeps DEF RateNext

\* The limit over all processes, and the window that can end.
LEMMA RateInvLimits == RateInv => RateTypeOK /\ WindowCanEnd
<1> SUFFICES ASSUME RateInv PROVE RateTypeOK /\ WindowCanEnd
  OBVIOUS
<1>1. Cardinality(admitted) <= Limit /\ RateTypeOK
  BY DEF RateInv
<1>2. counter.count > 0 /\ ~counter.ttl /\ rateFaults = 0 => \E r \in RReq : req[r] = "expire"
  BY DEF RateInv, Expiring
<1> QED BY <1>1, <1>2 DEF WindowCanEnd
-----------------------------------------------------------------------------
(* Boot. *)

In(j, s) == \E i \in 1..Len(s) : s[i] = j

\* The first queue is empty once it is exchanged, a job that is said to wait in
\* it or to be carried is there, and readiness waits for the last of them.
StartInv ==
    /\ StartupTypeOK
    /\ backend # "initial" => oldq = <<>>
    /\ backend = "initial" => moving = <<>>
    /\ ready => backend = "redis" /\ moving = <<>>
    /\ \A j \in UJob : uat[j] = "oldq" => In(j, oldq)
    /\ \A j \in UJob : uat[j] = "moving" => In(j, moving)

\* At first no job was accepted.
LEMMA StartInvInit == StartupInit => StartInv
<1> SUFFICES ASSUME StartupInit PROVE StartInv
  OBVIOUS
<1>1. oldq \in Seq(UJob) /\ moving \in Seq(UJob) /\ newq \in Seq(UJob)
  BY DEF StartupInit
<1>2. ukeys \in [{"old", "new"} -> [UKey -> UJob \cup {NoUJob}]]
  BY DEF StartupInit
<1>3. /\ uat \in [UJob -> UPlaces] /\ waiter \in [UJob -> {"none", "old", "new", "carried"}]
      /\ ready \in BOOLEAN
  BY DEF StartupInit, UPlaces
<1>4. pushFaults \in 0..MaxPushFaults
  BY StartupAssumption DEF StartupInit
<1>5. StartupTypeOK
  BY <1>1, <1>2, <1>3, <1>4 DEF StartupInit, StartupTypeOK
<1> QED BY <1>5 DEF StartupInit, StartInv

\* What is in a list is still there after an append, and stays in the tail
\* unless it was the head.
LEMMA ListFacts ==
  ASSUME NEW S, NEW s \in Seq(S), NEW j
  PROVE  /\ \A x \in S : In(j, s) => In(j, Append(s, x))
         /\ \A x \in S : In(x, Append(s, x)) /\ Append(s, x) \in Seq(S)
         /\ s # <<>> => Head(s) \in S /\ Tail(s) \in Seq(S)
         /\ s # <<>> /\ In(j, s) /\ j # Head(s) => In(j, Tail(s))
<1>1. ASSUME NEW x \in S, In(j, s) PROVE In(j, Append(s, x))
  BY <1>1 DEF In
<1>2. ASSUME NEW x \in S PROVE In(x, Append(s, x)) /\ Append(s, x) \in Seq(S)
  <2>1. Len(s) + 1 \in 1..Len(Append(s, x)) /\ Append(s, x)[Len(s) + 1] = x
    OBVIOUS
  <2> QED BY <2>1 DEF In
<1>3. ASSUME s # <<>> PROVE Head(s) \in S /\ Tail(s) \in Seq(S)
  BY <1>3
<1>4. ASSUME s # <<>>, In(j, s), j # Head(s) PROVE In(j, Tail(s))
  <2>1. PICK i \in 1..Len(s) : s[i] = j
    BY <1>4 DEF In
  <2>2. i # 1
    BY <1>4, <2>1
  <2>3. i - 1 \in 1..Len(Tail(s)) /\ Tail(s)[i - 1] = s[i]
    BY <1>4, <2>1, <2>2
  <2> QED BY <2>1, <2>3 DEF In
<1> QED BY <1>1, <1>2, <1>3, <1>4

\* The keys and waiters that come with a carried job are well typed.
LEMMA CarryTyped ==
  ASSUME NEW s \in Seq(UJob),
         NEW f \in [{"old", "new"} -> [UKey -> UJob \cup {NoUJob}]],
         NEW g \in [UJob -> {"none", "old", "new", "carried"}]
  PROVE  /\ InstallKey(f, s) \in [{"old", "new"} -> [UKey -> UJob \cup {NoUJob}]]
         /\ Install(g, s) \in [UJob -> {"none", "old", "new", "carried"}]
         /\ TakeWaiters(g, s) \in [UJob -> {"none", "old", "new", "carried"}]
<1>1. s # <<>> => Head(s) \in UJob
  OBVIOUS
<1>2. ASSUME s # <<>>
      PROVE  InstallKey(f, s) \in [{"old", "new"} -> [UKey -> UJob \cup {NoUJob}]]
  <2>1. f["new"] \in [UKey -> UJob \cup {NoUJob}]
    OBVIOUS
  <2>2. [f["new"] EXCEPT ![UKeyOf[Head(s)]] = Head(s)] \in [UKey -> UJob \cup {NoUJob}]
    BY <1>1, <1>2, <2>1
  <2> QED BY <1>2, <2>2 DEF InstallKey
<1>3. s = <<>> => InstallKey(f, s) = f
  BY DEF InstallKey
<1>4. Install(g, s) \in [UJob -> {"none", "old", "new", "carried"}]
  BY <1>1 DEF Install
<1>5. TakeWaiters(g, s) \in [UJob -> {"none", "old", "new", "carried"}]
  BY DEF TakeWaiters
<1> QED BY <1>2, <1>3, <1>4, <1>5

\* A key of one queue is set.
LEMMA KeySet ==
  ASSUME NEW f \in [{"old", "new"} -> [UKey -> UJob \cup {NoUJob}]], NEW q \in {"old", "new"},
         NEW k, NEW x \in UJob \cup {NoUJob}
  PROVE  [f EXCEPT ![q][k] = x] \in [{"old", "new"} -> [UKey -> UJob \cup {NoUJob}]]
<1>1. [f[q] EXCEPT ![k] = x] \in [UKey -> UJob \cup {NoUJob}]
  OBVIOUS
<1> QED BY <1>1

\* Requests before and after the exchange.
LEMMA MessageKeeps ==
  ASSUME StartInv, NEW j \in UJob, AcceptMessage(j) \/ RefuseMessage(j)
  PROVE  StartInv'
<1>t. /\ StartupTypeOK /\ uat \in [UJob -> UPlaces] /\ oldq \in Seq(UJob) /\ newq \in Seq(UJob)
      /\ ukeys \in [{"old", "new"} -> [UKey -> UJob \cup {NoUJob}]]
      /\ waiter \in [UJob -> {"none", "old", "new", "carried"}]
      /\ pushFaults \in 0..MaxPushFaults /\ MaxPushFaults \in Nat
  BY StartupAssumption DEF StartInv, StartupTypeOK
<1>1. CASE RefuseMessage(j)
  <2>1. uat' \in [UJob -> UPlaces]
    BY <1>1, <1>t DEF RefuseMessage, UPlaces
  <2>2. pushFaults' \in 0..MaxPushFaults
    BY <1>1, <1>t DEF RefuseMessage, PushFault
  <2>3. StartupTypeOK'
    BY <1>1, <2>1, <2>2, <1>t DEF RefuseMessage, StartupTypeOK
  <2>4. \A i \in UJob : uat'[i] \in {"oldq", "moving"} => uat[i] = uat'[i]
    BY <1>1, <1>t DEF RefuseMessage
  <2> QED BY <1>1, <2>3, <2>4 DEF RefuseMessage, StartInv
<1>2. CASE AcceptMessage(j)
  <2>1. ukeys' \in [{"old", "new"} -> [UKey -> UJob \cup {NoUJob}]]
    BY <1>2, <1>t, KeySet DEF AcceptMessage, Current
  <2>2. waiter' \in [UJob -> {"none", "old", "new", "carried"}]
    BY <1>2, <1>t DEF AcceptMessage, Current
  <2>3. CASE backend = "initial"
    <3>1. oldq' = Append(oldq, j) /\ uat' = [uat EXCEPT ![j] = "oldq"] /\ newq' = newq
      BY <1>2, <2>3 DEF AcceptMessage, Current
    <3>2. \A i \in UJob : uat'[i] = "oldq" => In(i, oldq')
      BY <3>1, <1>t, ListFacts DEF StartInv
    <3>3. \A i \in UJob : uat'[i] = "moving" => uat[i] = "moving"
      BY <3>1, <1>t
    <3>4. oldq' \in Seq(UJob) /\ uat' \in [UJob -> UPlaces]
      BY <3>1, <1>t DEF UPlaces
    <3>5. StartupTypeOK'
      BY <1>2, <3>1, <3>4, <2>1, <2>2, <1>t DEF AcceptMessage, StartupTypeOK
    <3> QED BY <1>2, <2>3, <3>2, <3>3, <3>5 DEF AcceptMessage, StartInv
  <2>4. CASE backend # "initial"
    <3>1. newq' = Append(newq, j) /\ uat' = [uat EXCEPT ![j] = "newq"] /\ oldq' = oldq
      BY <1>2, <2>4 DEF AcceptMessage, Current
    <3>2. \A i \in UJob : uat'[i] \in {"oldq", "moving"} => uat[i] = uat'[i]
      BY <3>1, <1>t
    <3>3. newq' \in Seq(UJob) /\ uat' \in [UJob -> UPlaces]
      BY <3>1, <1>t DEF UPlaces
    <3>4. StartupTypeOK'
      BY <1>2, <3>1, <3>3, <2>1, <2>2, <1>t DEF AcceptMessage, StartupTypeOK
    <3> QED BY <1>2, <3>1, <3>2, <3>4 DEF AcceptMessage, StartInv
  <2> QED BY <2>3, <2>4
<1> QED BY <1>1, <1>2

\* A list is started from its head, and a job that ends is in no list.
LEMMA RunKeeps ==
  ASSUME StartInv, StartOld \/ StartNew \/ \E j \in UJob : SettleOld(j) \/ SettleNew(j)
  PROVE  StartInv'
<1>t. /\ StartupTypeOK /\ uat \in [UJob -> UPlaces] /\ oldq \in Seq(UJob) /\ newq \in Seq(UJob)
      /\ ukeys \in [{"old", "new"} -> [UKey -> UJob \cup {NoUJob}]]
      /\ waiter \in [UJob -> {"none", "old", "new", "carried"}]
  BY DEF StartInv, StartupTypeOK
<1>1. CASE StartOld
  <2>1. /\ oldq # <<>> /\ oldq' = Tail(oldq) /\ uat' = [uat EXCEPT ![Head(oldq)] = "oldrun"]
        /\ backend = "initial" /\ backend' = backend
    BY <1>1 DEF StartOld
  <2>2. Head(oldq) \in UJob /\ oldq' \in Seq(UJob)
    BY <2>1, <1>t
  <2>3. \A i \in UJob : uat'[i] = "oldq" => uat[i] = "oldq" /\ i # Head(oldq)
    BY <2>1, <2>2, <1>t
  <2>4. \A i \in UJob : uat'[i] = "oldq" => In(i, oldq')
    BY <2>1, <2>3, <1>t, ListFacts DEF StartInv
  <2>5. \A i \in UJob : uat'[i] = "moving" => uat[i] = "moving"
    BY <2>1, <2>2, <1>t
  <2>6. uat' \in [UJob -> UPlaces]
    BY <2>1, <2>2, <1>t DEF UPlaces
  <2>7. StartupTypeOK'
    BY <1>1, <2>2, <2>6, <1>t DEF StartOld, StartupTypeOK
  <2> QED BY <1>1, <2>1, <2>4, <2>5, <2>7 DEF StartOld, StartInv
<1>2. CASE StartNew
  <2>1. /\ newq # <<>> /\ newq' = Tail(newq) /\ uat' = [uat EXCEPT ![Head(newq)] = "newrun"]
    BY <1>2 DEF StartNew
  <2>2. Head(newq) \in UJob /\ newq' \in Seq(UJob)
    BY <2>1, <1>t
  <2>3. \A i \in UJob : uat'[i] \in {"oldq", "moving"} => uat[i] = uat'[i]
    BY <2>1, <2>2, <1>t
  <2>4. uat' \in [UJob -> UPlaces]
    BY <2>1, <2>2, <1>t DEF UPlaces
  <2>5. StartupTypeOK'
    BY <1>2, <2>2, <2>4, <1>t DEF StartNew, StartupTypeOK
  <2> QED BY <1>2, <2>3, <2>5 DEF StartNew, StartInv
<1>3. ASSUME NEW j \in UJob, NEW place \in {"oldrun", "newrun"}, NEW q \in {"old", "new"},
             Settles(j, place, q)
      PROVE  StartInv'
  <2>1. uat' \in [UJob -> UPlaces]
    BY <1>3, <1>t DEF Settles, UPlaces
  <2>2. waiter' \in [UJob -> {"none", "old", "new", "carried"}]
    BY <1>3, <1>t DEF Settles
  <2>3. ukeys' \in [{"old", "new"} -> [UKey -> UJob \cup {NoUJob}]]
    BY <1>3, <1>t, KeySet DEF Settles
  <2>4. \A i \in UJob : uat'[i] \in {"oldq", "moving"} => uat[i] = uat'[i]
    BY <1>3, <1>t DEF Settles
  <2>5. StartupTypeOK'
    BY <1>3, <2>1, <2>2, <2>3, <1>t DEF Settles, StartupTypeOK
  <2> QED BY <1>3, <2>4, <2>5 DEF Settles, StartInv
<1> QED BY <1>1, <1>2, <1>3 DEF SettleOld, SettleNew

\* The exchange carries every job of the first queue.
LEMMA UpgradeKeeps == ASSUME StartInv, NEW b \in Probed, Upgrade(b) PROVE StartInv'
<1>t. /\ StartupTypeOK /\ uat \in [UJob -> UPlaces] /\ oldq \in Seq(UJob)
      /\ waiter \in [UJob -> {"none", "old", "new", "carried"}]
  BY DEF StartInv, StartupTypeOK
<1>1. /\ backend = "initial" /\ backend' = b /\ moving' = oldq /\ oldq' = <<>>
      /\ uat' = [j \in UJob |-> IF uat[j] = "oldq" THEN "moving" ELSE uat[j]]
      /\ ready' = (b = "redis" /\ oldq = <<>>)
      /\ newq' = newq /\ pushFaults' = pushFaults
  BY DEF Upgrade, ReadyAfter
<1>2. uat' \in [UJob -> UPlaces]
  BY <1>1, <1>t DEF UPlaces
<1>3. [q \in {"old", "new"} |-> [k \in UKey |-> NoUJob]]
         \in [{"old", "new"} -> [UKey -> UJob \cup {NoUJob}]]
  OBVIOUS
<1>4. ukeys' \in [{"old", "new"} -> [UKey -> UJob \cup {NoUJob}]]
  BY <1>3, <1>t, CarryTyped DEF Upgrade
<1>5. waiter' \in [UJob -> {"none", "old", "new", "carried"}]
  <2>1. TakeWaiters(waiter, oldq) \in [UJob -> {"none", "old", "new", "carried"}]
    BY <1>3, <1>t, CarryTyped
  <2> QED BY <1>3, <2>1, <1>t, CarryTyped DEF Upgrade
<1>6. oldq' \in Seq(UJob) /\ moving' \in Seq(UJob)
  BY <1>1, <1>t
<1>7. StartupTypeOK'
  BY <1>1, <1>2, <1>4, <1>5, <1>6, <1>t DEF StartupTypeOK
<1>8. \A j \in UJob : uat[j] # "moving"
  BY <1>1 DEF StartInv, In
<1>9. \A j \in UJob : uat'[j] # "oldq" /\ (uat'[j] = "moving" => In(j, oldq))
  BY <1>1, <1>8 DEF StartInv
<1>10. b # "initial"
  BY DEF Probed, Coordinators
<1> QED BY <1>1, <1>7, <1>9, <1>10 DEF StartInv

\* A job that is carried leaves the loop, pushed or failed; readiness comes with
\* the last one.
LEMMA CarryKeeps == ASSUME StartInv, CarryJob \/ CarryFails PROVE StartInv'
<1>t. /\ StartupTypeOK /\ uat \in [UJob -> UPlaces] /\ moving \in Seq(UJob) /\ newq \in Seq(UJob)
      /\ ukeys \in [{"old", "new"} -> [UKey -> UJob \cup {NoUJob}]]
      /\ waiter \in [UJob -> {"none", "old", "new", "carried"}]
      /\ pushFaults \in 0..MaxPushFaults /\ MaxPushFaults \in Nat
  BY StartupAssumption DEF StartInv, StartupTypeOK
<1>1. /\ moving # <<>> /\ moving' = Tail(moving) /\ oldq' = oldq /\ backend' = backend
      /\ ready' = (backend = "redis" /\ Tail(moving) = <<>>)
  BY DEF CarryJob, CarryFails, Carried, ReadyAfter
<1>2. Head(moving) \in UJob /\ Tail(moving) \in Seq(UJob)
  BY <1>1, <1>t
<1>3. PICK to \in {"newq", "ended"} : uat' = [uat EXCEPT ![Head(moving)] = to]
  BY DEF CarryJob, CarryFails
<1>4. newq' \in Seq(UJob)
  <2>1. newq' = newq \/ newq' = Append(newq, Head(moving))
    BY DEF CarryJob, CarryFails
  <2>2. CASE newq' = newq
    BY <2>2, <1>t
  <2>3. CASE newq' = Append(newq, Head(moving))
    BY <2>3, <1>2, <1>t
  <2> QED BY <2>1, <2>2, <2>3
<1>5. pushFaults' \in 0..MaxPushFaults
  BY <1>t DEF CarryJob, CarryFails, PushFault
<1>6. ukeys' \in [{"old", "new"} -> [UKey -> UJob \cup {NoUJob}]]
  <2>1. CASE ukeys' = InstallKey(ukeys, Tail(moving))
    BY <2>1, <1>2, <1>t, CarryTyped
  <2>2. CASE ukeys' = InstallKey([ukeys EXCEPT !["new"][UKeyOf[Head(moving)]] = NoUJob], Tail(moving))
    <3>1. [ukeys EXCEPT !["new"][UKeyOf[Head(moving)]] = NoUJob]
             \in [{"old", "new"} -> [UKey -> UJob \cup {NoUJob}]]
      BY <1>t, KeySet
    <3> QED BY <2>2, <3>1, <1>2, <1>t, CarryTyped
  <2> QED BY <2>1, <2>2 DEF CarryJob, CarryFails, Carried
<1>7. waiter' \in [UJob -> {"none", "old", "new", "carried"}]
  <2>1. [waiter EXCEPT ![Head(moving)] = "none"] \in [UJob -> {"none", "old", "new", "carried"}]
    BY <1>t
  <2>2. \/ waiter' = Install(waiter, Tail(moving))
        \/ waiter' = Install([waiter EXCEPT ![Head(moving)] = "none"], Tail(moving))
    BY DEF CarryJob, CarryFails
  <2>3. \A g \in [UJob -> {"none", "old", "new", "carried"}] :
           Install(g, Tail(moving)) \in [UJob -> {"none", "old", "new", "carried"}]
    BY <1>2, <1>t, CarryTyped
  <2> QED BY <2>1, <2>2, <2>3, <1>t
<1>8. uat' \in [UJob -> UPlaces]
  BY <1>2, <1>3, <1>t DEF UPlaces
<1>9. StartupTypeOK'
  <2>1. ready' \in BOOLEAN /\ oldq' \in Seq(UJob) /\ moving' \in Seq(UJob)
    BY <1>1, <1>2 DEF StartInv, StartupTypeOK
  <2> QED BY <1>1, <1>4, <1>5, <1>6, <1>7, <1>8, <2>1, <1>t DEF StartupTypeOK
<1>10. \A i \in UJob : uat'[i] \in {"oldq", "moving"} => uat[i] = uat'[i] /\ i # Head(moving)
  BY <1>2, <1>3, <1>t
<1>11. \A i \in UJob : uat'[i] = "moving" => In(i, moving')
  BY <1>1, <1>10, <1>t, ListFacts DEF StartInv
<1>12. \A i \in UJob : uat'[i] = "oldq" => In(i, oldq')
  BY <1>1, <1>10 DEF StartInv
<1> QED BY <1>1, <1>9, <1>11, <1>12 DEF StartInv

\* The invariant of boot is kept by every step.
LEMMA StartInvStep == StartInv /\ [StartupNext]_upVars => StartInv'
<1> SUFFICES ASSUME StartInv, [StartupNext]_upVars PROVE StartInv'
  OBVIOUS
<1>1. CASE UNCHANGED upVars
  BY <1>1 DEF upVars, StartInv, StartupTypeOK
<1> QED BY <1>1, MessageKeeps, RunKeeps, UpgradeKeeps, CarryKeeps DEF StartupNext

\* An instance that answers ready shares its queue and has nothing in transit.
LEMMA StartInvShares == StartInv => StartupTypeOK /\ ReadyIsShared
<1> SUFFICES ASSUME StartInv, ready PROVE ReadyIsShared
  BY DEF StartInv, ReadyIsShared, AnswersReady
<1>1. backend = "redis" /\ oldq = <<>> /\ moving = <<>>
  BY DEF StartInv
<1>2. \A j \in UJob : uat[j] # "moving"
  BY <1>1 DEF StartInv, In
<1> QED BY <1>1, <1>2 DEF ReadyIsShared
-----------------------------------------------------------------------------
(* Billing events. *)

Requests == [n: Nat, event: HEvent, server: HServer, at: {"begin", "complete"}, shared: BOOLEAN]
Responses == [n: Nat, event: HEvent, server: HServer, fresh: BOOLEAN, shared: BOOLEAN]

\* The acceptances of an event under the shared key and under the key of an
\* instance, and the requests that reserved the key and will accept it.
AcceptedShared(e) == {a \in hAnswers : a.event = e /\ a.fresh /\ a.shared}
AcceptedLocal(e, s) == {a \in hAnswers : a.event = e /\ a.fresh /\ a.server = s /\ ~a.shared}
ReservedShared(e) == {q \in hRequests : q.event = e /\ q.at = "complete" /\ q.shared}
ReservedLocal(e, s) == {q \in hRequests : q.event = e /\ q.at = "complete" /\ q.server = s /\ ~q.shared}

Taken(state) == IF state = "none" THEN 0 ELSE 1
Lapses(e) == IF e \in hLapsed THEN hFaults ELSE 0

HookTypeInv ==
    /\ WebhooksTypeOK
    /\ hRequests \subseteq Requests /\ hAnswers \subseteq Responses
    /\ IsFiniteSet(hRequests) /\ IsFiniteSet(hAnswers) /\ hDeliveries \in Nat

\* A reserved key pays for one acceptance, past or to come; a shared key that
\* ended, for one more.
KeyPaysInv ==
    \A e \in HEvent :
        /\ Cardinality(AcceptedShared(e)) + Cardinality(ReservedShared(e))
             <= Lapses(e) + Taken(hShared[e])
        /\ hShared[e] = "none" => ReservedShared(e) = {}
        /\ \A s \in HServer :
              Cardinality(AcceptedLocal(e, s)) + Cardinality(ReservedLocal(e, s))
                <= Taken(hLocal[s][e])

\* An answer leaves a record where it came from.
RecordedInv ==
    \A a \in hAnswers : IF a.shared THEN hShared[a.event] # "none" \/ a.event \in hLapsed
                        ELSE hLocal[a.server][a.event] # "none"

HookInv == HookTypeInv /\ KeyPaysInv /\ RecordedInv

\* The arithmetic of the keys.
LEMMA HookSizes ==
  ASSUME HookTypeInv, NEW e, NEW s
  PROVE  /\ IsFiniteSet(AcceptedShared(e)) /\ IsFiniteSet(ReservedShared(e))
         /\ IsFiniteSet(AcceptedLocal(e, s)) /\ IsFiniteSet(ReservedLocal(e, s))
         /\ Cardinality(AcceptedShared(e)) \in Nat /\ Cardinality(ReservedShared(e)) \in Nat
         /\ Cardinality(AcceptedLocal(e, s)) \in Nat /\ Cardinality(ReservedLocal(e, s)) \in Nat
<1>1. /\ AcceptedShared(e) \subseteq hAnswers /\ ReservedShared(e) \subseteq hRequests
      /\ AcceptedLocal(e, s) \subseteq hAnswers /\ ReservedLocal(e, s) \subseteq hRequests
  BY DEF AcceptedShared, ReservedShared, AcceptedLocal, ReservedLocal
<1>2. IsFiniteSet(hAnswers) /\ IsFiniteSet(hRequests)
  BY DEF HookTypeInv
<1> QED BY <1>1, <1>2, FS_Subset, FS_CardinalityType

\* No delivery was taken at first.
LEMMA HookInvInit == WebhooksInit => HookInv
<1> SUFFICES ASSUME WebhooksInit PROVE HookInv
  OBVIOUS
<1>1. hRequests = {} /\ hAnswers = {}
  BY DEF WebhooksInit
<1>2. HookTypeInv
  BY <1>1, FS_EmptySet, WebhooksAssumption DEF WebhooksInit, HookTypeInv, WebhooksTypeOK, KeyState
<1>3. \A e, s : /\ AcceptedShared(e) = {} /\ ReservedShared(e) = {}
                /\ AcceptedLocal(e, s) = {} /\ ReservedLocal(e, s) = {}
  BY <1>1 DEF AcceptedShared, ReservedShared, AcceptedLocal, ReservedLocal
<1>4. Cardinality({}) = 0
  BY FS_EmptySet
<1>5. KeyPaysInv
  <2>1. \A e : Lapses(e) \in Nat
    BY DEF WebhooksInit, Lapses
  <2>2. \A x : Taken(x) \in Nat
    BY DEF Taken
  <2> QED BY <1>3, <1>4, <2>1, <2>2 DEF KeyPaysInv
<1>6. RecordedInv
  BY <1>1 DEF RecordedInv
<1> QED BY <1>2, <1>5, <1>6 DEF HookInv

\* What was accepted and reserved under a key: nothing new, or an acceptance for
\* a reservation.
Paid(A, R, A2, R2) ==
    \/ A2 \subseteq A /\ R2 \subseteq R
    \/ \E x : \E q \in R : A2 \subseteq A \cup {x} /\ R2 \subseteq R \ {q}

\* One more reservation.
Reserves(A, R, A2, R2) == A2 \subseteq A /\ \E x : R2 \subseteq R \cup {x}

\* A reservation that becomes an answer costs nothing, a new one costs one.
LEMMA PaidSizes ==
  ASSUME NEW A, NEW R, NEW A2, NEW R2, IsFiniteSet(A), IsFiniteSet(R)
  PROVE  /\ Paid(A, R, A2, R2)
              => Cardinality(A2) + Cardinality(R2) <= Cardinality(A) + Cardinality(R)
         /\ Reserves(A, R, A2, R2)
              => Cardinality(A2) + Cardinality(R2) <= Cardinality(A) + Cardinality(R) + 1
<1>1. ASSUME NEW S, NEW T, IsFiniteSet(S), T \subseteq S
      PROVE  IsFiniteSet(T) /\ Cardinality(T) <= Cardinality(S)
             /\ Cardinality(S) \in Nat /\ Cardinality(T) \in Nat
  BY <1>1, FS_Subset, FS_CardinalityType
<1>2. ASSUME NEW S, NEW T, NEW x, IsFiniteSet(S), T \subseteq S \cup {x}
      PROVE  Cardinality(T) <= Cardinality(S) + 1 /\ Cardinality(S) \in Nat /\ Cardinality(T) \in Nat
  <2>1. /\ IsFiniteSet(S \cup {x}) /\ Cardinality(S) \in Nat
        /\ Cardinality(S \cup {x}) = Cardinality(S) \/ Cardinality(S \cup {x}) = Cardinality(S) + 1
    BY <1>2, FS_AddElement, FS_CardinalityType
  <2>2. Cardinality(T) <= Cardinality(S \cup {x}) /\ Cardinality(T) \in Nat
    BY <1>1, <1>2, <2>1
  <2> QED BY <2>1, <2>2
<1>3. ASSUME NEW S, NEW T, NEW x \in S, IsFiniteSet(S), T \subseteq S \ {x}
      PROVE  Cardinality(T) + 1 <= Cardinality(S) /\ Cardinality(S) \in Nat /\ Cardinality(T) \in Nat
  <2>1. /\ IsFiniteSet(S \ {x}) /\ Cardinality(S) \in Nat
        /\ Cardinality(S \ {x}) = Cardinality(S) - 1
    BY <1>3, FS_RemoveElement, FS_CardinalityType
  <2>2. Cardinality(T) <= Cardinality(S \ {x}) /\ Cardinality(T) \in Nat
    BY <1>1, <1>3, <2>1
  <2> QED BY <2>1, <2>2
<1>4. ASSUME A2 \subseteq A, R2 \subseteq R
      PROVE  Cardinality(A2) + Cardinality(R2) <= Cardinality(A) + Cardinality(R)
  <2>1. /\ Cardinality(A2) <= Cardinality(A) /\ Cardinality(A2) \in Nat /\ Cardinality(A) \in Nat
        /\ Cardinality(R2) <= Cardinality(R) /\ Cardinality(R2) \in Nat /\ Cardinality(R) \in Nat
    BY <1>1, <1>4
  <2> QED BY <2>1
<1>5. ASSUME NEW x, NEW q \in R, A2 \subseteq A \cup {x}, R2 \subseteq R \ {q}
      PROVE  Cardinality(A2) + Cardinality(R2) <= Cardinality(A) + Cardinality(R)
  <2>1. Cardinality(A2) <= Cardinality(A) + 1 /\ Cardinality(A2) \in Nat /\ Cardinality(A) \in Nat
    BY <1>2, <1>5
  <2>2. Cardinality(R2) + 1 <= Cardinality(R) /\ Cardinality(R2) \in Nat /\ Cardinality(R) \in Nat
    BY <1>3, <1>5
  <2> QED BY <2>1, <2>2
<1>6. ASSUME NEW x, A2 \subseteq A, R2 \subseteq R \cup {x}
      PROVE  Cardinality(A2) + Cardinality(R2) <= Cardinality(A) + Cardinality(R) + 1
  <2>1. Cardinality(A2) <= Cardinality(A) /\ Cardinality(A2) \in Nat /\ Cardinality(A) \in Nat
    BY <1>1, <1>6
  <2>2. Cardinality(R2) <= Cardinality(R) + 1 /\ Cardinality(R2) \in Nat /\ Cardinality(R) \in Nat
    BY <1>2, <1>6
  <2> QED BY <2>1, <2>2
<1> QED BY <1>4, <1>5, <1>6 DEF Paid, Reserves

\* A request that goes on to complete its reservation.
LEMMA ToMoves ==
  ASSUME HookTypeInv, NEW q \in hRequests, q.at = "begin", NEW b \in BOOLEAN,
         To(q, "complete", b), UNCHANGED <<hAnswers, hDeliveries>>
  PROVE  /\ hRequests' \subseteq Requests /\ IsFiniteSet(hRequests')
         /\ \A e, s :
               /\ AcceptedShared(e)' = AcceptedShared(e) /\ AcceptedLocal(e, s)' = AcceptedLocal(e, s)
               /\ \E x : ReservedShared(e)' \subseteq ReservedShared(e) \cup {x}
               /\ \E x : ReservedLocal(e, s)' \subseteq ReservedLocal(e, s) \cup {x}
               /\ e # q.event \/ ~b => ReservedShared(e)' \subseteq ReservedShared(e)
               /\ e # q.event \/ s # q.server \/ b => ReservedLocal(e, s)' \subseteq ReservedLocal(e, s)
<1>1. PICK r : r = [q EXCEPT !.at = "complete", !.shared = b]
  OBVIOUS
<1>2. q \in Requests /\ hRequests \subseteq Requests /\ IsFiniteSet(hRequests)
  BY DEF HookTypeInv
<1>3. r \in Requests /\ r.event = q.event /\ r.server = q.server /\ r.at = "complete" /\ r.shared = b
  BY <1>1, <1>2 DEF Requests
<1>4. hRequests' = (hRequests \ {q}) \cup {r}
  BY <1>1 DEF To
<1>5. hRequests' \subseteq Requests
  BY <1>2, <1>3, <1>4
<1>6. IsFiniteSet(hRequests')
  <2>1. IsFiniteSet(hRequests \ {q})
    BY <1>2, FS_RemoveElement
  <2> QED BY <1>4, <2>1, FS_AddElement
<1>7. ASSUME NEW e, NEW s
      PROVE  /\ ReservedShared(e)' \subseteq ReservedShared(e) \cup {r}
             /\ ReservedLocal(e, s)' \subseteq ReservedLocal(e, s) \cup {r}
             /\ e # q.event \/ ~b => ReservedShared(e)' \subseteq ReservedShared(e)
             /\ e # q.event \/ s # q.server \/ b => ReservedLocal(e, s)' \subseteq ReservedLocal(e, s)
  BY <1>3, <1>4 DEF ReservedShared, ReservedLocal
<1>8. \A e, s : AcceptedShared(e)' = AcceptedShared(e) /\ AcceptedLocal(e, s)' = AcceptedLocal(e, s)
  BY DEF AcceptedShared, AcceptedLocal
<1> QED BY <1>5, <1>6, <1>7, <1>8

\* A request that is answered.
LEMMA AnswerMoves ==
  ASSUME HookTypeInv, NEW q \in hRequests, NEW fresh \in BOOLEAN, NEW b \in BOOLEAN, Answer(q, fresh, b)
  PROVE  /\ hRequests' = hRequests \ {q} /\ IsFiniteSet(hRequests')
         /\ hAnswers' \subseteq Responses /\ IsFiniteSet(hAnswers')
         /\ \A a \in hAnswers' : a \in hAnswers
               \/ (a.event = q.event /\ a.server = q.server /\ a.fresh = fresh /\ a.shared = b)
         /\ \A e :
               /\ ReservedShared(e)' = ReservedShared(e) \ {q}
               /\ \E x : AcceptedShared(e)' \subseteq AcceptedShared(e) \cup {x}
               /\ e # q.event \/ ~fresh \/ ~b => AcceptedShared(e)' \subseteq AcceptedShared(e)
         /\ \A e, s :
               /\ ReservedLocal(e, s)' = ReservedLocal(e, s) \ {q}
               /\ \E x : AcceptedLocal(e, s)' \subseteq AcceptedLocal(e, s) \cup {x}
               /\ e # q.event \/ s # q.server \/ ~fresh \/ b
                    => AcceptedLocal(e, s)' \subseteq AcceptedLocal(e, s)
<1>1. PICK r : r = [n |-> q.n, event |-> q.event, server |-> q.server, fresh |-> fresh, shared |-> b]
  OBVIOUS
<1>2. q \in Requests /\ hAnswers \subseteq Responses /\ IsFiniteSet(hRequests) /\ IsFiniteSet(hAnswers)
  BY DEF HookTypeInv
<1>3. r \in Responses /\ r.event = q.event /\ r.server = q.server /\ r.fresh = fresh /\ r.shared = b
  BY <1>1, <1>2 DEF Requests, Responses
<1>4. hRequests' = hRequests \ {q} /\ hAnswers' = hAnswers \cup {r}
  BY <1>1 DEF Answer
<1>5. IsFiniteSet(hRequests') /\ IsFiniteSet(hAnswers') /\ hAnswers' \subseteq Responses
  BY <1>2, <1>3, <1>4, FS_AddElement, FS_RemoveElement
<1>6. \A a \in hAnswers' : a \in hAnswers
         \/ (a.event = q.event /\ a.server = q.server /\ a.fresh = fresh /\ a.shared = b)
  BY <1>3, <1>4
<1>7. ASSUME NEW e
      PROVE  /\ ReservedShared(e)' = ReservedShared(e) \ {q}
             /\ AcceptedShared(e)' \subseteq AcceptedShared(e) \cup {r}
             /\ e # q.event \/ ~fresh \/ ~b => AcceptedShared(e)' \subseteq AcceptedShared(e)
  BY <1>3, <1>4 DEF ReservedShared, AcceptedShared
<1>8. ASSUME NEW e, NEW s
      PROVE  /\ ReservedLocal(e, s)' = ReservedLocal(e, s) \ {q}
             /\ AcceptedLocal(e, s)' \subseteq AcceptedLocal(e, s) \cup {r}
             /\ e # q.event \/ s # q.server \/ ~fresh \/ b
                  => AcceptedLocal(e, s)' \subseteq AcceptedLocal(e, s)
  BY <1>3, <1>4 DEF ReservedLocal, AcceptedLocal
<1> QED BY <1>4, <1>5, <1>6, <1>7, <1>8

\* What a step may do to a key and to what was accepted and reserved under it.
SharedMoves(e) ==
    \/ /\ Paid(AcceptedShared(e), ReservedShared(e), AcceptedShared(e)', ReservedShared(e)')
       /\ hShared[e] # "none" => hShared'[e] # "none"
    \/ /\ Reserves(AcceptedShared(e), ReservedShared(e), AcceptedShared(e)', ReservedShared(e)')
       /\ hShared[e] = "none" /\ hShared'[e] # "none"
    \/ /\ Paid(AcceptedShared(e), ReservedShared(e), AcceptedShared(e)', ReservedShared(e)')
       /\ ReservedShared(e) = {} /\ e \in hLapsed' /\ hFaults' = hFaults + 1
LocalMoves(e, s) ==
    \/ /\ Paid(AcceptedLocal(e, s), ReservedLocal(e, s), AcceptedLocal(e, s)', ReservedLocal(e, s)')
       /\ hLocal[s][e] # "none" => hLocal'[s][e] # "none"
    \/ /\ Reserves(AcceptedLocal(e, s), ReservedLocal(e, s), AcceptedLocal(e, s)', ReservedLocal(e, s)')
       /\ hLocal[s][e] = "none" /\ hLocal'[s][e] # "none"

\* The arithmetic of it: what is accepted and reserved, and what pays for it,
\* before and after a step.
LEMMA StillPaid ==
  ASSUME NEW a \in Nat, NEW r \in Nat, NEW a2 \in Nat, NEW r2 \in Nat,
         NEW paid \in Nat, NEW paid2 \in Nat, a + r <= paid,
         \/ a2 + r2 <= a + r /\ paid <= paid2
         \/ a2 + r2 <= a + r + 1 /\ paid + 1 <= paid2
  PROVE  a2 + r2 <= paid2
  OBVIOUS

\* Such steps keep what the keys pay for.
LEMMA MovesPay ==
  ASSUME HookInv, HookTypeInv', hFaults' >= hFaults, hLapsed \subseteq hLapsed',
         \A e \in HEvent : SharedMoves(e),
         \A e \in HEvent, s \in HServer : LocalMoves(e, s)
  PROVE  KeyPaysInv'
<1>1. ASSUME NEW e \in HEvent
      PROVE  /\ Cardinality(AcceptedShared(e)') + Cardinality(ReservedShared(e)')
                  <= Lapses(e)' + Taken(hShared'[e])
             /\ hShared'[e] = "none" => ReservedShared(e)' = {}
  <2> DEFINE A == AcceptedShared(e)
             R == ReservedShared(e)
  <2>1. /\ IsFiniteSet(A) /\ IsFiniteSet(R) /\ Cardinality(A) \in Nat /\ Cardinality(R) \in Nat
        /\ HookTypeInv
    BY HookSizes DEF HookInv
  <2>2. Cardinality(A') \in Nat /\ Cardinality(R') \in Nat
    <3>1. IsFiniteSet(hAnswers') /\ IsFiniteSet(hRequests')
      BY DEF HookTypeInv
    <3>2. A' \subseteq hAnswers' /\ R' \subseteq hRequests'
      BY DEF AcceptedShared, ReservedShared
    <3> QED BY <3>1, <3>2, FS_Subset, FS_CardinalityType
  <2>3. /\ Cardinality(A) + Cardinality(R) <= Lapses(e) + Taken(hShared[e])
        /\ hShared[e] = "none" => R = {}
    BY DEF HookInv, KeyPaysInv
  <2>4. /\ hFaults \in Nat /\ hFaults' \in Nat
    BY <2>1, WebhooksAssumption DEF HookTypeInv, WebhooksTypeOK
  <2>5. /\ Lapses(e) \in Nat /\ Lapses(e)' \in Nat /\ Lapses(e) <= Lapses(e)' /\ Lapses(e) <= hFaults
        /\ e \in hLapsed' => Lapses(e)' = hFaults'
    BY <2>4 DEF Lapses
  <2>6. /\ Taken(hShared[e]) = (IF hShared[e] = "none" THEN 0 ELSE 1)
        /\ Taken(hShared'[e]) = (IF hShared'[e] = "none" THEN 0 ELSE 1)
    BY DEF Taken
  <2>7. /\ Paid(A, R, A', R') => Cardinality(A') + Cardinality(R') <= Cardinality(A) + Cardinality(R)
        /\ Reserves(A, R, A', R')
             => Cardinality(A') + Cardinality(R') <= Cardinality(A) + Cardinality(R) + 1
    BY <2>1, PaidSizes
  <2>8. Paid(A, R, A', R') /\ R = {} => R' = {}
    BY DEF Paid
  <2> HIDE DEF A, R
  <2>9. /\ Lapses(e) + Taken(hShared[e]) \in Nat /\ Lapses(e)' + Taken(hShared'[e]) \in Nat
    BY <2>5, <2>6
  <2>10. CASE /\ Paid(A, R, A', R') /\ (hShared[e] # "none" => hShared'[e] # "none")
    <3>1. Lapses(e) + Taken(hShared[e]) <= Lapses(e)' + Taken(hShared'[e])
      BY <2>5, <2>6, <2>10
    <3>2. Cardinality(A') + Cardinality(R') <= Cardinality(A) + Cardinality(R)
      BY <2>7, <2>10
    <3>3. Cardinality(A') + Cardinality(R') <= Lapses(e)' + Taken(hShared'[e])
      BY <2>1, <2>2, <2>3, <2>9, <3>1, <3>2, StillPaid
    <3>4. hShared'[e] = "none" => R' = {}
      BY <2>3, <2>8, <2>10
    <3> QED BY <3>3, <3>4 DEF A, R
  <2>11. CASE /\ Reserves(A, R, A', R') /\ hShared[e] = "none" /\ hShared'[e] # "none"
    <3>1. Lapses(e) + Taken(hShared[e]) + 1 <= Lapses(e)' + Taken(hShared'[e])
      BY <2>5, <2>6, <2>11
    <3>2. Cardinality(A') + Cardinality(R') <= Cardinality(A) + Cardinality(R) + 1
      BY <2>7, <2>11
    <3>3. Cardinality(A') + Cardinality(R') <= Lapses(e)' + Taken(hShared'[e])
      BY <2>1, <2>2, <2>3, <2>9, <3>1, <3>2, StillPaid
    <3> QED BY <2>11, <3>3 DEF A, R
  <2>12. CASE /\ Paid(A, R, A', R') /\ R = {} /\ e \in hLapsed' /\ hFaults' = hFaults + 1
    <3>1. Lapses(e) + Taken(hShared[e]) <= Lapses(e)' + Taken(hShared'[e])
      BY <2>4, <2>5, <2>6, <2>12
    <3>2. Cardinality(A') + Cardinality(R') <= Cardinality(A) + Cardinality(R)
      BY <2>7, <2>12
    <3>3. Cardinality(A') + Cardinality(R') <= Lapses(e)' + Taken(hShared'[e])
      BY <2>1, <2>2, <2>3, <2>9, <3>1, <3>2, StillPaid
    <3>4. R' = {}
      BY <2>8, <2>12
    <3> QED BY <3>3, <3>4 DEF A, R
  <2> QED BY <2>10, <2>11, <2>12 DEF SharedMoves, A, R
<1>2. ASSUME NEW e \in HEvent, NEW s \in HServer
      PROVE  Cardinality(AcceptedLocal(e, s)') + Cardinality(ReservedLocal(e, s)') <= Taken(hLocal'[s][e])
  <2> DEFINE A == AcceptedLocal(e, s)
             R == ReservedLocal(e, s)
  <2>1. /\ IsFiniteSet(A) /\ IsFiniteSet(R) /\ Cardinality(A) \in Nat /\ Cardinality(R) \in Nat
    BY HookSizes DEF HookInv
  <2>2. Cardinality(A') \in Nat /\ Cardinality(R') \in Nat
    <3>1. IsFiniteSet(hAnswers') /\ IsFiniteSet(hRequests')
      BY DEF HookTypeInv
    <3>2. A' \subseteq hAnswers' /\ R' \subseteq hRequests'
      BY DEF AcceptedLocal, ReservedLocal
    <3> QED BY <3>1, <3>2, FS_Subset, FS_CardinalityType
  <2>3. Cardinality(A) + Cardinality(R) <= Taken(hLocal[s][e])
    BY DEF HookInv, KeyPaysInv
  <2>4. /\ Taken(hLocal[s][e]) = (IF hLocal[s][e] = "none" THEN 0 ELSE 1)
        /\ Taken(hLocal'[s][e]) = (IF hLocal'[s][e] = "none" THEN 0 ELSE 1)
    BY DEF Taken
  <2>5. /\ Paid(A, R, A', R') => Cardinality(A') + Cardinality(R') <= Cardinality(A) + Cardinality(R)
        /\ Reserves(A, R, A', R')
             => Cardinality(A') + Cardinality(R') <= Cardinality(A) + Cardinality(R) + 1
    BY <2>1, PaidSizes
  <2> HIDE DEF A, R
  <2>6. CASE Paid(A, R, A', R') /\ (hLocal[s][e] # "none" => hLocal'[s][e] # "none")
    <3>1. Taken(hLocal[s][e]) <= Taken(hLocal'[s][e])
      BY <2>4, <2>6
    <3>2. Cardinality(A') + Cardinality(R') <= Cardinality(A) + Cardinality(R)
      BY <2>5, <2>6
    <3>3. Taken(hLocal[s][e]) \in Nat /\ Taken(hLocal'[s][e]) \in Nat
      BY <2>4
    <3>4. Cardinality(A') + Cardinality(R') <= Taken(hLocal'[s][e])
      BY <2>1, <2>2, <2>3, <3>1, <3>2, <3>3, StillPaid
    <3> QED BY <3>4 DEF A, R
  <2>7. CASE Reserves(A, R, A', R') /\ hLocal[s][e] = "none" /\ hLocal'[s][e] # "none"
    <3>1. Taken(hLocal[s][e]) + 1 <= Taken(hLocal'[s][e])
      BY <2>4, <2>7
    <3>2. Cardinality(A') + Cardinality(R') <= Cardinality(A) + Cardinality(R) + 1
      BY <2>5, <2>7
    <3>3. Taken(hLocal[s][e]) \in Nat /\ Taken(hLocal'[s][e]) \in Nat
      BY <2>4
    <3>4. Cardinality(A') + Cardinality(R') <= Taken(hLocal'[s][e])
      BY <2>1, <2>2, <2>3, <3>1, <3>2, <3>3, StillPaid
    <3> QED BY <3>4 DEF A, R
  <2> QED BY <2>6, <2>7 DEF LocalMoves, A, R
<1> QED BY <1>1, <1>2 DEF KeyPaysInv

\* A step that leaves answers alone and ends requests, or begins some.
LEMMA QuietMoves ==
  ASSUME HookTypeInv, hAnswers' = hAnswers,
         \A q \in hRequests' : q \in hRequests \/ q.at = "begin"
  PROVE  \A e, s :
            /\ Paid(AcceptedShared(e), ReservedShared(e), AcceptedShared(e)', ReservedShared(e)')
            /\ Paid(AcceptedLocal(e, s), ReservedLocal(e, s), AcceptedLocal(e, s)', ReservedLocal(e, s)')
<1>1. \A e, s : /\ AcceptedShared(e)' = AcceptedShared(e) /\ AcceptedLocal(e, s)' = AcceptedLocal(e, s)
                /\ ReservedShared(e)' \subseteq ReservedShared(e)
                /\ ReservedLocal(e, s)' \subseteq ReservedLocal(e, s)
  BY DEF AcceptedShared, AcceptedLocal, ReservedShared, ReservedLocal
<1> QED BY <1>1 DEF Paid

\* The types as the steps need them.
LEMMA HookTypes ==
  ASSUME HookTypeInv
  PROVE  /\ hShared \in [HEvent -> KeyState] /\ hLocal \in [HServer -> [HEvent -> KeyState]]
         /\ hWired \in [HServer -> BOOLEAN] /\ hFaults \in Nat /\ hFaults \in 0..HMaxFaults
         /\ HMaxFaults \in Nat /\ hDeliveries \in Nat
         /\ hRequests \subseteq Requests /\ hAnswers \subseteq Responses
         /\ IsFiniteSet(hRequests) /\ IsFiniteSet(hAnswers)
         /\ \A q \in hRequests : q.event \in HEvent /\ q.server \in HServer /\ q.shared \in BOOLEAN
  BY WebhooksAssumption DEF HookTypeInv, WebhooksTypeOK, Requests

\* An answer keeps its record while no key is emptied but by its end.
RecordsStay ==
    /\ hLapsed \subseteq hLapsed'
    /\ \A e \in HEvent : hShared[e] # "none" => hShared'[e] # "none" \/ e \in hLapsed'
    /\ \A s \in HServer, e \in HEvent : hLocal[s][e] # "none" => hLocal'[s][e] # "none"

\* Records stay true of old answers and hold for the new ones.
LEMMA RecordsKept ==
  ASSUME HookInv, RecordsStay,
         \A a \in hAnswers' : a \in hAnswers
            \/ /\ a.shared => hShared'[a.event] # "none"
               /\ ~a.shared => hLocal'[a.server][a.event] # "none"
  PROVE  RecordedInv'
<1>1. \A a \in hAnswers : a.event \in HEvent /\ a.server \in HServer
  BY DEF HookInv, HookTypeInv, Responses
<1>2. ASSUME NEW a \in hAnswers'
      PROVE  IF a.shared THEN hShared'[a.event] # "none" \/ a.event \in hLapsed'
             ELSE hLocal'[a.server][a.event] # "none"
  BY <1>1, <1>2 DEF HookInv, RecordedInv, RecordsStay
<1> QED BY <1>2 DEF RecordedInv

\* A delivery that is answered as a duplicate accepts nothing.
LEMMA DuplicateMoves ==
  ASSUME HookTypeInv, NEW q \in hRequests, NEW b \in BOOLEAN, Answer(q, FALSE, b)
  PROVE  /\ hRequests' = hRequests \ {q} /\ IsFiniteSet(hRequests')
         /\ hAnswers' \subseteq Responses /\ IsFiniteSet(hAnswers')
         /\ \A a \in hAnswers' : a \in hAnswers
               \/ (a.event = q.event /\ a.server = q.server /\ a.shared = b)
         /\ \A e, s : /\ ReservedShared(e)' = ReservedShared(e) \ {q}
                      /\ ReservedLocal(e, s)' = ReservedLocal(e, s) \ {q}
                      /\ AcceptedShared(e)' \subseteq AcceptedShared(e)
                      /\ AcceptedLocal(e, s)' \subseteq AcceptedLocal(e, s)
<1>1. PICK fresh \in BOOLEAN : fresh = FALSE
  OBVIOUS
<1>2. Answer(q, fresh, b)
  BY <1>1
<1>3. /\ hRequests' = hRequests \ {q} /\ IsFiniteSet(hRequests')
      /\ hAnswers' \subseteq Responses /\ IsFiniteSet(hAnswers')
      /\ \A a \in hAnswers' : a \in hAnswers
            \/ (a.event = q.event /\ a.server = q.server /\ a.shared = b)
  BY <1>2, AnswerMoves
<1>4. ASSUME NEW e, NEW s
      PROVE  /\ ReservedShared(e)' = ReservedShared(e) \ {q}
             /\ ReservedLocal(e, s)' = ReservedLocal(e, s) \ {q}
             /\ ~fresh => AcceptedShared(e)' \subseteq AcceptedShared(e)
             /\ ~fresh => AcceptedLocal(e, s)' \subseteq AcceptedLocal(e, s)
  BY <1>2, AnswerMoves
<1> QED BY <1>1, <1>3, <1>4

\* Reserving the shared key, or finding it reserved.
LEMMA BeginSharedKeeps ==
  ASSUME HookInv, NEW q \in hRequests, BeginShared(q)
  PROVE  HookInv'
<1>t. HookTypeInv
  BY DEF HookInv
<1>q. q.event \in HEvent /\ q.server \in HServer /\ q.at = "begin"
  BY <1>t, HookTypes DEF BeginShared
<1>1. CASE Free(q.event)
  <2>1. /\ hShared' = [hShared EXCEPT ![q.event] = "running"]
        /\ hLocal' = [hLocal EXCEPT ![q.server][q.event] = "running"]
        /\ To(q, "complete", TRUE) /\ hAnswers' = hAnswers
        /\ hDeliveries' = hDeliveries /\ hWired' = hWired /\ hFaults' = hFaults /\ hLapsed' = hLapsed
    BY <1>1 DEF BeginShared, Reserved
  <2>2. /\ hShared' \in [HEvent -> KeyState] /\ hLocal' \in [HServer -> [HEvent -> KeyState]]
        /\ hShared'[q.event] = "running" /\ hShared[q.event] = "none"
        /\ \A e \in HEvent : e # q.event => hShared'[e] = hShared[e]
        /\ \A s \in HServer, e \in HEvent : hLocal[s][e] # "none" => hLocal'[s][e] # "none"
    BY <1>1, <1>q, <1>t, <2>1, HookTypes DEF Free, KeyState
  <2>3. /\ hRequests' \subseteq Requests /\ IsFiniteSet(hRequests')
        /\ \A e, s : /\ AcceptedShared(e)' = AcceptedShared(e) /\ AcceptedLocal(e, s)' = AcceptedLocal(e, s)
                     /\ \E x : ReservedShared(e)' \subseteq ReservedShared(e) \cup {x}
                     /\ e # q.event => ReservedShared(e)' \subseteq ReservedShared(e)
                     /\ ReservedLocal(e, s)' \subseteq ReservedLocal(e, s)
    BY <1>q, <1>t, <2>1, ToMoves
  <2>4. HookTypeInv'
    BY <1>t, <2>1, <2>2, <2>3 DEF HookTypeInv, WebhooksTypeOK
  <2>5. \A e \in HEvent : SharedMoves(e)
    BY <2>2, <2>3 DEF SharedMoves, Paid, Reserves
  <2>6. \A e \in HEvent, s \in HServer : LocalMoves(e, s)
    BY <2>2, <2>3 DEF LocalMoves, Paid
  <2>7. hFaults' >= hFaults
    BY <1>t, <2>1, HookTypes
  <2>8. KeyPaysInv'
    BY <2>1, <2>4, <2>5, <2>6, <2>7, MovesPay
  <2>9. RecordedInv'
    BY <2>1, <2>2, RecordsKept DEF RecordsStay
  <2> QED BY <2>4, <2>8, <2>9 DEF HookInv
<1>2. CASE ~Free(q.event)
  <2>1. /\ hShared' = hShared /\ hLocal' = hLocal /\ Answer(q, FALSE, TRUE)
        /\ hDeliveries' = hDeliveries /\ hWired' = hWired /\ hFaults' = hFaults /\ hLapsed' = hLapsed
    BY <1>2 DEF BeginShared
  <2>2. /\ hRequests' = hRequests \ {q} /\ IsFiniteSet(hRequests')
        /\ hAnswers' \subseteq Responses /\ IsFiniteSet(hAnswers')
        /\ \A a \in hAnswers' : a \in hAnswers \/ (a.event = q.event /\ a.shared = TRUE)
        /\ \A e, s : /\ ReservedShared(e)' = ReservedShared(e) \ {q}
                     /\ ReservedLocal(e, s)' = ReservedLocal(e, s) \ {q}
                     /\ AcceptedShared(e)' \subseteq AcceptedShared(e)
                     /\ AcceptedLocal(e, s)' \subseteq AcceptedLocal(e, s)
    BY <1>t, <2>1, DuplicateMoves
  <2>3. HookTypeInv'
    BY <1>t, <2>1, <2>2 DEF HookTypeInv, WebhooksTypeOK
  <2>4. \A e \in HEvent : SharedMoves(e)
    BY <2>1, <2>2 DEF SharedMoves, Paid
  <2>5. \A e \in HEvent, s \in HServer : LocalMoves(e, s)
    BY <2>1, <2>2 DEF LocalMoves, Paid
  <2>6. hFaults' >= hFaults
    BY <1>t, <2>1, HookTypes
  <2>7. KeyPaysInv'
    BY <2>1, <2>3, <2>4, <2>5, <2>6, MovesPay
  <2>8. RecordedInv'
    BY <1>2, <2>1, <2>2, RecordsKept DEF RecordsStay, Free
  <2> QED BY <2>3, <2>7, <2>8 DEF HookInv
<1> QED BY <1>1, <1>2

\* The same in the instance's own records.
LEMMA BeginLocalKeeps ==
  ASSUME HookInv, NEW q \in hRequests, BeginLocal(q)
  PROVE  HookInv'
<1>t. HookTypeInv
  BY DEF HookInv
<1>q. q.event \in HEvent /\ q.server \in HServer /\ q.at = "begin"
  BY <1>t, HookTypes DEF BeginLocal
<1>1. CASE hLocal[q.server][q.event] = "none"
  <2>1. /\ hShared' = hShared
        /\ hLocal' = [hLocal EXCEPT ![q.server][q.event] = "running"]
        /\ To(q, "complete", FALSE) /\ hAnswers' = hAnswers
        /\ hDeliveries' = hDeliveries /\ hWired' = hWired /\ hFaults' = hFaults /\ hLapsed' = hLapsed
    BY <1>1 DEF BeginLocal
  <2>2. /\ hLocal' \in [HServer -> [HEvent -> KeyState]]
        /\ hLocal'[q.server][q.event] = "running"
        /\ \A s \in HServer, e \in HEvent : hLocal[s][e] # "none" => hLocal'[s][e] # "none"
    BY <1>q, <1>t, <2>1, HookTypes DEF KeyState
  <2>3. /\ hRequests' \subseteq Requests /\ IsFiniteSet(hRequests')
        /\ \A e, s : /\ AcceptedShared(e)' = AcceptedShared(e) /\ AcceptedLocal(e, s)' = AcceptedLocal(e, s)
                     /\ \E x : ReservedLocal(e, s)' \subseteq ReservedLocal(e, s) \cup {x}
                     /\ e # q.event \/ s # q.server => ReservedLocal(e, s)' \subseteq ReservedLocal(e, s)
                     /\ ReservedShared(e)' \subseteq ReservedShared(e)
    BY <1>q, <1>t, <2>1, ToMoves
  <2>4. HookTypeInv'
    BY <1>t, <2>1, <2>2, <2>3 DEF HookTypeInv, WebhooksTypeOK
  <2>5. \A e \in HEvent : SharedMoves(e)
    BY <2>1, <2>3 DEF SharedMoves, Paid
  <2>6. \A e \in HEvent, s \in HServer : LocalMoves(e, s)
    BY <1>1, <2>2, <2>3 DEF LocalMoves, Paid, Reserves
  <2>7. hFaults' >= hFaults
    BY <1>t, <2>1, HookTypes
  <2>8. KeyPaysInv'
    BY <2>1, <2>4, <2>5, <2>6, <2>7, MovesPay
  <2>9. RecordedInv'
    BY <2>1, <2>2, RecordsKept DEF RecordsStay
  <2> QED BY <2>4, <2>8, <2>9 DEF HookInv
<1>2. CASE hLocal[q.server][q.event] # "none"
  <2>1. /\ hShared' = hShared /\ hLocal' = hLocal /\ Answer(q, FALSE, FALSE)
        /\ hDeliveries' = hDeliveries /\ hWired' = hWired /\ hFaults' = hFaults /\ hLapsed' = hLapsed
    BY <1>2 DEF BeginLocal
  <2>2. /\ hRequests' = hRequests \ {q} /\ IsFiniteSet(hRequests')
        /\ hAnswers' \subseteq Responses /\ IsFiniteSet(hAnswers')
        /\ \A a \in hAnswers' : a \in hAnswers
              \/ (a.event = q.event /\ a.server = q.server /\ a.shared = FALSE)
        /\ \A e, s : /\ ReservedShared(e)' = ReservedShared(e) \ {q}
                     /\ ReservedLocal(e, s)' = ReservedLocal(e, s) \ {q}
                     /\ AcceptedShared(e)' \subseteq AcceptedShared(e)
                     /\ AcceptedLocal(e, s)' \subseteq AcceptedLocal(e, s)
    BY <1>t, <2>1, DuplicateMoves
  <2>3. HookTypeInv'
    BY <1>t, <2>1, <2>2 DEF HookTypeInv, WebhooksTypeOK
  <2>4. \A e \in HEvent : SharedMoves(e)
    BY <2>1, <2>2 DEF SharedMoves, Paid
  <2>5. \A e \in HEvent, s \in HServer : LocalMoves(e, s)
    BY <2>1, <2>2 DEF LocalMoves, Paid
  <2>6. hFaults' >= hFaults
    BY <1>t, <2>1, HookTypes
  <2>7. KeyPaysInv'
    BY <2>1, <2>3, <2>4, <2>5, <2>6, MovesPay
  <2>8. RecordedInv'
    BY <1>2, <2>1, <2>2, RecordsKept DEF RecordsStay
  <2> QED BY <2>3, <2>7, <2>8 DEF HookInv
<1> QED BY <1>1, <1>2

\* The reservation becomes an acceptance, with a record of it.
LEMMA CompleteKeyKeeps ==
  ASSUME HookInv, NEW q \in hRequests, CompleteKey(q)
  PROVE  HookInv'
<1>t. HookTypeInv
  BY DEF HookInv
<1>q. q.event \in HEvent /\ q.server \in HServer /\ q.at = "complete" /\ q.shared \in BOOLEAN
  BY <1>t, HookTypes DEF CompleteKey
<1>1. /\ hShared' = hShared \/ hShared' = [hShared EXCEPT ![q.event] = "completed"]
      /\ hLocal' = [hLocal EXCEPT ![q.server][q.event] = "completed"]
      /\ Answer(q, TRUE, q.shared)
      /\ hDeliveries' = hDeliveries /\ hWired' = hWired /\ hFaults' = hFaults /\ hLapsed' = hLapsed
  BY DEF CompleteKey
<1>2. /\ hShared' \in [HEvent -> KeyState] /\ hLocal' \in [HServer -> [HEvent -> KeyState]]
      /\ hLocal'[q.server][q.event] = "completed"
      /\ \A e \in HEvent : hShared[e] # "none" => hShared'[e] # "none"
      /\ \A s \in HServer, e \in HEvent : hLocal[s][e] # "none" => hLocal'[s][e] # "none"
  BY <1>q, <1>t, <1>1, HookTypes DEF KeyState
<1>3. PICK fresh \in BOOLEAN, b \in BOOLEAN : fresh = TRUE /\ b = q.shared
  BY <1>q
<1>4. Answer(q, fresh, b)
  BY <1>1, <1>3
<1>5. /\ hRequests' = hRequests \ {q} /\ IsFiniteSet(hRequests')
      /\ hAnswers' \subseteq Responses /\ IsFiniteSet(hAnswers')
      /\ \A a \in hAnswers' : a \in hAnswers
            \/ (a.event = q.event /\ a.server = q.server /\ a.shared = b)
  BY <1>t, <1>4, AnswerMoves
<1>6. HookTypeInv'
  BY <1>t, <1>1, <1>2, <1>5 DEF HookTypeInv, WebhooksTypeOK
<1>7. ASSUME NEW e \in HEvent PROVE SharedMoves(e)
  <2>1. /\ ReservedShared(e)' = ReservedShared(e) \ {q}
        /\ \E x : AcceptedShared(e)' \subseteq AcceptedShared(e) \cup {x}
        /\ e # q.event \/ ~b => AcceptedShared(e)' \subseteq AcceptedShared(e)
    <3>1. ReservedShared(e)' = ReservedShared(e) \ {q}
      BY <1>t, <1>4, AnswerMoves
    <3>2. \E x : AcceptedShared(e)' \subseteq AcceptedShared(e) \cup {x}
      BY <1>t, <1>4, AnswerMoves, Zenon
    <3>3. e # q.event \/ ~fresh \/ ~b => AcceptedShared(e)' \subseteq AcceptedShared(e)
      BY <1>t, <1>4, AnswerMoves
    <3> QED BY <3>1, <3>2, <3>3, <1>3
  <2>2. e = q.event /\ b => q \in ReservedShared(e)
    BY <1>q, <1>3 DEF ReservedShared
  <2>3. Paid(AcceptedShared(e), ReservedShared(e), AcceptedShared(e)', ReservedShared(e)')
    BY <2>1, <2>2 DEF Paid
  <2> QED BY <1>2, <2>3 DEF SharedMoves
<1>8. ASSUME NEW e \in HEvent, NEW s \in HServer PROVE LocalMoves(e, s)
  <2>1. /\ ReservedLocal(e, s)' = ReservedLocal(e, s) \ {q}
        /\ \E x : AcceptedLocal(e, s)' \subseteq AcceptedLocal(e, s) \cup {x}
        /\ e # q.event \/ s # q.server \/ ~fresh \/ b
             => AcceptedLocal(e, s)' \subseteq AcceptedLocal(e, s)
    <3>1. \A f, p :
             /\ ReservedLocal(f, p)' = ReservedLocal(f, p) \ {q}
             /\ \E x : AcceptedLocal(f, p)' \subseteq AcceptedLocal(f, p) \cup {x}
      BY <1>t, <1>4, AnswerMoves
    <3>2. \A f, p : f # q.event \/ p # q.server \/ ~fresh \/ b
             => AcceptedLocal(f, p)' \subseteq AcceptedLocal(f, p)
      BY <1>t, <1>4, AnswerMoves
    <3> QED BY <3>1, <3>2
  <2>2. e = q.event /\ s = q.server /\ ~b => q \in ReservedLocal(e, s)
    BY <1>q, <1>3 DEF ReservedLocal
  <2>3. Paid(AcceptedLocal(e, s), ReservedLocal(e, s), AcceptedLocal(e, s)', ReservedLocal(e, s)')
    BY <1>3, <2>1, <2>2 DEF Paid
  <2> QED BY <1>2, <2>3 DEF LocalMoves
<1>9. hFaults' >= hFaults
  BY <1>t, <1>1, HookTypes
<1>10. KeyPaysInv'
  BY <1>1, <1>6, <1>7, <1>8, <1>9, MovesPay
<1>11. b => hShared'[q.event] # "none"
  <2>1. b => q \in ReservedShared(q.event)
    BY <1>q, <1>3 DEF ReservedShared
  <2> QED BY <1>q, <1>2, <2>1 DEF HookInv, KeyPaysInv
<1>12. RecordedInv'
  BY <1>1, <1>2, <1>5, <1>11, RecordsKept DEF RecordsStay
<1> QED BY <1>6, <1>10, <1>12 DEF HookInv

\* A step that answers nothing and reserves nothing.
Quiet ==
    /\ hAnswers' = hAnswers /\ hFaults' >= hFaults
    /\ \A q \in hRequests' : q \in hRequests \/ q.at = "begin"
    /\ \A e \in HEvent : \/ hShared[e] # "none" => hShared'[e] # "none"
                         \/ ReservedShared(e) = {} /\ e \in hLapsed' /\ hFaults' = hFaults + 1

\* Steps that accept and reserve nothing keep the invariant.
LEMMA QuietKeeps ==
  ASSUME HookInv, HookTypeInv', RecordsStay, Quiet
  PROVE  HookInv'
<1>1. \A e, s :
         /\ Paid(AcceptedShared(e), ReservedShared(e), AcceptedShared(e)', ReservedShared(e)')
         /\ Paid(AcceptedLocal(e, s), ReservedLocal(e, s), AcceptedLocal(e, s)', ReservedLocal(e, s)')
  BY QuietMoves DEF HookInv, Quiet
<1>2. \A e \in HEvent : SharedMoves(e)
  BY <1>1 DEF SharedMoves, Quiet
<1>3. \A e \in HEvent, s \in HServer : LocalMoves(e, s)
  BY <1>1 DEF LocalMoves, RecordsStay
<1>4. KeyPaysInv'
  BY <1>2, <1>3, MovesPay DEF RecordsStay, Quiet
<1>5. RecordedInv'
  BY RecordsKept DEF Quiet
<1> QED BY <1>4, <1>5 DEF HookInv

\* Failing commands, whether they were carried out or not.
LEMMA FailsKeep ==
  ASSUME HookInv, NEW q \in hRequests, NEW applied \in BOOLEAN,
         BeginFails(q, applied) \/ CompleteFails(q, applied)
  PROVE  HookInv'
<1>t. HookTypeInv
  BY DEF HookInv
<1>1. /\ \/ hShared' = hShared
         \/ hShared' = [hShared EXCEPT ![q.event] = "running"]
         \/ hShared' = [hShared EXCEPT ![q.event] = "completed"]
      /\ hRequests' = hRequests \ {q} /\ hFaults' = hFaults + 1 /\ hFaults < HMaxFaults
      /\ hLocal' = hLocal /\ hWired' = hWired /\ hDeliveries' = hDeliveries
      /\ hAnswers' = hAnswers /\ hLapsed' = hLapsed
  BY DEF BeginFails, CompleteFails, Fault, Reserved
<1>2. /\ hShared' \in [HEvent -> KeyState]
      /\ \A e \in HEvent : hShared[e] # "none" => hShared'[e] # "none"
  BY <1>1, <1>t, HookTypes DEF KeyState
<1>3. hFaults' >= hFaults /\ hFaults' \in 0..HMaxFaults
  BY <1>1, <1>t, HookTypes
<1>4. IsFiniteSet(hRequests') /\ hRequests' \subseteq Requests
  BY <1>1, <1>t, HookTypes, FS_RemoveElement
<1>5. HookTypeInv'
  BY <1>1, <1>2, <1>3, <1>4, <1>t DEF HookTypeInv, WebhooksTypeOK
<1>6. Quiet /\ RecordsStay
  <2>1. RecordsStay
    BY <1>1, <1>2 DEF RecordsStay
  <2>2. \A p \in hRequests' : p \in hRequests \/ p.at = "begin"
    BY <1>1
  <2>3. hAnswers' = hAnswers /\ hFaults' >= hFaults
    BY <1>1, <1>3
  <2> QED BY <2>1, <2>2, <2>3, <1>2 DEF Quiet
<1> QED BY <1>5, <1>6, QuietKeeps

\* The shared store is wired, a delivery arrives, an instance restarts.
LEMMA InstanceKeeps ==
  ASSUME HookInv, NEW s \in HServer,
         WireRemote(s) \/ InstanceRestarts(s) \/ \E e \in HEvent : DeliverEvent(e, s)
  PROVE  HookInv'
<1>t. HookTypeInv
  BY DEF HookInv
<1>1. CASE WireRemote(s)
  <2>1. HookTypeInv'
    BY <1>1, <1>t DEF WireRemote, HookTypeInv, WebhooksTypeOK
  <2>2. hFaults' >= hFaults
    BY <1>1, <1>t, HookTypes DEF WireRemote
  <2>3. Quiet /\ RecordsStay
    BY <1>1, <2>2 DEF WireRemote, Quiet, RecordsStay
  <2> QED BY <2>1, <2>3, QuietKeeps
<1>2. CASE InstanceRestarts(s)
  <2>1. hRequests' \subseteq hRequests /\ hFaults' >= hFaults /\ hFaults' \in 0..HMaxFaults
    BY <1>2, <1>t, HookTypes DEF InstanceRestarts, Fault
  <2>2. IsFiniteSet(hRequests') /\ hRequests' \subseteq Requests
    BY <2>1, <1>t, HookTypes, FS_Subset
  <2>3. hWired' \in [HServer -> BOOLEAN]
    BY <1>2, <1>t, HookTypes DEF InstanceRestarts
  <2>4. HookTypeInv'
    BY <1>2, <2>1, <2>2, <2>3, <1>t DEF InstanceRestarts, HookTypeInv, WebhooksTypeOK
  <2>5. Quiet /\ RecordsStay
    BY <1>2, <2>1 DEF InstanceRestarts, Quiet, RecordsStay
  <2> QED BY <2>4, <2>5, QuietKeeps
<1>3. ASSUME NEW e \in HEvent, DeliverEvent(e, s) PROVE HookInv'
  <2>1. PICK r : r = [n |-> hDeliveries + 1, event |-> e, server |-> s, at |-> "begin", shared |-> FALSE]
    OBVIOUS
  <2>2. r \in Requests /\ r.at = "begin" /\ hRequests' = hRequests \cup {r} /\ hDeliveries' \in Nat
    BY <1>3, <2>1, <1>t, HookTypes DEF DeliverEvent, Requests
  <2>3. IsFiniteSet(hRequests') /\ hRequests' \subseteq Requests
    BY <2>2, <1>t, HookTypes, FS_AddElement
  <2>4. HookTypeInv'
    BY <1>3, <2>2, <2>3, <1>t DEF DeliverEvent, HookTypeInv, WebhooksTypeOK
  <2>5. hFaults' >= hFaults
    BY <1>3, <1>t, HookTypes DEF DeliverEvent
  <2>6. \A q \in hRequests' : q \in hRequests \/ q.at = "begin"
    BY <2>2
  <2>7. Quiet /\ RecordsStay
    BY <1>3, <2>5, <2>6 DEF DeliverEvent, Quiet, RecordsStay
  <2> QED BY <2>4, <2>7, QuietKeeps
<1> QED BY <1>1, <1>2, <1>3

\* A shared key ends when no request uses it.
LEMMA KeyExpiresKeeps ==
  ASSUME HookInv, NEW e \in HEvent, KeyExpires(e)
  PROVE  HookInv'
<1>t. HookTypeInv
  BY DEF HookInv
<1>1. /\ hShared' = [hShared EXCEPT ![e] = "none"] /\ hLapsed' = hLapsed \cup {e}
      /\ hFaults' = hFaults + 1 /\ hFaults < HMaxFaults
      /\ hLocal' = hLocal /\ hWired' = hWired /\ hDeliveries' = hDeliveries
      /\ hAnswers' = hAnswers /\ hRequests' = hRequests
      /\ \A q \in hRequests : q.event # e
  BY DEF KeyExpires, Fault
<1>2. ReservedShared(e) = {}
  BY <1>1 DEF ReservedShared
<1>3. /\ hShared' \in [HEvent -> KeyState]
      /\ \A f \in HEvent : f # e => hShared'[f] = hShared[f]
  BY <1>1, <1>t, HookTypes DEF KeyState
<1>4. hFaults' >= hFaults /\ hFaults' \in 0..HMaxFaults
  BY <1>1, <1>t, HookTypes
<1>5. HookTypeInv'
  BY <1>1, <1>3, <1>4, <1>t DEF HookTypeInv, WebhooksTypeOK
<1>6. RecordsStay
  BY <1>1, <1>3 DEF RecordsStay
<1>7. Quiet
  BY <1>1, <1>2, <1>3, <1>4 DEF Quiet
<1> QED BY <1>5, <1>6, <1>7, QuietKeeps

\* The invariant of the events is kept by every step.
LEMMA HookInvStep == HookInv /\ [WebhooksNext]_webhookVars => HookInv'
<1> SUFFICES ASSUME HookInv, [WebhooksNext]_webhookVars PROVE HookInv'
  OBVIOUS
<1>1. CASE UNCHANGED webhookVars
  <2>1. \A e, s : /\ AcceptedShared(e)' = AcceptedShared(e) /\ ReservedShared(e)' = ReservedShared(e)
                  /\ AcceptedLocal(e, s)' = AcceptedLocal(e, s)
                  /\ ReservedLocal(e, s)' = ReservedLocal(e, s) /\ Lapses(e)' = Lapses(e)
    BY <1>1 DEF webhookVars, AcceptedShared, AcceptedLocal, ReservedShared, ReservedLocal, Lapses
  <2>2. HookTypeInv' /\ RecordedInv'
    BY <1>1 DEF webhookVars, HookInv, HookTypeInv, WebhooksTypeOK, RecordedInv
  <2>3. KeyPaysInv'
    BY <1>1, <2>1 DEF webhookVars, HookInv, KeyPaysInv
  <2> QED BY <2>2, <2>3 DEF HookInv
<1> QED BY <1>1, BeginSharedKeeps, BeginLocalKeeps, CompleteKeyKeeps, FailsKeep, InstanceKeeps,
           KeyExpiresKeeps DEF WebhooksNext

\* "Distributed reservation: cross-instance safe": what the keys pay for bounds
\* the answers that accepted an event.
LEMMA HookInvAccepts == HookInv => WebhooksTypeOK /\ AcceptedOnce
<1> SUFFICES ASSUME HookInv PROVE WebhooksTypeOK /\ AcceptedOnce
  OBVIOUS
<1>t. HookTypeInv /\ WebhooksTypeOK
  BY DEF HookInv, HookTypeInv
<1>1. ASSUME NEW e \in HEvent
      PROVE  Cardinality(AcceptedShared(e)) <= IF e \in hLapsed THEN hFaults + 1 ELSE 1
  <2>1. /\ Cardinality(AcceptedShared(e)) + Cardinality(ReservedShared(e))
             <= Lapses(e) + Taken(hShared[e])
        /\ Cardinality(AcceptedShared(e)) \in Nat /\ Cardinality(ReservedShared(e)) \in Nat
    BY <1>t, HookSizes DEF HookInv, KeyPaysInv
  <2>2. /\ Lapses(e) = (IF e \in hLapsed THEN hFaults ELSE 0) /\ hFaults \in Nat
        /\ Taken(hShared[e]) \in {0, 1}
    BY <1>t, HookTypes DEF Lapses, Taken
  <2>3. \A a, r, l \in Nat : \A t \in {0, 1} : a + r <= l + t => a <= l + 1
    OBVIOUS
  <2>4. Lapses(e) \in Nat
    BY <2>2
  <2>5. Cardinality(AcceptedShared(e)) <= Lapses(e) + 1
    BY <2>1, <2>2, <2>3, <2>4
  <2> QED BY <2>2, <2>5
<1>2. ASSUME NEW e \in HEvent, NEW s \in HServer
      PROVE  Cardinality(AcceptedLocal(e, s)) <= 1
  <2>1. /\ Cardinality(AcceptedLocal(e, s)) + Cardinality(ReservedLocal(e, s)) <= Taken(hLocal[s][e])
        /\ Cardinality(AcceptedLocal(e, s)) \in Nat /\ Cardinality(ReservedLocal(e, s)) \in Nat
        /\ Taken(hLocal[s][e]) \in {0, 1}
    BY <1>t, HookSizes DEF HookInv, KeyPaysInv, Taken
  <2>2. \A a, r \in Nat : \A t \in {0, 1} : a + r <= t => a <= 1
    OBVIOUS
  <2> QED BY <2>1, <2>2
<1>3. ASSUME NEW e \in HEvent, NEW a \in hAnswers, a.event = e
      PROVE  IF a.shared THEN hShared[e] # "none" \/ e \in hLapsed ELSE hLocal[a.server][e] # "none"
  BY <1>3 DEF HookInv, RecordedInv
<1> SUFFICES ASSUME NEW e \in HEvent
             PROVE  LET of == {a \in hAnswers : a.event = e}
                        accepted == {a \in of : a.fresh}
                    IN  /\ Cardinality({a \in accepted : a.shared})
                             <= IF e \in hLapsed THEN hFaults + 1 ELSE 1
                        /\ \A s \in HServer :
                              Cardinality({a \in accepted : a.server = s /\ ~a.shared}) <= 1
                        /\ \A a \in of : IF a.shared THEN hShared[e] # "none" \/ e \in hLapsed
                                         ELSE hLocal[a.server][e] # "none"
  BY <1>t DEF AcceptedOnce
<1> DEFINE of == {a \in hAnswers : a.event = e}
           accepted == {a \in of : a.fresh}
<1>4. {a \in accepted : a.shared} = AcceptedShared(e)
  BY DEF AcceptedShared
<1>5. \A s \in HServer : {a \in accepted : a.server = s /\ ~a.shared} = AcceptedLocal(e, s)
  BY DEF AcceptedLocal
<1>6. \A a \in of : a \in hAnswers /\ a.event = e
  OBVIOUS
<1> HIDE DEF of, accepted
<1>7. /\ Cardinality({a \in accepted : a.shared}) <= IF e \in hLapsed THEN hFaults + 1 ELSE 1
      /\ \A s \in HServer : Cardinality({a \in accepted : a.server = s /\ ~a.shared}) <= 1
      /\ \A a \in of : IF a.shared THEN hShared[e] # "none" \/ e \in hLapsed
                       ELSE hLocal[a.server][e] # "none"
  BY <1>1, <1>2, <1>3, <1>4, <1>5, <1>6
<1> QED BY <1>7 DEF of, accepted
-----------------------------------------------------------------------------
(* The in-memory queue. *)

\* The list holds every job once, and none that is anywhere else.
ListInv ==
    /\ \A i \in 1..Len(mpending) : mjob[mpending[i]].at = "pending"
    /\ \A i, k \in 1..Len(mpending) : mpending[i] = mpending[k] => i = k

\* A job was delivered once for each failed attempt, and once more when it runs;
\* without a retry there is no failed attempt.
AttemptsInv ==
    \A j \in MJob :
        /\ mjob[j].at \in {"new", "refused"} => mjob[j].attempts = 0 /\ mjob[j].runs = 0
        /\ mjob[j].at \in {"pending", "running"} => mjob[j].attempts < MMaxAttempts
        /\ mjob[j].at = "backoff" => j \in MRetryable /\ mjob[j].attempts < MMaxAttempts
        /\ mjob[j].at \in {"pending", "backoff"} => mjob[j].runs = mjob[j].attempts
        /\ mjob[j].at = "running" => mjob[j].runs = mjob[j].attempts + 1
        /\ j \notin MRetryable => mjob[j].attempts = 0

QueueInv == MQTypeOK /\ ListInv /\ AttemptsInv /\ AnswerIsHonest

\* The empty queue.
LEMMA QueueInvInit == MQInit => QueueInv
<1> SUFFICES ASSUME MQInit PROVE QueueInv
  OBVIOUS
<1>1. mpending = <<>> /\ Len(mpending) = 0 /\ mpending \in Seq(MJob) /\ mopen = {}
  BY DEF MQInit
<1>2. \A j \in MJob : /\ mjob[j] = [at |-> "new", attempts |-> 0, runs |-> 0]
                      /\ mjob[j].at = "new" /\ mjob[j].attempts = 0 /\ mjob[j].runs = 0
                      /\ answer[j] = "none"
  BY DEF MQInit
<1>3. 0 \in 0..MMaxAttempts
  BY MemoryQueueAssumption
<1>4. mjob \in [MJob -> [at: Where, attempts: 0..MMaxAttempts, runs: Nat]]
  BY <1>3 DEF MQInit, Where
<1>5. MQTypeOK
  BY <1>1, <1>4, MemoryQueueAssumption DEF MQInit, MQTypeOK, Answers
<1>6. ListInv /\ AttemptsInv /\ AnswerIsHonest
  BY <1>1, <1>2 DEF ListInv, AttemptsInv, AnswerIsHonest
<1> QED BY <1>5, <1>6 DEF QueueInv

JobRec == [at: Where, attempts: 0..MMaxAttempts, runs: Nat]

\* The types as the steps need them.
LEMMA QueueTypes ==
  ASSUME MQTypeOK
  PROVE  /\ mpending \in Seq(MJob) /\ mjob \in [MJob -> JobRec]
         /\ mkeys \in [MKey -> MJob \cup {NoMJob}] /\ mopen \subseteq MJob
         /\ answer \in [MJob -> Answers]
         /\ mended \in [MJob -> SUBSET {"completed", "failed", "dead_letter"}]
         /\ mclosed \in {"open", "closing", "closed"}
         /\ \A j \in MJob : /\ mjob[j].at \in Where /\ mjob[j].attempts \in 0..MMaxAttempts
                            /\ mjob[j].attempts \in Nat /\ mjob[j].runs \in Nat
  BY MemoryQueueAssumption DEF MQTypeOK, JobRec

\* Keys and answers stay typed.
LEMMA FreedTyped ==
  ASSUME MQTypeOK, NEW js
  PROVE  Freed(js) \in [MKey -> MJob \cup {NoMJob}]
  BY QueueTypes DEF Freed
\* _settleWaiter tells requests an answer.
LEMMA ToldTyped ==
  ASSUME NEW f \in [MJob -> Answers], NEW js, NEW what \in Answers
  PROVE  Told(f, js, what) \in [MJob -> Answers]
  BY DEF Told

\* A job that changes its place only: nothing else moves.
JobOK(j, at, attempts, runs) ==
    /\ at \in Where /\ attempts \in 0..MMaxAttempts /\ runs \in Nat
    /\ at \in {"new", "refused"} => attempts = 0 /\ runs = 0
    /\ at \in {"pending", "running"} => attempts < MMaxAttempts
    /\ at = "backoff" => j \in MRetryable /\ attempts < MMaxAttempts
    /\ at \in {"pending", "backoff"} => runs = attempts
    /\ at = "running" => runs = attempts + 1
    /\ j \notin MRetryable => attempts = 0

\* The attempts of the jobs fit when those of the job that moved do.
LEMMA AttemptsKept ==
  ASSUME MQTypeOK, AttemptsInv, NEW j \in MJob, NEW r, mjob' = [mjob EXCEPT ![j] = r],
         r \in JobRec, JobOK(j, r.at, r.attempts, r.runs)
  PROVE  /\ mjob' \in [MJob -> JobRec] /\ AttemptsInv' /\ mjob'[j] = r
         /\ \A i \in MJob \ {j} : mjob'[i] = mjob[i]
<1>1. mjob' \in [MJob -> JobRec] /\ mjob'[j] = r /\ \A i \in MJob \ {j} : mjob'[i] = mjob[i]
  BY QueueTypes
<1>2. ASSUME NEW i \in MJob
      PROVE  JobOK(i, mjob'[i].at, mjob'[i].attempts, mjob'[i].runs)
  <2>1. CASE i = j
    BY <1>1, <2>1
  <2>2. CASE i # j
    <3>1. mjob'[i] = mjob[i]
      BY <1>1, <2>2
    <3>2. JobOK(i, mjob[i].at, mjob[i].attempts, mjob[i].runs)
      BY QueueTypes DEF AttemptsInv, JobOK
    <3> QED BY <3>1, <3>2
  <2> QED BY <2>1, <2>2
<1>3. AttemptsInv'
  BY <1>2 DEF AttemptsInv, JobOK
<1> QED BY <1>1, <1>3

\* The list when another job changes, when a job is appended and when the head
\* is taken.
LEMMA ListSame ==
  ASSUME QueueInv, NEW j \in MJob, mjob[j].at # "pending", mpending' = mpending,
         \A i \in MJob \ {j} : mjob'[i] = mjob[i]
  PROVE  ListInv'
<1>1. \A i \in 1..Len(mpending) : mpending[i] \in MJob /\ mpending[i] # j
  BY QueueTypes DEF QueueInv, ListInv
<1> QED BY <1>1 DEF QueueInv, ListInv

\* A job that was nowhere in the list goes to its end.
LEMMA ListAppended ==
  ASSUME QueueInv, NEW j \in MJob, mjob[j].at # "pending", mpending' = Append(mpending, j),
         mjob'[j].at = "pending", \A i \in MJob \ {j} : mjob'[i] = mjob[i]
  PROVE  ListInv' /\ mpending' \in Seq(MJob)
<1>1. /\ mpending \in Seq(MJob)
      /\ \A i \in 1..Len(mpending) : mpending[i] \in MJob /\ mpending[i] # j
  BY QueueTypes DEF QueueInv, ListInv
<1>2. /\ mpending' \in Seq(MJob) /\ Len(mpending') = Len(mpending) + 1
      /\ mpending'[Len(mpending) + 1] = j
      /\ \A i \in 1..Len(mpending) : mpending'[i] = mpending[i]
  BY <1>1
<1>3. \A i \in 1..Len(mpending') : i \in 1..Len(mpending) \/ i = Len(mpending) + 1
  BY <1>1, <1>2
<1> QED BY <1>1, <1>2, <1>3 DEF QueueInv, ListInv

\* The head leaves the list and is nowhere else in it.
LEMMA ListTaken ==
  ASSUME QueueInv, mpending # <<>>, mpending' = Tail(mpending),
         \A i \in MJob \ {Head(mpending)} : mjob'[i] = mjob[i]
  PROVE  /\ ListInv' /\ mpending' \in Seq(MJob) /\ Head(mpending) \in MJob
         /\ mjob[Head(mpending)].at = "pending"
<1>1. mpending \in Seq(MJob) /\ Len(mpending) >= 1 /\ Head(mpending) = mpending[1]
  BY QueueTypes DEF QueueInv
<1>2. \A i \in 1..Len(mpending) : mpending[i] \in MJob
  BY <1>1
<1>3. /\ mpending' \in Seq(MJob) /\ Len(mpending') = Len(mpending) - 1
      /\ \A i \in 1..Len(mpending') : i + 1 \in 1..Len(mpending) /\ mpending'[i] = mpending[i + 1]
  BY <1>1
<1>4. \A i \in 1..Len(mpending') : mpending'[i] # Head(mpending)
  <2> SUFFICES ASSUME NEW i \in 1..Len(mpending') PROVE mpending'[i] # Head(mpending)
    OBVIOUS
  <2>1. i + 1 # 1 /\ 1 \in 1..Len(mpending)
    BY <1>1, <1>3
  <2> QED BY <1>1, <1>3, <2>1 DEF QueueInv, ListInv
<1>5. ASSUME NEW i \in 1..Len(mpending'), NEW k \in 1..Len(mpending'), mpending'[i] = mpending'[k]
      PROVE  i = k
  <2>1. i + 1 = k + 1
    BY <1>3, <1>5 DEF QueueInv, ListInv
  <2> QED BY <1>3, <2>1
<1>6. \A i \in 1..Len(mpending') : mjob'[mpending'[i]].at = "pending"
  BY <1>2, <1>3, <1>4 DEF QueueInv, ListInv
<1>7. ListInv'
  BY <1>5, <1>6 DEF ListInv
<1> QED BY <1>1, <1>2, <1>3, <1>7 DEF QueueInv, ListInv

\* What the request of one job may be told.
HonestFor(a, at, runs, marks, open) ==
    /\ a \in {"claimed", "accepted", "result"} => runs > 0
    /\ a = "error" => at = "ended" /\ "failed" \in marks
    /\ open => at \in InQueue

\* Answers are honest when that of the job that moved is.
LEMMA HonestKept ==
  ASSUME AnswerIsHonest, NEW j \in MJob,
         HonestFor(answer'[j], mjob'[j].at, mjob'[j].runs, mended'[j], j \in mopen'),
         \A i \in MJob \ {j} : mjob'[i] = mjob[i] /\ answer'[i] = answer[i] /\ mended'[i] = mended[i],
         mopen' \subseteq mopen \cup {j}
  PROVE  AnswerIsHonest'
<1>1. ASSUME NEW i \in MJob
      PROVE  HonestFor(answer'[i], mjob'[i].at, mjob'[i].runs, mended'[i], i \in mopen')
  BY DEF AnswerIsHonest, HonestFor
<1> QED BY <1>1 DEF AnswerIsHonest, HonestFor

\* A job ends: its request is told what became of it.
LEMMA EndKeeps ==
  ASSUME QueueInv, NEW j \in MJob, mjob[j].at \in InQueue,
         NEW marks \in SUBSET {"completed", "failed", "dead_letter"}, NEW what \in {"error", "result"},
         what = "error" => "failed" \in marks, what = "result" => mjob[j].runs > 0,
         EndM(j, marks, what)
  PROVE  /\ mjob' \in [MJob -> JobRec] /\ mkeys' \in [MKey -> MJob \cup {NoMJob}]
         /\ mopen' \subseteq MJob /\ answer' \in [MJob -> Answers]
         /\ mended' \in [MJob -> SUBSET {"completed", "failed", "dead_letter"}]
         /\ AttemptsInv' /\ AnswerIsHonest'
         /\ \A i \in MJob \ {j} : mjob'[i] = mjob[i]
<1>t. MQTypeOK /\ AttemptsInv /\ AnswerIsHonest
  BY DEF QueueInv
<1>1. PICK r : r = [mjob[j] EXCEPT !.at = "ended"]
  OBVIOUS
<1>2. mjob[j] \in JobRec
  BY <1>t, QueueTypes
<1>3. /\ r \in JobRec /\ r.at = "ended" /\ r.attempts = mjob[j].attempts /\ r.runs = mjob[j].runs
  BY <1>1, <1>2 DEF JobRec, Where
<1>4. JobOK(j, r.at, r.attempts, r.runs)
  BY <1>t, <1>3, QueueTypes DEF JobOK, AttemptsInv, Where
<1>5. mjob' = [mjob EXCEPT ![j] = r]
  BY <1>1, <1>t, QueueTypes DEF EndM
<1>6. /\ mjob' \in [MJob -> JobRec] /\ AttemptsInv' /\ mjob'[j] = r
      /\ \A i \in MJob \ {j} : mjob'[i] = mjob[i]
  BY <1>t, <1>3, <1>4, <1>5, AttemptsKept
<1>7. /\ mkeys' = Freed({j}) /\ answer' = Told(answer, {j}, what) /\ mopen' = mopen \ {j}
      /\ mended' = [mended EXCEPT ![j] = @ \cup marks]
  BY DEF EndM
<1>8. what \in Answers
  BY DEF Answers
<1>9. mkeys' \in [MKey -> MJob \cup {NoMJob}] /\ answer' \in [MJob -> Answers]
  BY <1>t, <1>7, <1>8, FreedTyped, ToldTyped, QueueTypes
<1>10. /\ mended' \in [MJob -> SUBSET {"completed", "failed", "dead_letter"}]
       /\ marks \subseteq mended'[j] /\ \A i \in MJob \ {j} : mended'[i] = mended[i]
  BY <1>t, <1>7, QueueTypes
<1>11. /\ answer'[j] = what \/ answer'[j] = answer[j]
       /\ \A i \in MJob \ {j} : answer'[i] = answer[i]
  BY <1>7 DEF Told
<1>12. HonestFor(answer'[j], mjob'[j].at, mjob'[j].runs, mended'[j], j \in mopen')
  <2>1. j \notin mopen'
    BY <1>7
  <2>2. CASE answer'[j] = what
    BY <2>1, <2>2, <1>3, <1>6, <1>10 DEF HonestFor
  <2>3. CASE answer'[j] = answer[j]
    BY <2>1, <2>3, <1>t, <1>3, <1>6 DEF HonestFor, AnswerIsHonest, InQueue
  <2> QED BY <1>11, <2>2, <2>3
<1>13. AnswerIsHonest'
  BY <1>t, <1>6, <1>7, <1>10, <1>11, <1>12, HonestKept
<1> QED BY <1>t, <1>6, <1>7, <1>9, <1>10, <1>13, QueueTypes

\* A turn of the drain loop.
LEMMA DrainKeeps == ASSUME QueueInv, Drain PROVE QueueInv'
<1> DEFINE j == Head(mpending)
<1>t. MQTypeOK /\ AttemptsInv /\ AnswerIsHonest
  BY DEF QueueInv
<1>1. /\ mpending # <<>> /\ mpending' = Tail(mpending) /\ mclosed' = mclosed
      /\ \/ /\ mjob' = [mjob EXCEPT ![j].at = "running", ![j].runs = @ + 1]
            /\ answer' = [answer EXCEPT ![j] = IF @ = "waiting" THEN "claimed" ELSE @]
            /\ mkeys' = mkeys /\ mopen' = mopen /\ mended' = mended
         \/ EndM(j, {"failed"}, "error")
  BY DEF Drain
<1>2. j \in MJob /\ mjob[j].at = "pending"
  <2>1. mpending \in Seq(MJob) /\ 1 \in 1..Len(mpending) /\ j = mpending[1]
    BY <1>t, <1>1, QueueTypes
  <2> QED BY <2>1 DEF QueueInv, ListInv
<1> HIDE DEF j
<1>3. CASE EndM(j, {"failed"}, "error")
  <2>1. mjob[j].at \in InQueue
    BY <1>2 DEF InQueue
  <2>2. /\ mjob' \in [MJob -> JobRec] /\ mkeys' \in [MKey -> MJob \cup {NoMJob}]
        /\ mopen' \subseteq MJob /\ answer' \in [MJob -> Answers]
        /\ mended' \in [MJob -> SUBSET {"completed", "failed", "dead_letter"}]
        /\ AttemptsInv' /\ AnswerIsHonest'
        /\ \A i \in MJob \ {j} : mjob'[i] = mjob[i]
    BY <1>2, <1>3, <2>1, EndKeeps
  <2>3. ListInv' /\ mpending' \in Seq(MJob)
    BY <1>1, <2>2, ListTaken DEF j
  <2>4. MQTypeOK'
    BY <1>1, <1>t, <2>2, <2>3, QueueTypes DEF MQTypeOK, JobRec
  <2> QED BY <2>2, <2>3, <2>4 DEF QueueInv
<1>4. CASE /\ mjob' = [mjob EXCEPT ![j].at = "running", ![j].runs = @ + 1]
           /\ answer' = [answer EXCEPT ![j] = IF @ = "waiting" THEN "claimed" ELSE @]
           /\ mkeys' = mkeys /\ mopen' = mopen /\ mended' = mended
  <2>1. PICK r : r = [mjob[j] EXCEPT !.at = "running", !.runs = @ + 1]
    OBVIOUS
  <2>2. mjob[j] \in JobRec
    BY <1>2, <1>t, QueueTypes
  <2>3. /\ r \in JobRec /\ r.at = "running" /\ r.attempts = mjob[j].attempts
        /\ r.runs = mjob[j].runs + 1
    <3>1. PICK o \in JobRec : o = mjob[j]
      BY <2>2
    <3>2. r = [at |-> "running", attempts |-> o.attempts, runs |-> o.runs + 1]
      BY <2>1, <3>1 DEF JobRec
    <3>3. o.attempts \in 0..MMaxAttempts /\ o.runs + 1 \in Nat
      BY DEF JobRec
    <3> QED BY <3>1, <3>2, <3>3 DEF JobRec, Where
  <2>4. JobOK(j, r.at, r.attempts, r.runs)
    BY <1>2, <1>t, <2>2, <2>3 DEF JobOK, AttemptsInv, JobRec
  <2>5. mjob' = [mjob EXCEPT ![j] = r]
    BY <1>4, <2>1, <1>2, <1>t, QueueTypes
  <2>6. /\ mjob' \in [MJob -> JobRec] /\ AttemptsInv' /\ mjob'[j] = r
        /\ \A i \in MJob \ {j} : mjob'[i] = mjob[i]
    BY <1>t, <1>2, <2>3, <2>4, <2>5, AttemptsKept
  <2>7. ListInv' /\ mpending' \in Seq(MJob)
    BY <1>1, <2>6, ListTaken DEF j
  <2>8. /\ answer' \in [MJob -> Answers] /\ answer'[j] \in {"claimed", answer[j]}
        /\ \A i \in MJob \ {j} : answer'[i] = answer[i]
    BY <1>4, <1>2, <1>t, QueueTypes DEF Answers
  <2>9. HonestFor(answer'[j], mjob'[j].at, mjob'[j].runs, mended'[j], j \in mopen')
    <3>1. mjob'[j].runs > 0 /\ mjob'[j].at = "running"
      BY <1>2, <1>t, <2>3, <2>6, QueueTypes
    <3>2. answer'[j] # "error"
      BY <1>2, <1>t, <2>8 DEF AnswerIsHonest
    <3> QED BY <3>1, <3>2 DEF HonestFor, InQueue
  <2>10. AnswerIsHonest'
    BY <1>2, <1>4, <1>t, <2>6, <2>8, <2>9, HonestKept
  <2>11. MQTypeOK'
    BY <1>1, <1>4, <1>t, <2>6, <2>7, <2>8, QueueTypes DEF MQTypeOK, JobRec
  <2> QED BY <2>6, <2>7, <2>10, <2>11 DEF QueueInv
<1> QED BY <1>1, <1>3, <1>4

\* A job arrives: it waits in the list or is refused as a duplicate.
LEMMA EnqueueKeeps ==
  ASSUME QueueInv, NEW j \in MJob, NEW fire \in BOOLEAN, EnqueueM(j, fire)
  PROVE  QueueInv'
<1>t. MQTypeOK /\ AttemptsInv /\ AnswerIsHonest
  BY DEF QueueInv
<1>1. /\ mjob[j].at = "new" /\ mended' = mended /\ mclosed' = mclosed
      /\ \/ /\ mjob' = [mjob EXCEPT ![j].at = "refused"]
            /\ answer' = [answer EXCEPT ![j] = "duplicate"]
            /\ mpending' = mpending /\ mkeys' = mkeys /\ mopen' = mopen
         \/ /\ mjob' = [mjob EXCEPT ![j].at = "pending"]
            /\ mpending' = Append(mpending, j)
            /\ mkeys' = [mkeys EXCEPT ![MKeyOf[j]] = j]
            /\ \/ mopen' = mopen /\ answer' = answer
               \/ mopen' = mopen \cup {j} /\ answer' = [answer EXCEPT ![j] = "waiting"]
  BY DEF EnqueueM
<1>2. PICK at \in {"refused", "pending"} : mjob' = [mjob EXCEPT ![j].at = at]
  BY <1>1
<1>3. PICK r : r = [mjob[j] EXCEPT !.at = at]
  OBVIOUS
<1>4. mjob[j] \in JobRec
  BY <1>t, QueueTypes
<1>5. r \in JobRec /\ r.at = at /\ r.attempts = mjob[j].attempts /\ r.runs = mjob[j].runs
  BY <1>3, <1>4 DEF JobRec, Where
<1>6. JobOK(j, r.at, r.attempts, r.runs)
  BY <1>1, <1>t, <1>5, MemoryQueueAssumption DEF JobOK, AttemptsInv, Where
<1>7. mjob' = [mjob EXCEPT ![j] = r]
  BY <1>2, <1>3, <1>t, QueueTypes
<1>8. /\ mjob' \in [MJob -> JobRec] /\ AttemptsInv' /\ mjob'[j] = r
      /\ \A i \in MJob \ {j} : mjob'[i] = mjob[i]
  BY <1>t, <1>5, <1>6, <1>7, AttemptsKept
<1>9. answer[j] \notin {"claimed", "accepted", "result", "error"} /\ j \notin mopen
  BY <1>1, <1>t DEF AttemptsInv, AnswerIsHonest, InQueue
<1>10. CASE /\ mjob' = [mjob EXCEPT ![j].at = "refused"]
            /\ answer' = [answer EXCEPT ![j] = "duplicate"]
            /\ mpending' = mpending /\ mkeys' = mkeys /\ mopen' = mopen
  <2>1. ListInv'
    BY <1>1, <1>8, <1>10, ListSame
  <2>2. /\ answer' \in [MJob -> Answers] /\ answer'[j] = "duplicate"
        /\ \A i \in MJob \ {j} : answer'[i] = answer[i]
    BY <1>10, <1>t, QueueTypes DEF Answers
  <2>3. HonestFor(answer'[j], mjob'[j].at, mjob'[j].runs, mended'[j], j \in mopen')
    BY <1>9, <1>10, <2>2 DEF HonestFor
  <2>4. AnswerIsHonest'
    BY <1>1, <1>t, <1>8, <1>10, <2>2, <2>3, HonestKept
  <2>5. MQTypeOK'
    BY <1>1, <1>8, <1>10, <1>t, <2>2, QueueTypes DEF MQTypeOK, JobRec
  <2> QED BY <1>8, <2>1, <2>4, <2>5 DEF QueueInv
<1>11. CASE /\ mjob' = [mjob EXCEPT ![j].at = "pending"]
            /\ mpending' = Append(mpending, j)
            /\ mkeys' = [mkeys EXCEPT ![MKeyOf[j]] = j]
            /\ \/ mopen' = mopen /\ answer' = answer
               \/ mopen' = mopen \cup {j} /\ answer' = [answer EXCEPT ![j] = "waiting"]
  <2>1. mjob'[j].at = "pending"
    BY <1>11, <1>t, QueueTypes, <1>4 DEF JobRec
  <2>2. ListInv' /\ mpending' \in Seq(MJob)
    BY <1>1, <1>8, <1>11, <2>1, ListAppended
  <2>3. /\ answer' \in [MJob -> Answers] /\ answer'[j] \in {"waiting", answer[j]}
        /\ \A i \in MJob \ {j} : answer'[i] = answer[i]
    BY <1>11, <1>t, QueueTypes DEF Answers
  <2>4. /\ mkeys' \in [MKey -> MJob \cup {NoMJob}] /\ mopen' \subseteq MJob
        /\ mopen' \subseteq mopen \cup {j}
    BY <1>11, <1>t, QueueTypes
  <2>5. HonestFor(answer'[j], mjob'[j].at, mjob'[j].runs, mended'[j], j \in mopen')
    BY <1>9, <2>1, <2>3 DEF HonestFor, InQueue
  <2>6. AnswerIsHonest'
    BY <1>1, <1>t, <1>8, <2>3, <2>4, <2>5, HonestKept
  <2>7. MQTypeOK'
    BY <1>1, <1>8, <1>t, <2>2, <2>3, <2>4, QueueTypes DEF MQTypeOK, JobRec
  <2> QED BY <1>8, <2>2, <2>6, <2>7 DEF QueueInv
<1> QED BY <1>1, <1>10, <1>11

\* A job that runs has been delivered.
LEMMA RunningRan ==
  ASSUME QueueInv, NEW j \in MJob, mjob[j].at = "running"
  PROVE  mjob[j].runs > 0 /\ mjob[j].at \in InQueue /\ mjob[j].at # "pending"
<1>1. mjob[j].attempts \in Nat /\ mjob[j].runs = mjob[j].attempts + 1
  BY QueueTypes DEF QueueInv, AttemptsInv
<1> QED BY <1>1 DEF InQueue

\* A job that is not in the list ends.
LEMMA EndOutside ==
  ASSUME QueueInv, NEW j \in MJob, mjob[j].at \in {"running", "backoff"},
         NEW marks \in SUBSET {"completed", "failed", "dead_letter"}, NEW what \in {"error", "result"},
         what = "error" => "failed" \in marks, what = "result" => mjob[j].runs > 0,
         EndM(j, marks, what), mpending' = mpending, mclosed' = mclosed
  PROVE  QueueInv'
<1>1. mjob[j].at \in InQueue /\ mjob[j].at # "pending"
  BY DEF InQueue
<1>2. /\ mjob' \in [MJob -> JobRec] /\ mkeys' \in [MKey -> MJob \cup {NoMJob}]
      /\ mopen' \subseteq MJob /\ answer' \in [MJob -> Answers]
      /\ mended' \in [MJob -> SUBSET {"completed", "failed", "dead_letter"}]
      /\ AttemptsInv' /\ AnswerIsHonest'
      /\ \A i \in MJob \ {j} : mjob'[i] = mjob[i]
  BY <1>1, EndKeeps
<1>3. ListInv'
  BY <1>1, <1>2, ListSame
<1>4. MQTypeOK'
  BY <1>2, QueueTypes DEF QueueInv, MQTypeOK, JobRec
<1> QED BY <1>2, <1>3, <1>4 DEF QueueInv

\* _afterSuccess.
LEMMA SucceedsKeeps == ASSUME QueueInv, NEW j \in MJob, Succeeds(j) PROVE QueueInv'
<1>1. /\ mjob[j].at = "running" /\ EndM(j, {"completed"}, "result")
      /\ mpending' = mpending /\ mclosed' = mclosed
  BY DEF Succeeds
<1> QED BY <1>1, RunningRan, EndOutside

\* _afterFailure: the job waits for its next attempt, one more of them behind it.
LEMMA RetryKeeps ==
  ASSUME QueueInv, NEW j \in MJob, mjob[j].at = "running", j \in MRetryable,
         mjob[j].attempts + 1 < MMaxAttempts,
         mjob' = [mjob EXCEPT ![j].at = "backoff", ![j].attempts = @ + 1],
         mkeys' = mkeys, mopen' = mopen, answer' = answer, mended' = mended,
         mpending' = mpending, mclosed' = mclosed
  PROVE  QueueInv'
<1>t. MQTypeOK /\ AttemptsInv /\ AnswerIsHonest
  BY DEF QueueInv
<1>1. PICK o \in JobRec : o = mjob[j]
  BY <1>t, QueueTypes
<1>2. PICK r : r = [mjob[j] EXCEPT !.at = "backoff", !.attempts = @ + 1]
  OBVIOUS
<1>3. /\ o.attempts \in Nat /\ o.runs \in Nat /\ o.runs = o.attempts + 1
      /\ o.attempts + 1 \in 0..MMaxAttempts
  BY <1>t, <1>1, MemoryQueueAssumption DEF AttemptsInv, JobRec
<1>4. /\ r \in JobRec /\ r.at = "backoff" /\ r.attempts = o.attempts + 1 /\ r.runs = o.runs
  <2>1. r = [at |-> "backoff", attempts |-> o.attempts + 1, runs |-> o.runs]
    BY <1>1, <1>2 DEF JobRec
  <2> QED BY <1>3, <2>1 DEF JobRec, Where
<1>5. JobOK(j, r.at, r.attempts, r.runs)
  BY <1>1, <1>3, <1>4 DEF JobOK, Where
<1>6. mjob' = [mjob EXCEPT ![j] = r]
  BY <1>2, <1>t, QueueTypes
<1>7. /\ mjob' \in [MJob -> JobRec] /\ AttemptsInv' /\ mjob'[j] = r
      /\ \A i \in MJob \ {j} : mjob'[i] = mjob[i]
  BY <1>t, <1>4, <1>5, <1>6, AttemptsKept
<1>8. ListInv'
  BY <1>7, ListSame
<1>9. HonestFor(answer'[j], mjob'[j].at, mjob'[j].runs, mended'[j], j \in mopen')
  <2>1. mjob'[j].at = "backoff" /\ mjob'[j].runs = mjob[j].runs
    BY <1>1, <1>4, <1>7
  <2> QED BY <2>1, <1>t DEF HonestFor, AnswerIsHonest, InQueue
<1>10. AnswerIsHonest'
  BY <1>t, <1>7, <1>9, HonestKept
<1>11. MQTypeOK'
  BY <1>t, <1>7, QueueTypes DEF MQTypeOK, JobRec
<1> QED BY <1>7, <1>8, <1>10, <1>11 DEF QueueInv

\* _afterFailure: the job is retried or fails.
LEMMA FailsKeeps ==
  ASSUME QueueInv, NEW j \in MJob, NEW final \in BOOLEAN, Fails(j, final)
  PROVE  QueueInv'
<1>1. mjob[j].at = "running" /\ mpending' = mpending /\ mclosed' = mclosed
  BY DEF Fails
<1>2. CASE RetriesM(j, final)
  <2>1. /\ mjob' = [mjob EXCEPT ![j].at = "backoff", ![j].attempts = @ + 1]
        /\ mkeys' = mkeys /\ mopen' = mopen /\ answer' = answer /\ mended' = mended
    BY <1>2 DEF Fails
  <2>2. j \in MRetryable /\ mjob[j].attempts + 1 < MMaxAttempts
    BY <1>2 DEF RetriesM
  <2> QED BY <1>1, <2>1, <2>2, RetryKeeps
<1>3. CASE ~RetriesM(j, final)
  <2>1. PICK marks \in {{"failed", "dead_letter"}, {"failed"}} : EndM(j, marks, "error")
    BY <1>3 DEF Fails
  <2>2. marks \in SUBSET {"completed", "failed", "dead_letter"} /\ "failed" \in marks
    BY <2>1
  <2> QED BY <1>1, <2>1, <2>2, EndOutside
<1> QED BY <1>2, <1>3

\* The backoff timer.
LEMMA BackoffTimerKeeps == ASSUME QueueInv, NEW j \in MJob, BackoffTimer(j) PROVE QueueInv'
<1>t. MQTypeOK /\ AttemptsInv /\ AnswerIsHonest
  BY DEF QueueInv
<1>0. mjob[j].at = "backoff" /\ mclosed' = mclosed
  BY DEF BackoffTimer
<1>1. CASE mclosed # "open"
  <2>1. EndM(j, {"failed"}, "error") /\ mpending' = mpending
    BY <1>1 DEF BackoffTimer
  <2> QED BY <1>0, <2>1, EndOutside
<1>2. CASE mclosed = "open"
  <2>0. /\ mjob' = [mjob EXCEPT ![j].at = "pending"] /\ mpending' = Append(mpending, j)
        /\ mkeys' = mkeys /\ mopen' = mopen /\ answer' = answer /\ mended' = mended
    BY <1>2 DEF BackoffTimer
  <2>1. PICK o \in JobRec : o = mjob[j]
    BY <1>t, QueueTypes
  <2>2. PICK r : r = [o EXCEPT !.at = "pending"]
    OBVIOUS
  <2>3. /\ r \in JobRec /\ r.at = "pending" /\ r.attempts = o.attempts /\ r.runs = o.runs
    BY <2>1, <2>2 DEF JobRec, Where
  <2>4. JobOK(j, r.at, r.attempts, r.runs)
    <3>1. /\ o.attempts \in 0..MMaxAttempts /\ o.runs \in Nat /\ o.at = "backoff"
          /\ o.attempts < MMaxAttempts /\ o.runs = o.attempts /\ j \in MRetryable
      BY <1>0, <1>t, <2>1 DEF AttemptsInv, JobRec
    <3> QED BY <2>3, <3>1 DEF JobOK, Where
  <2>5. mjob' = [mjob EXCEPT ![j] = r]
    BY <2>0, <2>1, <2>2, <1>t, QueueTypes
  <2>6. /\ mjob' \in [MJob -> JobRec] /\ AttemptsInv' /\ mjob'[j] = r
        /\ \A i \in MJob \ {j} : mjob'[i] = mjob[i]
    BY <1>t, <2>3, <2>4, <2>5, AttemptsKept
  <2>7. ListInv' /\ mpending' \in Seq(MJob)
    BY <1>0, <2>0, <2>3, <2>6, ListAppended
  <2>8. HonestFor(answer'[j], mjob'[j].at, mjob'[j].runs, mended'[j], j \in mopen')
    <3>1. mjob'[j].at = "pending" /\ mjob'[j].runs = mjob[j].runs
      BY <2>1, <2>3, <2>6
    <3>2. answer[j] # "error"
      BY <1>0, <1>t DEF AnswerIsHonest
    <3> QED BY <3>1, <3>2, <2>0, <1>t DEF HonestFor, AnswerIsHonest, InQueue
  <2>9. AnswerIsHonest'
    BY <1>t, <2>0, <2>6, <2>8, HonestKept
  <2>10. MQTypeOK'
    BY <1>0, <1>t, <2>0, <2>6, <2>7, QueueTypes DEF MQTypeOK, JobRec
  <2> QED BY <2>6, <2>7, <2>9, <2>10 DEF QueueInv
<1> QED BY <1>1, <1>2

\* A request stops to wait: only its answer changes.
LEMMA AnswerKeeps ==
  ASSUME QueueInv, NEW j \in MJob, NEW a \in {"accepted", "timeout"},
         a = "accepted" => answer[j] = "claimed", answer' = [answer EXCEPT ![j] = a],
         UNCHANGED <<mpending, mjob, mkeys, mopen, mended, mclosed>>
  PROVE  QueueInv'
<1>t. MQTypeOK /\ AttemptsInv /\ AnswerIsHonest /\ ListInv
  BY DEF QueueInv
<1>1. /\ answer' \in [MJob -> Answers] /\ answer'[j] = a
      /\ \A i \in MJob \ {j} : answer'[i] = answer[i]
  BY <1>t, QueueTypes DEF Answers
<1>2. HonestFor(answer'[j], mjob'[j].at, mjob'[j].runs, mended'[j], j \in mopen')
  BY <1>t, <1>1 DEF HonestFor, AnswerIsHonest
<1>3. AnswerIsHonest'
  BY <1>t, <1>1, <1>2, HonestKept
<1>4. ListInv' /\ AttemptsInv'
  BY <1>t DEF ListInv, AttemptsInv
<1>5. MQTypeOK'
  BY <1>t, <1>1 DEF MQTypeOK
<1> QED BY <1>3, <1>4, <1>5 DEF QueueInv

\* The end of close: what was listed is dropped, and nobody waits any more.
LEMMA CloseEndKeeps == ASSUME QueueInv, CloseMEnds PROVE QueueInv'
<1>t. MQTypeOK /\ AttemptsInv /\ AnswerIsHonest /\ ListInv
  BY DEF QueueInv
<1> DEFINE dropped == {mpending[i] : i \in 1..Len(mpending)}
<1>1. /\ mclosed' = "closed" /\ mpending' = <<>> /\ mopen' = {} /\ mended' = mended
      /\ mjob' = [j \in MJob |-> IF j \in dropped THEN [mjob[j] EXCEPT !.at = "dropped"] ELSE mjob[j]]
      /\ mkeys' = [k \in MKey |-> NoMJob]
      /\ answer' = Told(answer, MJob, "closed")
  BY DEF CloseMEnds
<1>2. \A j \in dropped : mjob[j].at = "pending"
  BY <1>t DEF ListInv
<1> HIDE DEF dropped
<1>3. ASSUME NEW j \in MJob
      PROVE  /\ mjob'[j] \in JobRec
             /\ JobOK(j, mjob'[j].at, mjob'[j].attempts, mjob'[j].runs)
             /\ mjob'[j].runs = mjob[j].runs
             /\ mjob[j].at = "ended" => mjob'[j].at = "ended"
  <2>1. mjob[j] \in JobRec /\ JobOK(j, mjob[j].at, mjob[j].attempts, mjob[j].runs)
    BY <1>t, QueueTypes DEF JobOK, AttemptsInv
  <2>2. CASE j \notin dropped
    <3>1. mjob'[j] = mjob[j]
      BY <1>1, <2>2
    <3> QED BY <2>1, <3>1
  <2>3. CASE j \in dropped
    <3>1. PICK r : r = [mjob[j] EXCEPT !.at = "dropped"]
      OBVIOUS
    <3>2. mjob'[j] = r
      BY <1>1, <2>3, <3>1
    <3>3. /\ r \in JobRec /\ r.at = "dropped" /\ r.attempts = mjob[j].attempts
          /\ r.runs = mjob[j].runs
      BY <2>1, <3>1 DEF JobRec, Where
    <3>4. JobOK(j, r.at, r.attempts, r.runs)
      BY <2>1, <3>3 DEF JobOK, Where
    <3> QED BY <1>2, <2>3, <3>2, <3>3, <3>4
  <2> QED BY <2>2, <2>3
<1>4. mjob' \in [MJob -> JobRec]
  <2>1. mjob' = [j \in MJob |-> mjob'[j]]
    BY <1>1
  <2> QED BY <1>3, <2>1
<1>5. AttemptsInv'
  BY <1>3 DEF AttemptsInv, JobOK
<1>6. \A j \in MJob : answer'[j] = answer[j] \/ answer'[j] = "closed"
  BY <1>1 DEF Told
<1>7. answer' \in [MJob -> Answers]
  <2>1. "closed" \in Answers
    BY DEF Answers
  <2> QED BY <1>1, <1>t, <2>1, ToldTyped, QueueTypes
<1>8. AnswerIsHonest'
  BY <1>1, <1>3, <1>6, <1>t DEF AnswerIsHonest
<1>9. ListInv' /\ mpending' \in Seq(MJob)
  <2>1. Len(mpending') = 0 /\ mpending' \in Seq(MJob)
    BY <1>1
  <2> QED BY <2>1 DEF ListInv
<1>10. mkeys' \in [MKey -> MJob \cup {NoMJob}]
  BY <1>1
<1>11. MQTypeOK'
  BY <1>1, <1>4, <1>7, <1>9, <1>10, <1>t, QueueTypes DEF MQTypeOK, JobRec
<1> QED BY <1>5, <1>8, <1>9, <1>11 DEF QueueInv

\* Every step of the in-memory queue keeps its invariant.
LEMMA QueueInvStep == QueueInv /\ [MQNext]_mqVars => QueueInv'
<1> SUFFICES ASSUME QueueInv, [MQNext]_mqVars PROVE QueueInv'
  OBVIOUS
<1>1. ASSUME NEW j \in MJob, JobStepM(j) PROVE QueueInv'
  <2>1. CASE \E fire \in BOOLEAN : EnqueueM(j, fire)
    BY <2>1, EnqueueKeeps
  <2>2. CASE Succeeds(j)
    BY <2>2, SucceedsKeeps
  <2>3. CASE \E final \in BOOLEAN : Fails(j, final)
    BY <2>3, FailsKeeps
  <2>4. CASE BackoffTimer(j)
    BY <2>4, BackoffTimerKeeps
  <2>5. CASE GraceEnds(j)
    <3>1. /\ answer[j] = "claimed" /\ answer' = [answer EXCEPT ![j] = "accepted"]
          /\ UNCHANGED <<mpending, mjob, mkeys, mopen, mended, mclosed>>
      BY <2>5 DEF GraceEnds
    <3> QED BY <3>1, AnswerKeeps
  <2>6. CASE ClaimTimeout(j)
    <3>1. /\ answer' = [answer EXCEPT ![j] = "timeout"]
          /\ UNCHANGED <<mpending, mjob, mkeys, mopen, mended, mclosed>>
      BY <2>6 DEF ClaimTimeout
    <3> QED BY <3>1, AnswerKeeps
  <2> QED BY <1>1, <2>1, <2>2, <2>3, <2>4, <2>5, <2>6 DEF JobStepM
<1>2. CASE Drain
  BY <1>2, DrainKeeps
<1>3. CASE CloseM
  <2>1. ListInv' /\ AttemptsInv' /\ AnswerIsHonest'
    BY <1>3 DEF CloseM, QueueInv, ListInv, AttemptsInv, AnswerIsHonest
  <2>2. MQTypeOK'
    BY <1>3 DEF CloseM, QueueInv, MQTypeOK
  <2> QED BY <2>1, <2>2 DEF QueueInv
<1>4. CASE CloseMEnds
  BY <1>4, CloseEndKeeps
<1>5. CASE UNCHANGED mqVars
  <2>1. ListInv' /\ AttemptsInv' /\ AnswerIsHonest'
    BY <1>5 DEF mqVars, QueueInv, ListInv, AttemptsInv, AnswerIsHonest
  <2>2. MQTypeOK'
    BY <1>5 DEF mqVars, QueueInv, MQTypeOK
  <2> QED BY <2>1, <2>2 DEF QueueInv
<1> QED BY <1>1, <1>2, <1>3, <1>4, <1>5 DEF MQNext

\* Every step of the in-memory queue is a delivery, a terminal state or nothing
\* to the promise.
LEMMA PromiseInit == MQInit => MPromise!Init
<1> SUFFICES ASSUME MQInit PROVE MPromise!Init
  OBVIOUS
<1>1. \A j \in MJob : mjob[j].runs = 0
  BY DEF MQInit
<1>2. \A j \in MJob : {<<j, n>> : n \in 1..mjob[j].runs} = {}
  BY <1>1
<1>3. [j \in MJob |-> {<<j, n>> : n \in 1..mjob[j].runs}] = [j \in MJob |-> {}]
  BY <1>2
<1>4. mended = [j \in MJob |-> {}]
  BY DEF MQInit
<1> QED BY <1>3, <1>4 DEF MPromise!Init

Claims == [j \in MJob |-> {<<j, n>> : n \in 1..mjob[j].runs}]

\* A terminal state in the eyes of the promise.
LEMMA EndIsPromised ==
  ASSUME QueueInv, NEW j \in MJob, mjob[j].at \in InQueue,
         NEW marks \in MPromise!Terminal, NEW what,
         "completed" \in marks => mjob[j].runs > 0, EndM(j, marks, what)
  PROVE  MPromise!Next
<1>1. \A i \in MJob : mjob'[i].runs = mjob[i].runs
  BY QueueTypes DEF QueueInv, EndM, JobRec
<1>2. Claims' = Claims
  BY <1>1 DEF Claims
<1>3. "completed" \in marks => Claims[j] # {}
  <2> SUFFICES ASSUME "completed" \in marks PROVE Claims[j] # {}
    OBVIOUS
  <2>1. 1 \in 1..mjob[j].runs
    BY QueueTypes DEF QueueInv
  <2>2. <<j, 1>> \in Claims[j]
    BY <2>1 DEF Claims
  <2> QED BY <2>2
<1>4. mended' = [mended EXCEPT ![j] = @ \cup marks]
  BY DEF EndM
<1>5. MPromise!End(j, marks)
  BY <1>2, <1>3, <1>4 DEF MPromise!End, Claims
<1> QED BY <1>5 DEF MPromise!Next

\* A delivery in the eyes of the promise.
LEMMA DeliveryIsPromised ==
  ASSUME QueueInv, NEW j \in MJob, mjob[j].at = "pending", mended' = mended,
         mjob' = [mjob EXCEPT ![j].at = "running", ![j].runs = @ + 1]
  PROVE  MPromise!Next
<1>t. MQTypeOK /\ AttemptsInv
  BY DEF QueueInv
<1>1. PICK n : n = mjob[j].runs + 1
  OBVIOUS
<1>2. /\ mjob[j].runs = mjob[j].attempts /\ mjob[j].attempts < MMaxAttempts
      /\ j \notin MRetryable => mjob[j].runs = 0
  BY <1>t DEF AttemptsInv
<1>3. n \in 1..MMaxAttempts /\ mjob[j].runs \in Nat
  BY <1>t, <1>1, <1>2, QueueTypes, MemoryQueueAssumption
<1>4. <<j, n>> \in MJob \X (1..MMaxAttempts)
  BY <1>3
<1>5. mjob'[j].runs = n /\ \A i \in MJob \ {j} : mjob'[i].runs = mjob[i].runs
  BY <1>1, <1>t, QueueTypes DEF JobRec
<1>6. Claims' = [Claims EXCEPT ![j] = @ \cup {<<j, n>>}]
  <2>1. {<<j, m>> : m \in 1..n} = {<<j, m>> : m \in 1..mjob[j].runs} \cup {<<j, n>>}
    <3>1. 1..n = (1..mjob[j].runs) \cup {n}
      BY <1>1, <1>3
    <3> QED BY <3>1
  <2>2. Claims' = [i \in MJob |-> {<<i, m>> : m \in 1..mjob'[i].runs}]
    BY DEF Claims
  <2>3. Claims'[j] = {<<j, m>> : m \in 1..n} /\ Claims[j] = {<<j, m>> : m \in 1..mjob[j].runs}
    BY <1>5, <2>2 DEF Claims
  <2>4. \A i \in MJob \ {j} : Claims'[i] = Claims[i]
    BY <1>5, <2>2 DEF Claims
  <2>5. [Claims EXCEPT ![j] = @ \cup {<<j, n>>}]
           = [i \in MJob |-> IF i = j THEN Claims[j] \cup {<<j, n>>} ELSE Claims[i]]
    BY DEF Claims
  <2>6. Claims' = [i \in MJob |-> Claims'[i]]
    BY <2>2
  <2>7. \A i \in MJob : Claims'[i] = IF i = j THEN Claims[j] \cup {<<j, n>>} ELSE Claims[i]
    BY <2>1, <2>3, <2>4
  <2> HIDE DEF Claims
  <2> QED BY <2>5, <2>6, <2>7
<1>7. \A i \in MJob : <<j, n>> \notin Claims[i]
  BY <1>1, <1>3 DEF Claims
<1>8. j \in MRetryable \/ Claims[j] = {}
  BY <1>2 DEF Claims
<1>9. MPromise!Deliver(j, <<j, n>>)
  BY <1>6, <1>7, <1>8 DEF MPromise!Deliver, Claims
<1> QED BY <1>4, <1>9 DEF MPromise!Next

\* Steps that deliver nothing and end nothing.
LEMMA QuietIsPromised ==
  ASSUME mended' = mended, \A i \in MJob : mjob'[i].runs = mjob[i].runs
  PROVE  UNCHANGED MPromise!promiseVars
  BY DEF MPromise!promiseVars

\* A job that only moves keeps its deliveries.
LEMMA PlaceOnly ==
  ASSUME mjob \in [MJob -> JobRec], NEW j \in MJob, NEW at, mjob' = [mjob EXCEPT ![j].at = at]
  PROVE  \A i \in MJob : mjob'[i].runs = mjob[i].runs
<1> SUFFICES ASSUME NEW i \in MJob PROVE mjob'[i].runs = mjob[i].runs
  OBVIOUS
<1>1. mjob[i] \in JobRec
  OBVIOUS
<1>2. mjob'[i] = mjob[i] \/ mjob'[i] = [mjob[i] EXCEPT !.at = at]
  OBVIOUS
<1>3. [mjob[i] EXCEPT !.at = at].runs = mjob[i].runs
  BY <1>1 DEF JobRec
<1> QED BY <1>2, <1>3

\* Every step of the in-memory queue is a step of the promise or none.
LEMMA PromiseStep == QueueInv /\ [MQNext]_mqVars => [MPromise!Next]_(MPromise!promiseVars)
<1> SUFFICES ASSUME QueueInv, [MQNext]_mqVars
             PROVE  MPromise!Next \/ UNCHANGED MPromise!promiseVars
  OBVIOUS
<1>t. /\ MQTypeOK /\ mjob \in [MJob -> JobRec]
      /\ {"completed"} \in MPromise!Terminal /\ {"failed"} \in MPromise!Terminal
      /\ {"failed", "dead_letter"} \in MPromise!Terminal
  BY QueueTypes DEF QueueInv, MPromise!Terminal
<1>1. ASSUME NEW j \in MJob, JobStepM(j) PROVE MPromise!Next \/ UNCHANGED MPromise!promiseVars
  <2>1. CASE \E fire \in BOOLEAN : EnqueueM(j, fire)
    <3>1. PICK at \in {"refused", "pending"} : mjob' = [mjob EXCEPT ![j].at = at] /\ mended' = mended
      BY <2>1 DEF EnqueueM
    <3>2. \A i \in MJob : mjob'[i].runs = mjob[i].runs
      BY <1>t, <3>1, PlaceOnly
    <3> QED BY <3>1, <3>2, QuietIsPromised
  <2>2. CASE Succeeds(j)
    <3>1. mjob[j].at = "running" /\ EndM(j, {"completed"}, "result")
      BY <2>2 DEF Succeeds
    <3> QED BY <1>t, <3>1, RunningRan, EndIsPromised
  <2>3. CASE \E final \in BOOLEAN : Fails(j, final)
    <3>1. PICK final \in BOOLEAN : Fails(j, final)
      BY <2>3
    <3>2. CASE RetriesM(j, final)
      <4>1. mended' = mended /\ \A i \in MJob : mjob'[i].runs = mjob[i].runs
        BY <3>1, <3>2, <1>t DEF Fails, JobRec
      <4> QED BY <4>1, QuietIsPromised
    <3>3. CASE ~RetriesM(j, final)
      <4>1. PICK marks \in {{"failed", "dead_letter"}, {"failed"}} : EndM(j, marks, "error")
        BY <3>1, <3>3 DEF Fails
      <4>2. mjob[j].at = "running" /\ marks \in MPromise!Terminal /\ "completed" \notin marks
        BY <3>1, <4>1, <1>t DEF Fails
      <4> QED BY <4>1, <4>2, RunningRan, EndIsPromised
    <3> QED BY <3>2, <3>3
  <2>4. CASE BackoffTimer(j)
    <3>1. mjob[j].at \in InQueue
      BY <2>4 DEF BackoffTimer, InQueue
    <3>2. CASE mclosed # "open"
      <4>1. EndM(j, {"failed"}, "error")
        BY <2>4, <3>2 DEF BackoffTimer
      <4> QED BY <1>t, <3>1, <4>1, EndIsPromised
    <3>3. CASE mclosed = "open"
      <4>1. mended' = mended /\ mjob' = [mjob EXCEPT ![j].at = "pending"]
        BY <2>4, <3>3 DEF BackoffTimer
      <4>2. \A i \in MJob : mjob'[i].runs = mjob[i].runs
        BY <1>t, <4>1, PlaceOnly
      <4> QED BY <4>1, <4>2, QuietIsPromised
    <3> QED BY <3>2, <3>3
  <2>5. CASE GraceEnds(j) \/ ClaimTimeout(j)
    <3>1. mended' = mended /\ mjob' = mjob
      BY <2>5 DEF GraceEnds, ClaimTimeout
    <3> QED BY <3>1, QuietIsPromised
  <2> QED BY <1>1, <2>1, <2>2, <2>3, <2>4, <2>5 DEF JobStepM
<1>2. CASE Drain
  <2> DEFINE j == Head(mpending)
  <2>1. j \in MJob /\ mjob[j].at = "pending" /\ mjob[j].at \in InQueue
    <3>1. mpending \in Seq(MJob) /\ mpending # <<>>
      BY <1>2, <1>t, QueueTypes DEF Drain
    <3>2. 1 \in 1..Len(mpending) /\ j = mpending[1] /\ j \in MJob
      BY <3>1
    <3> QED BY <3>2 DEF QueueInv, ListInv, InQueue
  <2>2. \/ /\ mjob' = [mjob EXCEPT ![j].at = "running", ![j].runs = @ + 1]
           /\ mended' = mended
        \/ EndM(j, {"failed"}, "error")
    BY <1>2 DEF Drain
  <2> HIDE DEF j
  <2>3. CASE EndM(j, {"failed"}, "error")
    BY <1>t, <2>1, <2>3, EndIsPromised
  <2>4. CASE mjob' = [mjob EXCEPT ![j].at = "running", ![j].runs = @ + 1] /\ mended' = mended
    BY <2>1, <2>4, DeliveryIsPromised
  <2> QED BY <2>2, <2>3, <2>4
<1>3. CASE CloseM \/ UNCHANGED mqVars
  <2>1. mended' = mended /\ mjob' = mjob
    BY <1>3 DEF CloseM, mqVars
  <2> QED BY <2>1, QuietIsPromised
<1>4. CASE CloseMEnds
  <2>1. mended' = mended /\ \A i \in MJob : mjob'[i].runs = mjob[i].runs
    BY <1>4, <1>t DEF CloseMEnds, JobRec
  <2> QED BY <2>1, QuietIsPromised
<1> QED BY <1>1, <1>2, <1>3, <1>4 DEF MQNext
-----------------------------------------------------------------------------
(* The parts together: one of them moves at a time, the others stay. *)

CoordInv == LockInv /\ RateInv /\ StartInv /\ HookInv /\ QueueInv

\* All parts start well.
LEMMA CoordInvInit == CoordInit => CoordInv
BY LockInvInit, RateInvInit, StartInvInit, HookInvInit, QueueInvInit DEF CoordInit, CoordInv

\* What a step of the whole is to each part.
LEMMA PartsMove ==
  ASSUME [CoordNext]_<<coordVars, part>>
  PROVE  /\ [LockNext]_lockVars /\ [RateNext]_rateVars /\ [StartupNext]_upVars
         /\ [WebhooksNext]_webhookVars /\ [MQNext]_mqVars
<1>1. CASE UNCHANGED <<coordVars, part>>
  BY <1>1 DEF coordVars
<1>2. CASE CoordNext
  BY <1>2 DEF CoordNext
<1> QED BY <1>1, <1>2

\* And go on well.
LEMMA CoordInvStep == CoordInv /\ [CoordNext]_<<coordVars, part>> => CoordInv'
<1> SUFFICES ASSUME CoordInv, [CoordNext]_<<coordVars, part>> PROVE CoordInv'
  OBVIOUS
<1>1. /\ [LockNext]_lockVars /\ [RateNext]_rateVars /\ [StartupNext]_upVars
      /\ [WebhooksNext]_webhookVars /\ [MQNext]_mqVars
  BY PartsMove
<1>2. LockInv' /\ RateInv' /\ StartInv'
  BY <1>1, LockInvStep, RateInvStep, StartInvStep DEF CoordInv
<1>3. HookInv' /\ QueueInv'
  BY <1>1, HookInvStep, QueueInvStep DEF CoordInv
<1> QED BY <1>2, <1>3 DEF CoordInv

\* So the invariants of the parts hold always.
LEMMA CoordInvAlways == CoordSpec => []CoordInv
<1>1. CoordInit => CoordInv
  BY CoordInvInit
<1>2. CoordInv /\ [CoordNext]_<<coordVars, part>> => CoordInv'
  BY CoordInvStep
<1> QED BY <1>1, <1>2, PTL DEF CoordSpec

\* Instances that share a store agree (locks.js, rate-limit.js, the boot in
\* server.js, billing webhooks): a run has one worker per store while its lease
\* holds, a request window keeps a way to end, a process that says it is ready
\* shares every job it accepted, and a billing event is accepted once, whatever
\* expires, fails or crashes, for every number of instances and requests.
THEOREM InstancesAgreeAlways == CoordSpec => []InstancesAgree
<1>1. CoordInv => InstancesAgree
  <2> SUFFICES ASSUME CoordInv PROVE InstancesAgree
    OBVIOUS
  <2>1. LockTypeOK /\ FencedByLease /\ RateTypeOK /\ WindowCanEnd
    BY LockInvFences, RateInvLimits DEF CoordInv
  <2>2. StartupTypeOK /\ ReadyIsShared /\ WebhooksTypeOK /\ AcceptedOnce
    BY StartInvShares, HookInvAccepts DEF CoordInv
  <2>3. MQTypeOK
    BY DEF CoordInv, QueueInv
  <2> QED BY <2>1, <2>2, <2>3 DEF InstancesAgree, CoordTypeOK
<1> QED BY <1>1, CoordInvAlways, PTL

\* What enqueueAndClaim tells a request is true of its job, in whatever order
\* claim, outcome, timeouts and shutdown arrive (MemoryJobQueue in queue.js).
THEOREM AnswersHonest == CoordSpec => []AnswerIsHonest
<1>1. CoordInv => AnswerIsHonest
  BY DEF CoordInv, QueueInv
<1> QED BY <1>1, CoordInvAlways, PTL

\* The in-memory provider keeps the guarantees in the header of queue.js: run
\* execution is delivered once, completion presupposes a delivery, and no
\* terminal state is withdrawn.
THEOREM MemoryPromiseKept == CoordSpec => MemoryKeepsPromise
<1>1. CoordInit => MPromise!Init
  BY PromiseInit DEF CoordInit
<1>2. CoordInv /\ [CoordNext]_<<coordVars, part>> => [MPromise!Next]_(MPromise!promiseVars)
  <2> SUFFICES ASSUME CoordInv, [CoordNext]_<<coordVars, part>>
               PROVE  [MPromise!Next]_(MPromise!promiseVars)
    OBVIOUS
  <2>1. QueueInv /\ [MQNext]_mqVars
    BY PartsMove DEF CoordInv
  <2> QED BY <2>1, PromiseStep
<1> QED BY <1>1, <1>2, CoordInvAlways, PTL DEF CoordSpec, MemoryKeepsPromise, MPromise!Spec
=============================================================================
