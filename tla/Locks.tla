------------------------------- MODULE Locks --------------------------------
(***************************************************************************)
(* The distributed lock of run execution: LockManager (backend/src/        *)
(* infrastructure/locks.js) over the redis or the in-memory coordinator    *)
(* (redis.js, redis-atomic.js), as the run.execute handler of server.js    *)
(* uses it.  A worker is one delivery of a run.execute job of one run to a *)
(* process; a process has one such job in flight (inflightKeys), but a job *)
(* that timed out leaves its handler running.  In redis a command is one   *)
(* step; the in-memory coordinator answers SET NX in two (get, then set).  *)
(***************************************************************************)
EXTENDS Naturals, FiniteSets

CONSTANTS
    Worker,         \* deliveries of run.execute jobs
    Server,         \* API processes
    ServerOf,       \* the process a job is delivered to
    NoWorker,
    MaxExpiries,    \* bound: leases that run out although their worker lives
    MaxLockFaults,  \* bound: failing redis calls
    MaxLockCrashes  \* bound: process crashes

ASSUME LocksAssumption ==
    /\ ServerOf \in [Worker -> Server] /\ NoWorker \notin Worker /\ "redis" \notin Server
    /\ MaxExpiries \in Nat /\ MaxLockFaults \in Nat /\ MaxLockCrashes \in Nat

VARIABLES
    coord,      \* coordinationReady and the backend: local, probing, redis, degraded
    held,       \* per key-value store, the worker whose token is stored
    work,       \* per worker: where its handler is
    lost,       \* withLock: the lease was found lost
    late,       \* worker -> a script failed, GET found its token: SET or DEL is under way
    settled,    \* the queue has settled the job (the handler may go on)
    gone,       \* history: the worker's key expired or was overwritten while it worked
    expiries, lockFaults, lockCrashes

lockVars == <<coord, held, work, lost, late, settled, gone, expiries, lockFaults, lockCrashes>>

Place == {"new", "waiting", "trying", "free", "working", "releasing",
          "done", "busy", "unavailable", "dead"}
Ended(w) == w # NoWorker /\ work[w] \in {"done", "busy", "unavailable", "dead"}

\* The key-value store a worker talks to: redis, or the map of its process.
Redis == "redis"
StoreOf(w) == IF coord = "redis" THEN Redis ELSE ServerOf[w]

\* Redis is configured and still being connected to, or not configured.
LockInit ==
    /\ coord \in {"local", "probing"}
    /\ held = [s \in Server \cup {Redis} |-> NoWorker]
    /\ work = [w \in Worker |-> "new"]
    /\ late = [w \in Worker |-> "no"]
    /\ lost = [w \in Worker |-> FALSE] /\ settled = [w \in Worker |-> FALSE]
    /\ gone = {} /\ expiries = 0 /\ lockFaults = 0 /\ lockCrashes = 0

Move(w, from, to) == work[w] = from /\ work' = [work EXCEPT ![w] = to]

\* The job ends with its handler, unless it was settled by its timeout.
Settle(w) == settled' = [settled EXCEPT ![w] = TRUE]

LockFault == lockFaults < MaxLockFaults /\ lockFaults' = lockFaults + 1
Bounds == <<expiries, lockFaults, lockCrashes>>

\* createCoordinator answers: a client, or a degraded in-memory stand-in.
ProbeEnds ==
    /\ coord = "probing" /\ coord' \in {"redis", "degraded"}
    /\ UNCHANGED <<held, work, lost, settled, late, gone, Bounds>>

\* The queue accepts a job for the run: its key is not in flight.
KeyFree(w) ==
    /\ work[w] = "new"
    /\ \A v \in Worker : ServerOf[v] = ServerOf[w] => work[v] = "new" \/ settled[v]

\* The handler starts; while redis is being probed it waits.
Deliver(w) ==
    /\ KeyFree(w)
    /\ Move(w, "new", IF coord \in {"local", "redis"} THEN "trying" ELSE "waiting")
    /\ UNCHANGED <<coord, held, lost, settled, late, gone, Bounds>>

\* coordinationPromise resolved: go on, or refuse to run without redis.
CoordinationKnown(w) ==
    /\ coord # "probing"
    /\ Move(w, "waiting", IF coord = "redis" THEN "trying" ELSE "unavailable")
    /\ IF coord = "redis" THEN UNCHANGED settled ELSE Settle(w)
    /\ UNCHANGED <<coord, held, lost, late, gone, Bounds>>

\* tryAcquire: SET key token PX ttl NX.
Acquire(w) ==
    /\ coord = "redis"
    /\ IF held[Redis] = NoWorker
       THEN /\ Move(w, "trying", "working")
            /\ held' = [held EXCEPT ![Redis] = w] /\ UNCHANGED settled
       ELSE Move(w, "trying", "busy") /\ Settle(w) /\ UNCHANGED held
    /\ UNCHANGED <<coord, lost, late, gone, Bounds>>

\* MemoryCoordinator.set reads the key, awaits, then writes it.
MemoryGet(w) ==
    /\ coord = "local"
    /\ IF held[ServerOf[w]] = NoWorker
       THEN Move(w, "trying", "free") /\ UNCHANGED settled
       ELSE Move(w, "trying", "busy") /\ Settle(w)
    /\ UNCHANGED <<coord, held, lost, late, gone, Bounds>>
MemorySet(w) ==
    /\ Move(w, "free", "working")
    /\ held' = [held EXCEPT ![ServerOf[w]] = w]
    /\ UNCHANGED <<coord, lost, settled, late, gone, Bounds>>

\* The call fails (lock_unavailable, reported as busy), or it was applied, its
\* reply lost and the client's second call refused: the key stays behind.
AcquireFails(w, applied) ==
    /\ coord = "redis" /\ LockFault
    /\ applied => held[Redis] = NoWorker
    /\ Move(w, "trying", "busy") /\ Settle(w)
    /\ held' = IF applied THEN [held EXCEPT ![Redis] = w] ELSE held
    /\ UNCHANGED <<coord, lost, late, gone, expiries, lockCrashes>>

Holds(w) == held[StoreOf(w)] = w

\* A renewal that succeeds only moves the deadline, which Expire abstracts; one
\* that finds another token, or fails, sets lost.
RenewFails(w) ==
    /\ work[w] = "working" /\ ~lost[w]
    /\ \/ ~Holds(w) /\ UNCHANGED lockFaults
       \/ Holds(w) /\ coord = "redis" /\ LockFault
    /\ lost' = [lost EXCEPT ![w] = TRUE]
    /\ UNCHANGED <<coord, held, work, settled, late, gone, expiries, lockCrashes>>

\* The time to live runs out: of a key nobody renews, or of one whose renewals
\* did not arrive in time.
Expire(s) ==
    /\ held[s] # NoWorker
    /\ IF work[held[s]] = "working"
       THEN /\ expiries < MaxExpiries /\ expiries' = expiries + 1
            /\ gone' = gone \cup {held[s]}
       ELSE UNCHANGED <<expiries, gone>>
    /\ held' = [held EXCEPT ![s] = NoWorker]
    /\ UNCHANGED <<coord, work, lost, late, settled, lockFaults, lockCrashes>>

\* The job timed out: it failed and its key is free, but its handler goes on.
JobTimesOut(w) ==
    /\ work[w] \in {"waiting", "working"} /\ ~settled[w] /\ Settle(w)
    /\ UNCHANGED <<coord, held, work, lost, late, gone, Bounds>>

\* executeRunJob returns or throws; a lost lease is looked at only now.
JobReturns(w) ==
    /\ Move(w, "working", "releasing")
    /\ UNCHANGED <<coord, held, lost, settled, late, gone, Bounds>>

BugDeleteAnyway(w) ==
    /\ Move(w, "releasing", "done") /\ Settle(w)
    /\ held' = [held EXCEPT ![StoreOf(w)] = NoWorker]
    /\ UNCHANGED <<coord, lost, late, gone, Bounds>>

\* release: delete the key if it holds this token; an error is swallowed.
Release(w) ==
    /\ late[w] # "delete" /\ Move(w, "releasing", "done") /\ Settle(w)
    /\ \/ /\ held' = IF Holds(w) THEN [held EXCEPT ![StoreOf(w)] = NoWorker] ELSE held
          /\ UNCHANGED lockFaults
       \/ coord = "redis" /\ LockFault /\ UNCHANGED held
    /\ UNCHANGED <<coord, lost, late, gone, expiries, lockCrashes>>

\* compareAndDelete / compareAndExpire got no answer: renew and release read the
\* key with GET and, finding their token, write it in a call of its own.
FallbackReads(w) ==
    /\ coord = "redis" /\ LockFault /\ Holds(w) /\ late[w] = "no"
    /\ work[w] \in {"working", "releasing"}
    /\ late' = [late EXCEPT ![w] = IF work[w] = "working" THEN "renew" ELSE "delete"]
    /\ UNCHANGED <<coord, held, work, lost, settled, gone, expiries, lockCrashes>>
FallbackWrites(w) ==
    /\ late[w] # "no" /\ work[w] # "dead" /\ late' = [late EXCEPT ![w] = "no"]
    /\ gone' = gone \cup {v \in Worker \ {w} : held[Redis] = v /\ work[v] = "working"}
    /\ IF late[w] = "renew"
       THEN held' = [held EXCEPT ![Redis] = w] /\ UNCHANGED <<work, settled>>
       ELSE /\ held' = [held EXCEPT ![Redis] = NoWorker]
            /\ Move(w, "releasing", "done") /\ Settle(w)
    /\ UNCHANGED <<coord, lost, Bounds>>

\* The process dies: an in-memory lock with it, a redis key stays.
ServerCrash(p) ==
    /\ lockCrashes < MaxLockCrashes /\ lockCrashes' = lockCrashes + 1
    /\ work' = [w \in Worker |->
                   IF ServerOf[w] = p /\ work[w] # "new" /\ ~Ended(w) THEN "dead" ELSE work[w]]
    /\ settled' = [w \in Worker |-> settled[w] \/ (ServerOf[w] = p /\ work[w] # "new")]
    /\ held' = [held EXCEPT ![p] = NoWorker]
    /\ UNCHANGED <<coord, lost, late, gone, expiries, lockFaults>>

WorkerStepL(w) ==
    \/ Deliver(w) \/ CoordinationKnown(w) \/ Acquire(w) \/ MemoryGet(w) \/ MemorySet(w)
    \/ \E applied \in BOOLEAN : AcquireFails(w, applied)
    \/ RenewFails(w) \/ JobTimesOut(w) \/ JobReturns(w) \/ Release(w)
    \/ FallbackReads(w) \/ FallbackWrites(w)

LockNext ==
    \/ ProbeEnds \/ \E w \in Worker : WorkerStepL(w)
    \/ \E s \in Server \cup {Redis} : Expire(s)
    \/ \E p \in Server : ServerCrash(p)

LockSpec == LockInit /\ [][LockNext]_lockVars

LockTypeOK ==
    /\ coord \in {"local", "probing", "redis", "degraded"}
    /\ held \in [Server \cup {Redis} -> Worker \cup {NoWorker}]
    /\ work \in [Worker -> Place]
    /\ late \in [Worker -> {"no", "renew", "delete"}]
    /\ lost \in [Worker -> BOOLEAN] /\ settled \in [Worker -> BOOLEAN]
    /\ gone \subseteq Worker
    /\ expiries \in Nat /\ lockFaults \in Nat /\ lockCrashes \in Nat

\* "exactly one worker runs a run at a time, even across API instances"
\* (server.js 415-416), as far as a lease can give it: two workers of one store
\* are in executeRunJob together only if the lease of one of them ran out
\* before, or was overwritten by a write that a failed script let come late,
\* whatever jobs time out, calls fail, and processes crash.  In memory it takes
\* the in-flight key as well: SET NX is not atomic there.
FencedByLease ==
    \A v, w \in Worker :
        /\ v # w /\ StoreOf(v) = StoreOf(w)
        /\ work[v] = "working" /\ work[w] = "working"
        => v \in gone \/ w \in gone

\* A key that a finished, refused or dead worker left behind goes away: no run
\* stays locked for ever.
StaleLockEnds ==
    \A s \in Server \cup {Redis} :
        Ended(held[s]) ~> ~Ended(held[s])
=============================================================================
