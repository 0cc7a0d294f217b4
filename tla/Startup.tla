------------------------------- MODULE Startup -------------------------------
(***************************************************************************)
(* Boot of a process whose queue provider is redis (backend/server.js):    *)
(* requests are served at once by a queue over process memory; when the    *)
(* redis probe answers, the coordinator and the queue are exchanged and    *)
(* the jobs that wait in the old queue are carried to the new one, with    *)
(* their requests; /api/ready tells the load balancer the outcome.  The    *)
(* probe's continuation runs from the exchange to the first push without a *)
(* turn of the event loop; each push to redis is awaited.                  *)
(***************************************************************************)
EXTENDS Naturals, Sequences

CONSTANTS
    UJob, UKey, UKeyOf, NoUJob,
    MaxPushFaults  \* bound: failing pushes

ASSUME StartupAssumption ==
    /\ UKeyOf \in [UJob -> UKey] /\ NoUJob \notin UJob /\ MaxPushFaults \in Nat

VARIABLES
    backend,    \* of the coordinator: initial, redis, degraded (redis unreachable)
    ready,      \* coordinationReady
    oldq,       \* local list of the first queue
    moving,     \* jobs taken from it and not yet pushed
    newq,       \* the list of the second queue
    ukeys,      \* queue -> inflightKeys
    uat,        \* job -> where it is
    waiter,     \* job -> the queue that holds its request's waiters
    pushFaults

upVars == <<backend, ready, oldq, moving, newq, ukeys, uat, waiter, pushFaults>>

(* Configuration (config.js): what a process may boot with.                 *)

\* loadConfig, reduced to the settings that decide the stores of the process.
Config == [queue: {"memory", "redis"}, redisUrl: BOOLEAN, redisRequired: BOOLEAN,
           datastore: {"auto", "file", "postgres"}, databaseUrl: BOOLEAN,
           production: BOOLEAN, encryptionKey: BOOLEAN]

\* validateConfig: the process refuses to start with anything else.
ValidConfig(c) ==
    /\ c.datastore = "postgres" => c.databaseUrl
    /\ c.queue = "redis" \/ c.redisRequired => c.redisUrl
    /\ c.production => c.encryptionKey

\* resolvedDatastoreKind and createDatastore.
DatastoreKind(c) ==
    IF c.datastore # "auto" THEN c.datastore
    ELSE IF c.databaseUrl THEN "postgres" ELSE "file"

\* createCoordinator: without a URL there is nothing to reach.
Coordinators(c) == IF c.redisUrl THEN {"redis", "degraded"} ELSE {"memory"}

\* The processes of this module.
Booted == {c \in Config : ValidConfig(c) /\ c.queue = "redis"}
Probed == UNION {Coordinators(c) : c \in Booted}

------------------------------------------------------------------------------
UPlaces == {"new", "refused", "oldq", "oldrun", "moving", "newq", "newrun", "ended"}

StartupInit ==
    /\ backend = "initial" /\ ready = FALSE
    /\ oldq = <<>> /\ moving = <<>> /\ newq = <<>>
    /\ ukeys = [q \in {"old", "new"} |-> [k \in UKey |-> NoUJob]]
    /\ uat = [j \in UJob |-> "new"] /\ waiter = [j \in UJob |-> "none"]
    /\ pushFaults = 0

\* jobQueue: the queue requests use now.
Current == IF backend = "initial" THEN "old" ELSE "new"

\* _push: the first queue serves from the list of the process; once the probe
\* has answered, redis is needed.
CanPush == backend # "degraded"
PushFault == pushFaults < MaxPushFaults /\ pushFaults' = pushFaults + 1

\* POST /messages: a duplicate is refused, and so is a job redis does not take.
RefuseMessage(j) ==
    /\ uat[j] = "new" /\ uat' = [uat EXCEPT ![j] = "refused"]
    /\ \/ ukeys[Current][UKeyOf[j]] # NoUJob /\ UNCHANGED pushFaults
       \/ backend = "redis" /\ PushFault
       \/ ~CanPush /\ UNCHANGED pushFaults
    /\ UNCHANGED <<backend, ready, oldq, moving, newq, ukeys, waiter>>
AcceptMessage(j) ==
    /\ uat[j] = "new" /\ ukeys[Current][UKeyOf[j]] = NoUJob /\ CanPush
    /\ ukeys' = [ukeys EXCEPT ![Current][UKeyOf[j]] = j]
    /\ waiter' = [waiter EXCEPT ![j] = Current]
    /\ IF Current = "old"
       THEN oldq' = Append(oldq, j) /\ uat' = [uat EXCEPT ![j] = "oldq"] /\ UNCHANGED newq
       ELSE newq' = Append(newq, j) /\ uat' = [uat EXCEPT ![j] = "newq"] /\ UNCHANGED oldq
    /\ UNCHANGED <<backend, ready, moving, pushFaults>>

\* _drain starts the head of the list; the handler then waits for the probe.
StartOld ==
    /\ backend = "initial" /\ oldq # <<>> /\ oldq' = Tail(oldq)
    /\ uat' = [uat EXCEPT ![Head(oldq)] = "oldrun"]
    /\ UNCHANGED <<backend, ready, moving, newq, ukeys, waiter, pushFaults>>
StartNew ==
    /\ backend # "initial" /\ newq # <<>> /\ newq' = Tail(newq)
    /\ uat' = [uat EXCEPT ![Head(newq)] = "newrun"]
    /\ UNCHANGED <<backend, ready, oldq, moving, ukeys, waiter, pushFaults>>

\* The key of a job carried over replaces whatever entry it finds, together
\* with its waiters, before its push is awaited.
InstallKey(f, s) == IF s = <<>> THEN f ELSE [f EXCEPT !["new"][UKeyOf[Head(s)]] = Head(s)]
Install(f, s) == IF s = <<>> \/ f[Head(s)] # "carried" THEN f ELSE [f EXCEPT ![Head(s)] = "new"]

BugLeaveWaiters(f, s) == f

\* The waiters of the carried jobs leave the old queue (none: held by the
\* continuation until their job is pushed).
TakeWaiters(f, s) ==
    [j \in UJob |-> IF f[j] = "old" /\ \E i \in DOMAIN s : s[i] = j THEN "carried" ELSE f[j]]

\* coordinationReady: redis is there and the carry loop is through.
ReadyAfter(b, rest) == b = "redis" /\ rest = <<>>

\* The probe answers: new coordinator, the old queue is emptied and closed
\* (its keys cleared, its running jobs left to it), the new queue installed.
Upgrade(b) ==
    /\ backend = "initial" /\ backend' = b
    /\ moving' = oldq /\ oldq' = <<>>
    /\ ukeys' = InstallKey([q \in {"old", "new"} |-> [k \in UKey |-> NoUJob]], oldq)
    /\ uat' = [j \in UJob |-> IF uat[j] = "oldq" THEN "moving" ELSE uat[j]]
    /\ waiter' = Install(TakeWaiters(waiter, oldq), oldq)
    /\ ready' = ReadyAfter(b, oldq)
    /\ UNCHANGED <<newq, pushFaults>>

\* A push of the carry loop is answered; the next job is installed at once,
\* and after the last one coordination is ready if redis is there.
Carried(keys) ==
    /\ moving' = Tail(moving)
    /\ ready' = ReadyAfter(backend, Tail(moving))
    /\ ukeys' = InstallKey(keys, Tail(moving))
CarryJob ==
    LET j == Head(moving) IN
    /\ moving # <<>> /\ CanPush /\ Carried(ukeys)
    /\ newq' = Append(newq, j) /\ uat' = [uat EXCEPT ![j] = "newq"]
    /\ waiter' = Install(waiter, Tail(moving))
    /\ UNCHANGED <<backend, oldq, pushFaults>>
CarryFails ==
    LET j == Head(moving) IN
    /\ moving # <<>>
    /\ IF CanPush THEN backend = "redis" /\ PushFault ELSE UNCHANGED pushFaults
    /\ Carried([ukeys EXCEPT !["new"][UKeyOf[j]] = NoUJob])
    /\ uat' = [uat EXCEPT ![j] = "ended"]
    /\ waiter' = Install([waiter EXCEPT ![j] = "none"], Tail(moving))
    /\ UNCHANGED <<backend, oldq, newq>>

\* The job settles, after the gate (coordinationPromise) or by its timeout: the
\* key is released, whoever holds it now, and the request answered.
Settles(j, place, q) ==
    /\ uat[j] = place /\ uat' = [uat EXCEPT ![j] = "ended"]
    /\ ukeys' = [ukeys EXCEPT ![q][UKeyOf[j]] = NoUJob]
    /\ waiter' = [waiter EXCEPT ![j] = IF @ = q THEN "none" ELSE @]
    /\ UNCHANGED <<backend, ready, oldq, moving, newq, pushFaults>>
SettleOld(j) == Settles(j, "oldrun", "old")
SettleNew(j) == Settles(j, "newrun", "new")

\* GET /api/ready: checkReadiness of datastore, redis, encryption and auth, the
\* boot steps and the model registry.
Instance == [config: Booted, boot: BOOLEAN, models: BOOLEAN, auth: BOOLEAN,
             database: BOOLEAN, directory: BOOLEAN]
StorageProbe(i) == IF DatastoreKind(i.config) = "postgres" THEN i.database ELSE i.directory
CheckReadiness(i) ==
    /\ StorageProbe(i)
    /\ i.config.redisUrl => ready /\ backend # "degraded"
    /\ i.config.production => i.config.encryptionKey /\ i.auth
AnswersReady(i) == i.boot /\ i.models /\ CheckReadiness(i) /\ ready

StartupNext ==
    \/ StartOld \/ StartNew \/ CarryJob \/ CarryFails
    \/ \E b \in Probed : Upgrade(b)
    \/ \E j \in UJob : RefuseMessage(j) \/ AcceptMessage(j) \/ SettleOld(j) \/ SettleNew(j)
StartupFairness ==
    /\ WF_upVars(StartOld) /\ WF_upVars(StartNew) /\ WF_upVars(CarryJob \/ CarryFails)
    /\ WF_upVars(\E b \in Probed : Upgrade(b))
    /\ \A j \in UJob : WF_upVars(SettleOld(j)) /\ WF_upVars(SettleNew(j))
StartupSpec == StartupInit /\ [][StartupNext]_upVars /\ StartupFairness

StartupTypeOK ==
    /\ backend \in {"initial"} \cup Probed /\ ready \in BOOLEAN
    /\ \A q \in {oldq, moving, newq} : q \in Seq(UJob)
    /\ ukeys \in [{"old", "new"} -> [UKey -> UJob \cup {NoUJob}]]
    /\ uat \in [UJob -> UPlaces]
    /\ waiter \in [UJob -> {"none", "old", "new", "carried"}]
    /\ pushFaults \in 0..MaxPushFaults

\* An instance that answers ready, whatever it was configured with, shares its
\* coordination and has no accepted job in transit between its queues, and no
\* queue that nobody serves.
ReadyIsShared ==
    (\E i \in Instance : AnswersReady(i))
    => backend = "redis" /\ oldq = <<>> /\ \A j \in UJob : uat[j] # "moving"

\* "Preserve accepted startup-buffer jobs and their HTTP claim waiters"
\* (server.js 501): no accepted job stays in a queue nobody serves, and every
\* request that waits is answered, although the queue is exchanged under it,
\* pushes fail and redis may not come at all.
StartupRequestsAnswered ==
    \A j \in UJob : (uat[j] \notin {"new", "refused", "ended"} \/ waiter[j] # "none")
                    ~> (uat[j] = "ended" /\ waiter[j] = "none")
=============================================================================
