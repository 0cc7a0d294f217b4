------------------------------ MODULE RunStore ------------------------------
(***************************************************************************)
(* The durable record of the runs: the run index and the files of each run *)
(* (backend/src/persistence.js, infrastructure/run-store.js and            *)
(* postgres.js), and who writes them in server.js: the periodic            *)
(* persistActive, the run-end and per-step hooks (persistRunArtifacts),    *)
(* the purge that follows a stricter privacy mode (purgeProjectContent,    *)
(* backend/src/privacy.js), the retention sweep, and restorePersisted.     *)
(* Every operation of the store is awaited, so the writers interleave      *)
(* between any two of them.  All runs of a tenant are of one project; what *)
(* is stored of a run is "raw" (with content), "clean" or "none".          *)
(***************************************************************************)
EXTENDS Naturals, Sequences, FiniteSets, SequencesExt

CONSTANTS
    SRun, TenantOf,     \* [SRun -> tenant]
    purgedTenant,       \* the tenant whose project changes its privacy mode
    Cap,                \* MAX_RUN_INDEX_PER_TENANT (1000)
    MinIndex,           \* the entries an index too large is not cut below (10)
    MaxStoreFaults,     \* bound: restarts, damages, cuts and refused writes
    MaxCreated,         \* bound: runs created
    MaxJobs,            \* bound: saves of runs at one time
    MaxHooks            \* bound: saves after a step and periodic saves

ASSUME StoreAssumption == Cap \in Nat \ {0} /\ MinIndex \in Nat \ {0}

VARIABLES
    pg,             \* runStore.kind = 'postgres'
    mem,            \* [SRun -> "none", "running", "ended" or "gone" (of an earlier process)]
    privacy,        \* [SRun -> runtime.privacyMode]: "standard" or "zero_retention"
    projectMode,    \* the project's setting
    index,          \* sequence of [id, status, text]
    stored,         \* [SRun -> [events, snapshot]]
    jobs,           \* persistRunArtifacts under way: [run, kind, at, mode, text]
    tick,           \* persistActive: [at, runs, raw (those with content), index]
    purge,          \* purgeProjectContent: [at, todo, run]
    complete,       \* history: runs whose end was written to the index, and neither
                    \* a tick nor a purge wrote back what it had read before, nor
                    \* was the index damaged, or cut where they were, since
    late,           \* history: runs written in an old mode after the purge passed them
    storeFaults,
    missed,         \* history: runs of which a write was refused
    hooks           \* such saves started

storeVars == <<pg, mem, privacy, projectMode, index, stored, jobs, tick, purge, complete, late, storeFaults, missed, hooks>>

IdleTick == [at |-> "idle", runs |-> {}, raw |-> {}, index |-> <<>>]
NoFiles == [events |-> "none", snapshot |-> "none"]

StoreInit ==
    /\ pg \in BOOLEAN
    /\ mem = [r \in SRun |-> "none"] /\ privacy = [r \in SRun |-> "standard"] /\ projectMode = "standard"
    /\ index = <<>> /\ stored = [r \in SRun |-> NoFiles] /\ jobs = {} /\ tick = IdleTick
    /\ purge = [at |-> "no", todo |-> {}, run |-> {}]
    /\ complete = {} /\ late = {} /\ missed = {} /\ storeFaults = 0 /\ hooks = 0

------------------------------------------------------------------------------
(* The store.                                                               *)

Indexed == {index[i].id : i \in DOMAIN index}
Entry(r, status, text) == [id |-> r, status |-> status, text |-> text]
Text(mode) == IF mode = "standard" THEN "raw" ELSE "clean"

\* Seeded fault: one cap for everybody.
BugRetain(ix) == SubSeq(ix, IF Len(ix) > Cap THEN Len(ix) - Cap + 1 ELSE 1, Len(ix))

\* The entries at the places K, in their order.
Kept(ix, K) ==
    [n \in 1..Cardinality(K) |-> ix[CHOOSE i \in K : Cardinality({j \in K : j < i}) = n - 1]]

\* retainPerTenant, pruneRunIndex: the newest Cap entries of each tenant.
Newer(ix, i) == {j \in DOMAIN ix : j > i /\ TenantOf[ix[j].id] = TenantOf[ix[i].id]}
Retain(ix) == Kept(ix, {i \in DOMAIN ix : Cardinality(Newer(ix, i)) < Cap})

\* upsertRunSummary.
Upserted(ix, e) == Retain(Append(Kept(ix, {i \in DOMAIN ix : ix[i].id # e.id}), e))

\* mergeIndex, then saveRunIndex: live entries change where they are, or are added.
MergedIndex(ix, live) ==
    LET new == SetToSeq({r \in DOMAIN live : \A i \in DOMAIN ix : ix[i].id # r})
    IN  Retain([i \in DOMAIN ix |-> IF ix[i].id \in DOMAIN live THEN live[ix[i].id] ELSE ix[i]]
               \o [i \in DOMAIN new |-> live[new[i]]])

LastEntries(ix, k) == Kept(ix, {i \in DOMAIN ix : i > Len(ix) - k})

\* An index whose text is larger than MAX_BYTES is halved up to six times, all
\* tenants together (the sizes of the summaries are left open).
Halved(ix, h) == LastEntries(ix, IF Len(ix) \div 2^h < MinIndex THEN MinIndex ELSE Len(ix) \div 2^h)

\* saveRunIndex writes ix, whole or, the file store, cut to its newest entries.
SaveIndex(ix, recorded, faults) ==
    \/ index' = ix /\ complete' = recorded /\ storeFaults' = faults
    \/ /\ ~pg /\ faults < MaxStoreFaults /\ Len(ix) > MinIndex
       /\ \E h \in 1..6 : index' = Halved(ix, h)
       /\ complete' = {r \in recorded : \E i \in DOMAIN index' : index'[i].id = r}
       /\ storeFaults' = faults + 1

------------------------------------------------------------------------------
(* Runs.                                                                    *)

Private(r) == TenantOf[r] = purgedTenant
Mode(r) == IF Private(r) THEN projectMode ELSE "standard"

CreateRun(r) ==
    /\ mem[r] = "none" /\ Cardinality({q \in SRun : mem[q] # "none"}) < MaxCreated
    /\ mem' = [mem EXCEPT ![r] = "running"] /\ privacy' = [privacy EXCEPT ![r] = Mode(r)]
    /\ UNCHANGED <<pg, projectMode, index, stored, jobs, tick, purge, complete, late, storeFaults, missed, hooks>>

\* What a query sent now carries; the file store does not use it.
Sent(r) == IF pg THEN Text(privacy[r]) ELSE "none"
Job(r, kind, at) == [run |-> r, kind |-> kind, at |-> at, mode |-> privacy[r], text |-> Sent(r)]

\* The run ends, and onRunEnd saves it with its summary.
EndRun(r) ==
    /\ mem[r] = "running" /\ Cardinality(jobs) < MaxJobs
    /\ mem' = [mem EXCEPT ![r] = "ended"]
    /\ jobs' = jobs \cup {Job(r, "end", "summary")}
    /\ UNCHANGED <<pg, privacy, projectMode, index, stored, tick, purge, complete, late, storeFaults, missed, hooks>>

\* persistHook, after a step: no summary.
StepDone(r) ==
    /\ mem[r] = "running" /\ hooks < MaxHooks /\ Cardinality(jobs) < MaxJobs
    /\ hooks' = hooks + 1
    /\ jobs' = jobs \cup {Job(r, "step", "events")}
    /\ UNCHANGED <<pg, mem, privacy, projectMode, index, stored, tick, purge, complete, late, storeFaults, missed>>

------------------------------------------------------------------------------
(* persistRunArtifacts: the mode is taken first, then the summary (with the *)
(* status it had when the job began), the events and a snapshot of now.     *)

Status(j) == IF j.kind = "end" THEN "completed" ELSE "running"

\* A summary with content for a run whose purge has begun or is over.
Late(j) == IF j.mode = "standard" /\ Private(j.run) /\ purge.at # "no" THEN {j.run} ELSE {}

Advance(j, at) == jobs' = (jobs \ {j}) \cup (IF at = "done" THEN {} ELSE {[j EXCEPT !.at = at, !.text = Sent(j.run)]})

\* What a write of events or a snapshot contains: a query of postgres carries what
\* was taken when it was sent, the file is written at once.
Content(j) == IF j.mode = "standard" THEN IF pg THEN j.text ELSE Text(privacy[j.run]) ELSE "clean"
LateContent(j) == IF Content(j) = "raw" /\ Private(j.run) /\ purge.at # "no" THEN {j.run} ELSE {}

SaveSummary(j) ==
    /\ j.at = "summary"
    /\ SaveIndex(Upserted(index, Entry(j.run, Status(j), Text(j.mode))),
                 IF j.kind = "end" THEN complete \cup {j.run} ELSE complete \ {j.run}, storeFaults)
    /\ late' = late \cup Late(j)
    /\ Advance(j, "events")
    /\ UNCHANGED <<pg, mem, privacy, projectMode, stored, tick, purge, missed, hooks>>

\* appendEvents: the bus cleans its log when the mode of a run changes, and
\* zero_retention appends nothing; stored envelopes stay as they are.
SaveEvents(j) ==
    /\ j.at = "events"
    /\ stored' = IF j.mode = "zero_retention" THEN stored
                 ELSE [stored EXCEPT ![j.run].events = IF @ = "raw" THEN "raw" ELSE Content(j)]
    /\ late' = late \cup LateContent(j)
    /\ Advance(j, "snapshot")
    /\ UNCHANGED <<pg, mem, privacy, projectMode, index, tick, purge, complete, storeFaults, missed, hooks>>

\* buildSnapshot cleans by the mode of now, persistedSnapshot by that of the job.
SaveSnapshot(j) ==
    /\ j.at = "snapshot"
    /\ stored' = [stored EXCEPT ![j.run].snapshot = Content(j)]
    /\ late' = late \cup LateContent(j)
    /\ Advance(j, "done")
    /\ UNCHANGED <<pg, mem, privacy, projectMode, index, tick, purge, complete, storeFaults, missed, hooks>>

After(at) == CASE at = "summary" -> "events" [] at = "events" -> "snapshot" [] at = "snapshot" -> "done"

Refused(runs) ==
    storeFaults < MaxStoreFaults /\ storeFaults' = storeFaults + 1 /\ missed' = missed \cup runs

\* A write answers { ok: false } (disk, database, too large): logged, and the job goes on.
SaveFails(j) ==
    /\ Refused({j.run}) /\ Advance(j, After(j.at))
    /\ UNCHANGED <<pg, mem, privacy, projectMode, index, stored, tick, purge, complete, late, hooks>>

------------------------------------------------------------------------------
(* persistActive.                                                           *)

Running == {r \in SRun : mem[r] = "running"}

TickStarts ==
    /\ tick.at = "idle" /\ Running # {} /\ hooks < MaxHooks
    /\ hooks' = hooks + 1
    /\ tick' = [at |-> IF pg THEN "save" ELSE "load", runs |-> Running,
                raw |-> {r \in Running : privacy[r] = "standard"}, index |-> <<>>]
    /\ UNCHANGED <<pg, mem, privacy, projectMode, index, stored, jobs, purge, complete, late, storeFaults, missed>>

TickLoads ==
    /\ tick.at = "load"
    /\ tick' = [tick EXCEPT !.at = "save", !.index = index]
    /\ UNCHANGED <<pg, mem, privacy, projectMode, index, stored, jobs, purge, complete, late, storeFaults, missed, hooks>>

\* The index of before (file) with the summaries and the modes of before.
TickSaves ==
    /\ tick.at = "save"
    /\ LET ended == {e.id : e \in {x \in ToSet(tick.index) : x.status # "running"}}
           again == {e.id : e \in {x \in ToSet(tick.index) : x.text = "raw"}}
       IN  /\ SaveIndex(MergedIndex(IF pg THEN index ELSE tick.index,
                     [r \in tick.runs |-> Entry(r, "running", IF r \in tick.raw THEN "raw" ELSE "clean")]),
                 complete \ {r \in complete : r \in tick.runs \/ (~pg /\ r \notin Indexed \cap ended)},
                 storeFaults)
           /\ late' = late \cup {r \in tick.raw \cup again : Private(r) /\ purge.at # "no"}
    /\ tick' = [tick EXCEPT !.at = "runs", !.raw = {}, !.index = <<>>]
    /\ UNCHANGED <<pg, mem, privacy, projectMode, stored, jobs, purge, missed, hooks>>

TickSaveFails ==
    /\ tick.at = "save" /\ Refused({})
    /\ tick' = [tick EXCEPT !.at = "runs", !.raw = {}, !.index = <<>>]
    /\ UNCHANGED <<pg, mem, privacy, projectMode, index, stored, jobs, purge, complete, late, hooks>>

\* One run after the other, each with the summary taken at the start.
TickNext ==
    /\ tick.at = "runs" /\ Cardinality(jobs) < MaxJobs
    /\ \A j \in jobs : j.kind # "tick"
    /\ IF tick.runs = {} THEN tick' = IdleTick /\ UNCHANGED jobs
       ELSE \E r \in tick.runs :
              /\ tick' = [tick EXCEPT !.runs = @ \ {r}]
              /\ jobs' = jobs \cup {Job(r, "tick", "summary")}
    /\ UNCHANGED <<pg, mem, privacy, projectMode, index, stored, purge, complete, late, storeFaults, missed, hooks>>

------------------------------------------------------------------------------
(* A stricter mode: PUT project, then purgeProjectContent over the runs of  *)
(* the index, each: runtime and bus, summary, events, snapshot.             *)

PurgeStarts ==
    /\ purge.at = "no"
    /\ projectMode' = "zero_retention"
    /\ purge' = [at |-> "next", todo |-> {e \in ToSet(index) : Private(e.id)}, run |-> {}]
    /\ UNCHANGED <<pg, mem, privacy, index, stored, jobs, tick, complete, late, storeFaults, missed, hooks>>

\* The entry as it was listed, cleaned, goes back into the index.
PurgeRun(e) ==
    /\ purge.at = "next" /\ e \in purge.todo
    /\ privacy' = [privacy EXCEPT ![e.id] = "zero_retention"]
    /\ SaveIndex(Upserted(index, Entry(e.id, e.status, "clean")),
                 IF e.status = "running" \/ e.id \notin Indexed THEN complete \ {e.id} ELSE complete,
                 storeFaults)
    /\ purge' = [at |-> "events", todo |-> purge.todo \ {e}, run |-> {e.id}]
    /\ UNCHANGED <<pg, mem, projectMode, stored, jobs, tick, late, missed, hooks>>

PurgeEvents(r) ==
    /\ purge.at = "events" /\ r \in purge.run
    /\ stored' = [stored EXCEPT ![r].events = IF @ = "none" THEN "none" ELSE "clean"]
    /\ purge' = [purge EXCEPT !.at = "snapshot"]
    /\ UNCHANGED <<pg, mem, privacy, projectMode, index, jobs, tick, complete, late, storeFaults, missed, hooks>>

PurgeSnapshot(r) ==
    /\ purge.at = "snapshot" /\ r \in purge.run
    /\ stored' = [stored EXCEPT ![r].snapshot = IF @ = "none" THEN "none" ELSE "clean"]
    /\ purge' = [purge EXCEPT !.at = "next", !.run = {}]
    /\ UNCHANGED <<pg, mem, privacy, projectMode, index, jobs, tick, complete, late, storeFaults, missed, hooks>>

\* A refused write of the purge is not even logged.
PurgeRunFails(e) ==
    /\ purge.at = "next" /\ e \in purge.todo /\ Refused({e.id})
    /\ privacy' = [privacy EXCEPT ![e.id] = "zero_retention"]
    /\ purge' = [at |-> "events", todo |-> purge.todo \ {e}, run |-> {e.id}]
    /\ UNCHANGED <<pg, mem, projectMode, index, stored, jobs, tick, complete, late, hooks>>

PurgeWriteFails ==
    /\ purge.at \in {"events", "snapshot"} /\ Refused(purge.run)
    /\ purge' = IF purge.at = "events" THEN [purge EXCEPT !.at = "snapshot"]
                ELSE [purge EXCEPT !.at = "next", !.run = {}]
    /\ UNCHANGED <<pg, mem, privacy, projectMode, index, stored, jobs, tick, complete, late, hooks>>

\* A read of postgres throws: the request fails, the mode is set, the rest is left.
PurgeThrows ==
    /\ pg /\ purge.at \in {"events", "snapshot"} /\ Refused({})
    /\ purge' = [at |-> "cut", todo |-> {}, run |-> {}]
    /\ UNCHANGED <<pg, mem, privacy, projectMode, index, stored, jobs, tick, complete, late, hooks>>

PurgeDone ==
    /\ purge.at = "next" /\ purge.todo = {}
    /\ purge' = [purge EXCEPT !.at = "done"]
    /\ UNCHANGED <<pg, mem, privacy, projectMode, index, stored, jobs, tick, complete, late, storeFaults, missed, hooks>>

------------------------------------------------------------------------------
(* Time, faults and restarts.                                               *)

Quiet == jobs = {} /\ tick.at = "idle" /\ purge.at \in {"no", "done", "cut"}

\* sweepRetention: files of runs neither active nor indexed.  They must be a day
\* old, longer than any of the writers is at work.
Sweep ==
    /\ ~pg /\ Quiet
    /\ stored' = [r \in SRun |-> IF r \in Running \cup Indexed THEN stored[r] ELSE NoFiles]
    /\ stored' # stored
    /\ UNCHANGED <<pg, mem, privacy, projectMode, index, jobs, tick, purge, complete, late, storeFaults, missed, hooks>>

\* runs.json is found damaged: _readJson quarantines it and the index is empty.
Quarantine ==
    /\ ~pg /\ storeFaults < MaxStoreFaults /\ index # <<>>
    /\ storeFaults' = storeFaults + 1
    /\ index' = <<>> /\ complete' = {}
    /\ UNCHANGED <<pg, mem, privacy, projectMode, stored, jobs, tick, purge, late, missed, hooks>>

\* The process dies with all its jobs; the next one reports what was running as
\* failed.  A purge that was under way is not taken up.
Restart ==
    /\ storeFaults < MaxStoreFaults
    /\ mem' = [r \in SRun |-> IF mem[r] = "none" THEN "none" ELSE "gone"]
    /\ jobs' = {} /\ tick' = IdleTick
    /\ SaveIndex([i \in DOMAIN index |-> IF index[i].status = "running" THEN [index[i] EXCEPT !.status = "failed"]
                                         ELSE index[i]], complete, storeFaults + 1)
    /\ purge' = IF purge.at \in {"no", "done"} THEN purge ELSE [at |-> "cut", todo |-> {}, run |-> {}]
    /\ UNCHANGED <<pg, privacy, projectMode, stored, late, missed, hooks>>

StoreNext ==
    \/ \E r \in SRun : CreateRun(r) \/ EndRun(r) \/ StepDone(r) \/ PurgeEvents(r) \/ PurgeSnapshot(r)
    \/ \E j \in jobs : SaveSummary(j) \/ SaveEvents(j) \/ SaveSnapshot(j) \/ SaveFails(j)
    \/ TickStarts \/ TickLoads \/ TickSaves \/ TickSaveFails \/ TickNext
    \/ PurgeStarts \/ PurgeDone \/ \E e \in purge.todo : PurgeRun(e) \/ PurgeRunFails(e)
    \/ PurgeWriteFails \/ PurgeThrows
    \/ Sweep \/ Quarantine \/ Restart

------------------------------------------------------------------------------
StoreTypeOK ==
    /\ \A i \in DOMAIN index : index[i].id \in SRun /\ index[i].status \in {"running", "completed", "failed"}
    /\ \A j \in jobs : j.run \in SRun /\ j.at \in {"summary", "events", "snapshot"}
    /\ tick.at \in {"idle", "load", "save", "runs"}
    /\ purge.at \in {"no", "next", "events", "snapshot", "done", "cut"}

\* "terminal states survive restarts even when the periodic full-index write races
\* a shutdown" and "one tenant's activity can never evict another tenant's history"
\* (persistence.js): a run whose end was recorded is listed as completed, unless
\* its own tenant has Cap newer entries, a tick or a purge wrote back what it had
\* read before, or the index was damaged, or had become too large and was cut to its
\* newest entries of whatever tenant.
HistoryKept ==
    \A r \in complete :
        \/ \E i \in DOMAIN index : index[i].id = r /\ index[i].status = "completed"
        \/ /\ r \notin Indexed
           /\ Cardinality({i \in DOMAIN index : TenantOf[index[i].id] = TenantOf[r]}) = Cap

\* "Active runs and indexed runs are NEVER touched" (persistence.js): what was
\* saved of a run whose end is recorded stays while the run is listed, unless a
\* write was refused.
FilesKept ==
    \A r \in complete :
        r \in Indexed /\ (\A j \in jobs : j.run # r) /\ mem[r] = "ended" /\ r \notin missed
        => stored[r].snapshot # "none"

\* "persisted/API representations must obey the project's retention mode"
\* (privacy.js): when the purge is over, no content is stored of a run of the
\* project that it listed, except by a save that took the old mode and was still
\* under way (with the file store such a save can only put back the index entry), or
\* when a write was refused, which the purge does not look at.
RetentionObeyed ==
    purge.at = "done" =>
        \A r \in SRun : Private(r) /\ privacy[r] = "zero_retention" /\ r \notin missed =>
            /\ "raw" \in {stored[r].events, stored[r].snapshot} => pg /\ r \in late
            /\ \A i \in DOMAIN index : index[i].id = r => index[i].text # "raw" \/ r \in late
=============================================================================
