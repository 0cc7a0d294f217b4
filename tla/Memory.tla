------------------------------- MODULE Memory -------------------------------
\* What is carried from one run to the next: the memory of the runs, and then
\* what the runtime learns from their ends.  The two share no variable.
EXTENDS Integers, Sequences, FiniteSets, FiniteSetsExt, SequencesExt

------------------------------------------------------------------------------
\* Working and long-term memory of the runs (memory-manager.js with
\* memory-intelligence.js): what a run may see, which candidates become
\* durable, eviction at the limits, and purging a run.  A record's text is
\* what the classification and the comparison tell apart: its source, whether
\* it looks like a keyword fact ("remember: ..."), whether secret material is
\* found in it, and its topic and value; by is the run that wrote it, and it is
\* absorbed when a consolidation put it in the place of the record's own.

CONSTANTS MRuns,        \* runs
          MOrgOf,       \* MOrgOf[r]: organisation of a run, "null" when it has none
          MCandidates,  \* texts: [source, keyword, secret, topic, value]
          MMaxWorking,  \* maxWorkingItems
          MMaxLong,     \* maxLongTermItems
          MMaxWrites    \* bound on the writes

ASSUME MemoryAssumption ==
    /\ MCandidates \subseteq [source: {"tool", "model"}, keyword: BOOLEAN, secret: BOOLEAN,
                             topic: Nat, value: Nat]
    /\ \A r \in MRuns : r # 0 /\ MOrgOf[r] # "undefined"
    /\ MMaxWorking \in Nat \ {0} /\ MMaxLong \in Nat \ {0}

VARIABLES mStore,   \* mStore["working"], mStore["longterm"]: records, oldest first
          mPurged,  \* runs whose memory was purged and that wrote nothing since
          mWrites,  \* writes so far
          mHeld     \* history: quarantined writes, which no limit holds back
memoryVars == <<mStore, mPurged, mWrites, mHeld>>

Scopes == {"working", "longterm"}
Shared == 0

(****************************** the candidates ****************************)

\* createMemoryRecord: the record has no organisation, whatever it is given.
BugCreateMemoryRecord(c, run, explicit, quarantined) ==
    [source |-> c.source, keyword |-> c.keyword, secret |-> c.secret, topic |-> c.topic, value |-> c.value,
     run |-> run, by |-> run, absorbed |-> FALSE, org |-> IF run \in MRuns THEN MOrgOf[run] ELSE "undefined", status |-> "active",
     explicit |-> explicit, quarantined |-> quarantined, conflict |-> FALSE]

CreateMemoryRecord(c, run, explicit, quarantined) ==
    [source |-> c.source, keyword |-> c.keyword, secret |-> c.secret, topic |-> c.topic, value |-> c.value,
     run |-> run, by |-> run, absorbed |-> FALSE, org |-> "undefined", status |-> "active",
     explicit |-> explicit, quarantined |-> quarantined, conflict |-> FALSE]

\* classifyMemoryCandidate.
Classify(c, explicit) ==
    CASE c.secret -> "secret_or_unsafe"
      [] ~c.secret /\ explicit -> "explicit_fact"
      [] ~c.secret /\ ~explicit /\ c.source = "model" /\ c.keyword -> "unvetted_model_output"
      [] ~c.secret /\ ~explicit /\ c.source = "tool" -> "tool_observation"
      [] OTHER -> "working_note"

\* proposeMemory for long-term memory.
Quarantines(c, explicit, durable) ==
    ~explicit /\ (~durable \/ Classify(c, FALSE) \in {"secret_or_unsafe", "unvetted_model_output"})

\* scoreMemory and rankMemories keep every active record of a query, in some
\* order; similarity is the topic, isContradiction another value for it.
Similar(a, b) == a.topic = b.topic
IsContradiction(a, b) == Similar(a, b) /\ a.value # b.value

\* _visibleItems: the run's own, another run's only when the organisations are
\* the same, and the shared seeds.
Visible(s, run) ==
    {i \in DOMAIN s : /\ s[i].status = "active"
                      /\ \/ s[i].run = run
                         \/ s[i].run = Shared
                         \/ s[i].run # Shared /\ s[i].org = MOrgOf[run]}

(******************************** the store *******************************)

\* _evictOldestWorking, _evictOldestLongTerm: the oldest active record of any
\* run loses its status; it stays in the map.
ActiveOf(s) == {i \in DOMAIN s : s[i].status = "active"}
EvictOldest(s, status) ==
    IF ActiveOf(s) = {} THEN s ELSE [s EXCEPT ![Min(ActiveOf(s))].status = status]

Stored(s, rec, limit, status) ==
    LET t == Append(s, rec) IN IF Len(t) > limit THEN EvictOldest(t, status) ELSE t

MemoryInit ==
    /\ mStore = [s \in Scopes |-> <<>>]
    /\ mPurged = {}
    /\ mWrites = 0 /\ mHeld = 0

Wrote(run) == /\ mWrites < MMaxWrites
              /\ mWrites' = mWrites + 1
              /\ mPurged' = mPurged \ {run}

\* seedMemory, at start-up of a demo.
SeedMemory ==
    /\ mWrites = 0
    /\ \E c \in MCandidates, s \in Scopes :
          mStore' = [mStore EXCEPT ![s] =
            Append(@, CreateMemoryRecord(c, Shared, TRUE, FALSE))]
    /\ Wrote(Shared) /\ UNCHANGED mHeld

\* writeWorkingMemory of a tool's result.
WriteWorkingMemory(run) ==
    /\ Wrote(run) /\ UNCHANGED mHeld
    /\ \E c \in MCandidates :
          mStore' = [mStore EXCEPT !["working"] =
                       Stored(@, CreateMemoryRecord(c, run, FALSE, FALSE), MMaxWorking, "evicted")]

\* writeLongTermMemory: a quarantined candidate goes to working memory, past
\* its limit; approveMemoryCandidate is the explicit form.
LongTermWritten(run, c, explicit, durable, clash) ==
    IF Quarantines(c, explicit, durable)
    THEN /\ mStore' = [mStore EXCEPT !["working"] =
               Append(@, [CreateMemoryRecord(c, run, FALSE, TRUE) EXCEPT !.conflict = clash])]
         /\ mHeld' = mHeld + 1
    ELSE /\ mStore' = [mStore EXCEPT !["longterm"] =
               Stored(@, [CreateMemoryRecord(c, run, explicit, FALSE) EXCEPT !.conflict = clash], MMaxLong, "archived")]
         /\ UNCHANGED mHeld

WriteLongTermMemory(run) ==
    /\ Wrote(run)
    /\ \E c \in MCandidates, explicit, durable \in BOOLEAN :
          LongTermWritten(run, c, explicit, durable, FALSE)

\* consolidateCandidate, a merge: the longer text stays, and the candidate's is
\* taken as it came, neither classified nor redacted.
Merged(rec, c, run) ==
    {rec, [rec EXCEPT !.keyword = c.keyword, !.secret = c.secret, !.by = run, !.absorbed = TRUE]}

\* writeLongTermConsolidated: a similar visible record absorbs the candidate,
\* a contradicted one stays and the new record names the conflict.
WriteLongTermConsolidated(run) ==
    /\ Wrote(run)
    /\ \E c \in MCandidates, durable \in BOOLEAN :
          LET seen == {i \in Visible(mStore["longterm"], run) : Similar(mStore["longterm"][i], c)}
          IN  IF seen = {} THEN LongTermWritten(run, c, FALSE, durable, FALSE)
              ELSE \E best \in seen :
                     IF IsContradiction(mStore["longterm"][best], c)
                     THEN LongTermWritten(run, c, FALSE, durable, TRUE)
                     ELSE /\ \E rec \in Merged(mStore["longterm"][best], c, run) :
                                mStore' = [mStore EXCEPT !["longterm"][best] = rec]
                          /\ UNCHANGED mHeld

\* evictMemory.
EvictMemory ==
    /\ \E s \in Scopes : \E i \in DOMAIN mStore[s] :
          /\ mStore[s][i].status = "active"
          /\ mStore' = [mStore EXCEPT ![s][i].status = "evicted"]
    /\ UNCHANGED <<mPurged, mWrites, mHeld>>

\* The records of a store that are not the run's, in their order.
Unpurged(s, run) ==
    LET kept[i \in 0..Len(s)] ==
          IF i = 0 THEN <<>>
          ELSE IF s[i].run # run THEN Append(kept[i - 1], s[i]) ELSE kept[i - 1]
    IN  kept[Len(s)]

\* purgeRun, when a project's retention changes.
PurgeRun(run) ==
    /\ mStore' = [s \in Scopes |-> Unpurged(mStore[s], run)]
    /\ mPurged' = mPurged \cup {run}
    /\ UNCHANGED <<mWrites, mHeld>>

MemoryNext ==
    \/ SeedMemory \/ EvictMemory
    \/ \E r \in MRuns : WriteWorkingMemory(r) \/ WriteLongTermMemory(r)
                        \/ WriteLongTermConsolidated(r) \/ PurgeRun(r)

(******************************* properties *******************************)

\* What memory shows a run is its own or shared, nothing of a purged run is
\* left in either store, and nothing a model said in the form of a durable
\* fact, and no secret, is durable without an explicit approval, however the
\* writes, consolidations, evictions and purges of the runs interleave.  What
\* writeLongTermConsolidated merges is excepted (memory-intelligence.js
\* 252-262): a record takes the longer text whatever it is, a secret too, and a
\* shared one then shows it to all and keeps it over the purge of the run it
\* came from.  No other record ever holds the text of a run that is not its own.
\* Evictions hold the active records of long-term memory to its limit, and those
\* of working memory to its limit and what was quarantined there.
MemoryTrusted ==
    /\ \A s \in Scopes, r \in MRuns : \A i \in Visible(mStore[s], r) :
          /\ mStore[s][i].run \in {r, Shared}
          /\ mStore[s][i].by = r \/ mStore[s][i].run = Shared
    /\ \A s \in Scopes : \A i \in DOMAIN mStore[s] :
          /\ mStore[s][i].run \notin mPurged
          /\ mStore[s][i].by \notin mPurged \/ (mStore[s][i].run = Shared /\ mStore[s][i].absorbed)
    /\ \A i \in DOMAIN mStore["longterm"] :
          LET r == mStore["longterm"][i] IN
          r.absorbed \/ r.explicit \/ ~(r.secret \/ (r.source = "model" /\ r.keyword))
    /\ Cardinality(ActiveOf(mStore["working"])) <= MMaxWorking + mHeld
    /\ Cardinality(ActiveOf(mStore["longterm"])) <= MMaxLong

------------------------------------------------------------------------------
\* What the runtime learns from the ends of runs: the evaluation of an
\* outcome (outcome-evaluator.js), the counters per tenant of one model and
\* task category (performance-store.js), feedback, the bounded list of
\* evaluations, and saving and restoring them (intelligence-store.js and
\* server.js).  A run may end several times, once per continuation, and every
\* end is ingested.

CONSTANTS LRuns,      \* runs
          LTenantOf,  \* LTenantOf[r]: the run's organisation
          LTenants,
          LTests,     \* test summaries: <<>> (no counts) or <<passed, failed>>
          LFeedback,  \* feedback: [signal, conf], confidence in tenths
          LMaxEvals,  \* maxOutcomeEvals
          LMaxEnds    \* bound on the ends of runs

VARIABLES lRec,   \* lRec[t]: [attempts, successes, latency, failures]
          lFb,    \* lFb[r]: the run's feedback, NoFeedback when none
          lEvals, \* outcomeEvals: [run, success] of the latest evaluations
          lRoute, \* lRoute[r]: the outcome attached to the run's routing entry
          lDisk,  \* what saveIntelligence last wrote
          lEnds,  \* history: per tenant, ends with proof of success, ends with
                  \* any decisive evidence, ends
          lCount  \* ends so far
learningVars == <<lRec, lFb, lEvals, lRoute, lDisk, lEnds, lCount>>

NoFeedback == [signal |-> "none", conf |-> 0]
Store == [rec |-> lRec, fb |-> lFb, evals |-> lEvals, route |-> lRoute]

(******************************* evaluation *******************************)

Passed(t) == t # <<>> /\ t[1] > 0 /\ t[2] = 0
Failed(t) == t # <<>> /\ t[2] > 0

\* evaluateOutcome: "yes", "no" or "unknown".  Runs carry no success criteria,
\* so the counts of run_tests are the only objective evidence; feedback can
\* put it in doubt, and decide only against a run.
TaskSuccess(completed, tests, fb) ==
    CASE Failed(tests) ->
           IF fb.signal = "positive" /\ fb.conf >= 8 THEN "unknown" ELSE "no"
      [] Passed(tests) ->
           IF fb.signal = "negative" /\ fb.conf >= 7 THEN "unknown" ELSE "yes"
      [] OTHER ->
           IF (fb.signal = "negative" /\ fb.conf >= 3) \/ ~completed THEN "no" ELSE "unknown"

\* recordOutcome: an unknown outcome moves the latency samples only.
Recorded(r, success) ==
    [attempts |-> r.attempts + (IF success = "unknown" THEN 0 ELSE 1),
     successes |-> r.successes + (IF success = "yes" THEN 1 ELSE 0),
     latency |-> r.latency + 1,
     failures |-> r.failures + (IF success = "no" THEN 1 ELSE 0)]

\* predictedSuccess, in thousandths, with a prior of seven in ten worth four
\* samples.
Predicted(r) == (1000 * r.successes + 2800) \div (r.attempts + 4)

(******************************** actions *********************************)

LearningInit ==
    /\ lRec = [t \in LTenants |-> [attempts |-> 0, successes |-> 0, latency |-> 0, failures |-> 0]]
    /\ lFb = [r \in LRuns |-> NoFeedback]
    /\ lEvals = <<>>
    /\ lRoute = [r \in LRuns |-> "none"]
    /\ lDisk = Store
    /\ lEnds = [t \in LTenants |-> [proof |-> 0, decisive |-> 0, ends |-> 0]]
    /\ lCount = 0

\* ingestRunOutcome: the evaluation, the counters of the tenant, the list of
\* evaluations and the routing entry of the run.
IngestRunOutcome(run, completed, tests) ==
    LET t == LTenantOf[run]
        success == TaskSuccess(completed, tests, lFb[run])
        list == Append(lEvals, [run |-> run, success |-> success])
    IN  /\ lRec' = [lRec EXCEPT ![t] = Recorded(@, success)]
        /\ lEvals' = IF Len(list) > LMaxEvals THEN Tail(list) ELSE list
        /\ lRoute' = [lRoute EXCEPT ![run] = IF @ = "none" THEN success ELSE @]
        /\ lEnds' = [lEnds EXCEPT ![t] =
             [proof |-> @.proof + (IF Passed(tests) THEN 1 ELSE 0),
              decisive |-> @.decisive + (IF Passed(tests) \/ Failed(tests) \/ ~completed
                                            \/ lFb[run].signal = "negative" THEN 1 ELSE 0),
              ends |-> @.ends + 1]]

\* _recordRunEnd: how the run ended, and the counts of its recent run_tests added up.
RecordRunEnd(run) ==
    /\ lCount < LMaxEnds
    /\ \E completed \in BOOLEAN, tests \in LTests : IngestRunOutcome(run, completed, tests)
    /\ lCount' = lCount + 1
    /\ UNCHANGED <<lFb, lDisk>>

\* recordFeedback, from POST /api/runs/:id/feedback: it replaces the last one
\* and is saved at once.
RecordFeedback(run) ==
    /\ \E fb \in LFeedback : lFb' = [lFb EXCEPT ![run] = fb]
    /\ \/ lDisk' = [Store EXCEPT !.fb = lFb']
       \/ UNCHANGED lDisk   \* the save is best-effort
    /\ UNCHANGED <<lRec, lEvals, lRoute, lEnds, lCount>>

\* saveIntelligence, on the timer and after an end.
SaveIntelligence ==
    /\ lDisk' = Store
    /\ UNCHANGED <<lRec, lFb, lEvals, lRoute, lEnds, lCount>>

\* A restart: load takes what was saved.
LoadIntelligence ==
    /\ lRec' = lDisk.rec /\ lFb' = lDisk.fb /\ lEvals' = lDisk.evals /\ lRoute' = lDisk.route
    /\ UNCHANGED <<lDisk, lEnds, lCount>>

LearningNext ==
    \/ SaveIntelligence \/ LoadIntelligence
    \/ \E r \in LRuns : RecordRunEnd(r) \/ RecordFeedback(r)

(******************************* properties *******************************)

\* A tenant's estimate rests on that tenant's own evidence: across ends,
\* feedback, saves and restarts no success is counted without an end whose
\* tests all passed (positive feedback alone never is one), no attempt without
\* decisive evidence, every failure behind the reliability was an attempt, and
\* the prediction stays a probability.
LearnedFromEvidence ==
    \A t \in LTenants :
        /\ lRec[t].successes <= lEnds[t].proof
        /\ lRec[t].attempts <= lEnds[t].decisive
        /\ lRec[t].latency <= lEnds[t].ends
        /\ lRec[t].successes + lRec[t].failures = lRec[t].attempts
        /\ Predicted(lRec[t]) \in 0..1000
        /\ \A i \in DOMAIN lEvals :
              lEvals[i].success = "yes" /\ LTenantOf[lEvals[i].run] = t => lEnds[t].proof > 0
=============================================================================
