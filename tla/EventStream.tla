---------------------------- MODULE EventStream -----------------------------
(***************************************************************************)
(* Events from the run to the console: the EventBus with its bounded logs  *)
(* (backend/src/events/event-bus.js), the durable log behind it            *)
(* (infrastructure/event-log.js, persistRunArtifacts and restorePersisted  *)
(* of server.js), the stream (services/sse-service.js), and the console's  *)
(* hook and reducer (frontend hooks/useEventStream.ts, state/store.tsx).   *)
(* An event is its global sequence number: a run lives in one process, so  *)
(* within a run the number identifies it.  What the console shows of a run *)
(* is the set of events that its snapshot reflects.                        *)
(***************************************************************************)
EXTENDS Naturals, Sequences, FiniteSets, SequencesExt

CONSTANTS
    ERun, noRun,
    Delta,              \* the numbers of events that are text deltas
    MaxSeq,             \* bound: events ever emitted
    MaxBuffer,          \* maxReplayBuffer and MAX_EVENTS_PER_RUN (500 each)
    MaxRuns,            \* maxRuns of the bus (500)
    RestoreWindow,      \* index entries whose logs a restart reloads (50)
    MaxDisturbances     \* bound: crashes, breaks, failed requests and selections of a run

VARIABLES
    durable,        \* datastore.kind = 'postgres'
    globalSeq, log, order,      \* the bus; an absent log is <<>>, order that of the Map
    living,         \* runs of this process (only these emit)
    emitted,        \* history: [ERun -> events emitted]
    disk,           \* [ERun -> stored events, in order]
    diskSnap,       \* [ERun -> the stored snapshot]
    active, shown, lastSeq,     \* the console: run, snapshot of it, cursor
    conn, wire, cursor, loaded, \* its stream: state, frames on the way, ?since=, what the server read
    buf,            \* deltas waiting for the 16 ms timer
    gets,           \* its two requests for the state: on selection and after a gap
    received,       \* history: events that overtook an answer to these requests
    cursorOld,      \* history: which of lastSeq and cursor stem from an earlier process
    explained,      \* history: events of the active run lost for a known reason
    disturbances

busVars == <<durable, globalSeq, log, order, living, emitted, disk, diskSnap>>
clientVars == <<active, shown, lastSeq, conn, wire, cursor, loaded, buf, gets, received, cursorOld>>
streamVars == <<busVars, clientVars, explained, disturbances>>

gapFrame == 0     \* events count from 1
NoView == [run |-> noRun, view |-> {}]
NoSnap == [run |-> noRun, view |-> {}, last |-> 0]
Idle == [at |-> "none", snap |-> NoSnap, lost |-> {}]
Latest(es) == IF es = <<>> THEN 0 ELSE Last(es)

\* The newest MaxBuffer events.
Newest(es) == SubSeq(es, IF Len(es) > MaxBuffer THEN Len(es) - MaxBuffer + 1 ELSE 1, Len(es))
Merged(a, b) == SetToSortSeq(ToSet(a) \cup ToSet(b), <)

StreamInit ==
    /\ durable \in BOOLEAN
    /\ globalSeq = 0 /\ log = [r \in ERun |-> <<>>] /\ order = <<>>
    /\ living = {} /\ emitted = [r \in ERun |-> {}]
    /\ disk = [r \in ERun |-> <<>>] /\ diskSnap = [r \in ERun |-> NoSnap]
    /\ active = noRun /\ shown = NoView /\ lastSeq = 0 /\ conn = "off" /\ wire = <<>>
    /\ cursor = 0 /\ loaded = <<>> /\ buf = {} /\ received = {} /\ cursorOld = {}
    /\ gets = [load |-> Idle, resync |-> Idle]
    /\ explained = {} /\ disturbances = 0

Disturb == disturbances < MaxDisturbances /\ disturbances' = disturbances + 1

------------------------------------------------------------------------------
(* The bus.                                                                 *)

Subscribed(r) == conn = "open" /\ active = r

\* _pruneRunsIfNeeded, one run over the limit: the oldest log goes, unless the
\* run is watched; then it moves to the back and the bus stays over its limit.
Pruned(o) ==
    IF Len(o) <= MaxRuns THEN [order |-> o, gone |-> {}]
    ELSE IF Subscribed(Head(o)) THEN [order |-> Append(Tail(o), Head(o)), gone |-> {}]
    ELSE LET n == Len(o) - MaxRuns
             watched == {i \in 1..n : Subscribed(o[i])}
         IN  IF watched = {} THEN [order |-> SubSeq(o, n + 1, Len(o)), gone |-> ToSet(SubSeq(o, 1, n))]
             ELSE LET i == CHOOSE k \in watched : TRUE
                  IN [order |-> Append(SubSeq(o, i + 1, Len(o)), o[i]), gone |-> ToSet(SubSeq(o, 1, i - 1))]

\* emit; the first event of a run is that of its creation.
Emit(r) ==
    /\ globalSeq < MaxSeq
    /\ r \in living \/ emitted[r] = {}
    /\ LET s == globalSeq + 1
           pruned == IF log[r] = <<>> THEN Pruned(Append(order, r)) ELSE [order |-> order, gone |-> {}]
           kept == [q \in ERun |-> IF q \in pruned.gone THEN <<>> ELSE log[q]]
       IN  /\ globalSeq' = s /\ living' = living \cup {r}
           /\ order' = pruned.order
           /\ log' = [kept EXCEPT ![r] = Newest(Append(kept[r], s))]
           /\ emitted' = [emitted EXCEPT ![r] = @ \cup {s}]
           /\ wire' = IF Subscribed(r) THEN Append(wire, s) ELSE wire
    /\ UNCHANGED <<durable, disk, diskSnap, active, shown, lastSeq, conn, cursor, loaded, buf,
                   gets, received, cursorOld, explained, disturbances>>

\* persistRunArtifacts appends the events of the log, then stores a snapshot: a
\* write that fails is logged and the next one goes ahead, and several of these
\* (each step, each tick, the end of the run) overlap.
StoreEvents(r) ==
    /\ r \in living
    /\ disk' = [disk EXCEPT ![r] = Newest(Merged(@, log[r]))]
    /\ UNCHANGED <<durable, globalSeq, log, order, living, emitted, diskSnap, clientVars, explained, disturbances>>

\* buildSnapshot: the state of the run, and lastSeqFor.
Snapshot(r) == [run |-> r, view |-> emitted[r], last |-> Latest(log[r])]

StoreSnapshot(r) ==
    /\ r \in living
    /\ diskSnap' = [diskSnap EXCEPT ![r] = Snapshot(r)]
    /\ UNCHANGED <<durable, globalSeq, log, order, living, emitted, disk, clientVars, explained, disturbances>>

MaxOver(rs) ==
    LET ss == UNION {ToSet(disk[r]) : r \in rs} IN IF ss = {} THEN 0 ELSE CHOOSE s \in ss : \A t \in ss : t <= s

\* The process dies and restorePersisted reloads the logs of the last entries of
\* the index, which raise globalSeq: which runs these are depends on the order of
\* earlier index writes.  The console loses its stream and its open requests.
CrashRestart(rs) ==
    /\ Disturb
    /\ LET stored == {r \in ERun : disk[r] # <<>>}
       IN  /\ rs \subseteq stored
           /\ Cardinality(rs) = (IF Cardinality(stored) < RestoreWindow THEN Cardinality(stored) ELSE RestoreWindow)
    /\ living' = {}
    /\ log' = [r \in ERun |-> IF r \in rs THEN disk[r] ELSE <<>>]
    /\ order' = SetToSeq(rs)
    /\ globalSeq' = MaxOver(rs)
    /\ conn' = (IF conn = "off" THEN "off" ELSE "waiting")
    /\ wire' = <<>> /\ loaded' = <<>> /\ cursorOld' = {"lastSeq"}
    /\ gets' = [k \in DOMAIN gets |-> IF gets[k].at = "asked" THEN Idle ELSE gets[k]]
    /\ explained' = explained \cup (IF gets.resync.at = "asked" THEN gets.resync.lost ELSE {})
    /\ UNCHANGED <<durable, emitted, disk, diskSnap, active, shown, lastSeq, cursor, buf, received>>

------------------------------------------------------------------------------
(* The stream, on the server.                                               *)

\* Seeded fault: one event too few is noticed.
BugGap(n, es) == n > 0 /\ n < Head(es) - 2

\* getEventsSinceWithGap: the cursor lies before the retained window.
Gap(n, es) == n > 0 /\ n < Head(es) - 1

\* Replay and subscribe, in one step of the event loop.  Not all that is missing
\* is told: the test looks at the oldest event only, not at holes of the stored
\* log or at what was emitted while it was read; a first connection (cursor 0) is
\* never told; and a cursor from before a restart may be ahead of the numbers that
\* are given out anew.
Reply(es) ==
    /\ wire' = (IF Gap(cursor, es) THEN <<gapFrame>> ELSE <<>>) \o SelectSeq(es, LAMBDA s : s > cursor)
    /\ conn' = "open" /\ loaded' = <<>> /\ cursor' = 0
    /\ explained' = explained \cup
         {s \in emitted[active] : \/ s > Head(es) /\ s \notin ToSet(es)
                                  \/ s < Head(es) /\ cursor = 0
                                  \/ s <= cursor /\ "cursor" \in cursorOld}

\* No such run (or no stored events): EventSource reports an error, and retries.
NotFound == conn' = "waiting" /\ UNCHANGED <<wire, cursor, loaded, explained>>

\* serveRunEvents with the log at hand; otherwise, and always with postgres, the
\* stored events are read first.
Serve ==
    /\ conn = "asked"
    /\ IF ~durable /\ log[active] # <<>> THEN Reply(log[active])
       ELSE IF ~durable /\ disk[active] = <<>> THEN NotFound
       ELSE conn' = "loading" /\ loaded' = disk[active] /\ UNCHANGED <<wire, cursor, explained>>
    /\ UNCHANGED <<busVars, active, shown, lastSeq, buf, gets, received, cursorOld, disturbances>>

\* File store: what was read replaces the log, whatever was emitted meanwhile.
ServeLoaded ==
    /\ conn = "loading" /\ ~durable
    /\ log' = [log EXCEPT ![active] = loaded]
    /\ order' = IF log[active] = <<>> THEN Append(order, active) ELSE order
    /\ Reply(loaded)
    /\ UNCHANGED <<durable, globalSeq, living, emitted, disk, diskSnap,
                   active, shown, lastSeq, buf, gets, received, cursorOld, disturbances>>

\* Postgres: readDurableSince merges what was read with the log of now.
ServeMerged ==
    /\ conn = "loading" /\ durable
    /\ LET es == Merged(loaded, log[active])
       IN  IF es = <<>> THEN NotFound ELSE Reply(es)
    /\ UNCHANGED <<busVars, active, shown, lastSeq, buf, gets, received, cursorOld, disturbances>>

------------------------------------------------------------------------------
(* The console.                                                             *)

Carried == IF "lastSeq" \in cursorOld THEN {"lastSeq", "cursor"} ELSE {}

\* The active run changes: the hook closes its stream, drops its buffer and
\* opens another with the cursor it has; the app asks for the state.
Select(r) ==
    /\ r # active /\ emitted[r] # {}
    /\ Disturb
    /\ active' = r /\ conn' = "asked" /\ cursor' = lastSeq
    /\ wire' = <<>> /\ loaded' = <<>> /\ buf' = {} /\ received' = {}
    /\ gets' = [load |-> [Idle EXCEPT !.at = "asked"], resync |-> Idle]
    /\ explained' = {} /\ cursorOld' = Carried
    /\ UNCHANGED <<busVars, shown, lastSeq>>

\* event/apply of env with number last, which stands for the events es.
Apply(es, last) ==
    IF shown.run = active /\ last > lastSeq
    THEN shown' = [shown EXCEPT !.view = @ \cup es] /\ lastSeq' = last
    ELSE UNCHANGED <<shown, lastSeq>>

MaxOf(es) == CHOOSE s \in es : \A t \in es : t <= s

\* What the view of the active run has.
Seen == IF shown.run = active THEN shown.view ELSE {}
Noted(s) == IF \E k \in DOMAIN gets : gets[k].at = "answered" THEN received \cup {s} ELSE received

\* The listeners: deltas are gathered, and applied before anything else is.
Deliver ==
    /\ conn = "open" /\ wire # <<>>
    /\ wire' = Tail(wire)
    /\ LET s == Head(wire) IN
       \/ /\ s = gapFrame
          /\ gets' = [gets EXCEPT !.resync =
                [at |-> IF @.at = "none" THEN "asked" ELSE @.at, snap |-> @.snap,
                 lost |-> @.lost \cup {t \in emitted[active] : t \notin ToSet(wire) \cup Seen}]]
          /\ UNCHANGED <<shown, lastSeq, buf, received>>
       \/ /\ s # gapFrame /\ s \in Delta
          /\ buf' = buf \cup {s} /\ received' = Noted(s)
          /\ UNCHANGED <<shown, lastSeq, gets>>
       \/ /\ s # gapFrame /\ s \notin Delta
          /\ Apply(IF buf = {} \/ MaxOf(buf) <= lastSeq THEN {s} ELSE buf \cup {s}, s)
          /\ buf' = {} /\ received' = Noted(s) /\ UNCHANGED gets
    /\ UNCHANGED <<busVars, active, conn, cursor, loaded, cursorOld, explained, disturbances>>

\* flushDelta on its timer.
FlushDelta ==
    /\ buf # {}
    /\ Apply(buf, MaxOf(buf)) /\ buf' = {}
    /\ UNCHANGED <<busVars, active, conn, wire, cursor, loaded, gets, received, cursorOld, explained, disturbances>>

\* The connection breaks, or the bus sheds it as its oldest of 50: onerror.
Drop ==
    /\ conn \in {"asked", "open"}
    /\ Disturb
    /\ conn' = "waiting" /\ wire' = <<>>
    /\ UNCHANGED <<busVars, active, shown, lastSeq, cursor, loaded, buf, gets, received, cursorOld, explained>>

\* The backoff of at least a second outlasts the 16 ms of the buffer.
Reconnect ==
    /\ conn = "waiting" /\ buf = {}
    /\ conn' = "asked" /\ cursor' = lastSeq /\ cursorOld' = Carried
    /\ UNCHANGED <<busVars, active, shown, lastSeq, wire, loaded, buf, gets, received, explained, disturbances>>

\* GET state: of the run in memory, else the stored one.
StateOf(r) == IF r \in living THEN Snapshot(r) ELSE diskSnap[r]

Answer(k) ==
    /\ gets[k].at = "asked" /\ StateOf(active) # NoSnap
    /\ gets' = [gets EXCEPT ![k].at = "answered", ![k].snap = StateOf(active)]
    /\ UNCHANGED <<busVars, active, shown, lastSeq, conn, wire, cursor, loaded, buf, received, cursorOld, explained, disturbances>>

\* 404, or no answer: nothing asks again (a later gap, or selecting the run anew).
GetFails(k) ==
    /\ gets[k].at = "asked"
    /\ \/ StateOf(active) = NoSnap /\ UNCHANGED disturbances
       \/ Disturb
    /\ gets' = [gets EXCEPT ![k] = Idle]
    /\ explained' = explained \cup gets[k].lost
    /\ UNCHANGED <<busVars, active, shown, lastSeq, conn, wire, cursor, loaded, buf, received, cursorOld>>

\* snap/set: the answer replaces snapshot and cursor, whatever came meanwhile.
\* What the console had beyond it will not be sent again.
SetSnapshot(k) ==
    /\ gets[k].at = "answered"
    /\ LET new == gets[k].snap
       IN  /\ shown' = [run |-> active, view |-> new.view] /\ lastSeq' = new.last
           /\ cursorOld' = (IF active \in living THEN cursorOld \ {"lastSeq"} ELSE cursorOld)
           /\ explained' = explained \cup ((Seen \cup received \cup gets[k].lost) \ new.view)
    /\ gets' = [gets EXCEPT ![k] = Idle]
    /\ received' = (IF \E o \in DOMAIN gets \ {k} : gets[o].at = "answered" THEN received ELSE {})
    /\ UNCHANGED <<busVars, active, conn, wire, cursor, loaded, buf, disturbances>>

StreamNext ==
    \/ \E r \in ERun : Emit(r) \/ StoreEvents(r) \/ StoreSnapshot(r) \/ Select(r)
    \/ \E rs \in SUBSET ERun : CrashRestart(rs)
    \/ Serve \/ ServeLoaded \/ ServeMerged
    \/ Deliver \/ FlushDelta \/ Drop \/ Reconnect
    \/ \E k \in {"load", "resync"} : Answer(k) \/ GetFails(k) \/ SetSnapshot(k)

------------------------------------------------------------------------------
StreamTypeOK ==
    /\ durable \in BOOLEAN /\ globalSeq \in 0..MaxSeq /\ lastSeq \in 0..MaxSeq
    /\ \A r \in ERun : Len(log[r]) <= MaxBuffer /\ Len(disk[r]) <= MaxBuffer
    /\ conn \in {"off", "asked", "loading", "open", "waiting"}
    /\ Len(order) <= Cardinality(ERun)

\* "Missed events are replayed by the server via ?since=<lastSeq>" and, past the
\* retained window, "gap=true and the caller must resync" (useEventStream.ts,
\* event-bus.js): whatever was dropped, replayed, restarted or selected, the
\* console shows every event of its run up to its cursor, save those lost in the
\* known ways (explained) and those a running resync will bring.
ViewFaithful ==
    active # noRun /\ shown.run = active =>
        \A s \in emitted[active] :
            s <= lastSeq => s \in shown.view \cup explained \cup gets.resync.lost
=============================================================================
