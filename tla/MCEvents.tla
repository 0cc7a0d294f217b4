------------------------------ MODULE MCEvents ------------------------------
\* What is kept of the runs: the events on their way to the console, what it makes
\* of them, and the index and files.  The three share no variable: each behaviour
\* has one of them move (part), so that their state spaces add up.
EXTENDS EventStream, ConsoleView, RunStore, TLC
CONSTANTS s1, s2, s3

MCTenantOf == (s1 :> "A") @@ (s2 :> "A") @@ (s3 :> "B")

VARIABLE part

EventsInit ==
    /\ StreamInit /\ ViewInit /\ StoreInit
    /\ part \in {"stream", "view", "store"}
    /\ part # "stream" => ~durable
    /\ part # "store" => ~pg

EventsNext ==
    /\ UNCHANGED part
    /\ \/ part = "stream" /\ StreamNext /\ UNCHANGED <<viewVars, storeVars>>
       \/ part = "view" /\ ViewNext /\ UNCHANGED <<streamVars, storeVars>>
       \/ part = "store" /\ StoreNext /\ UNCHANGED <<streamVars, viewVars>>

EventsSpec == EventsInit /\ [][EventsNext]_<<streamVars, viewVars, storeVars, part>>

Symmetry == Permutations(ERun) \cup Permutations({s1, s2})

\* What the console shows is what the run recorded: it misses no event but for a
\* known reason (ViewFaithful), and makes of the events what the snapshot says
\* (SameState), across gaps, reloads, tool calls, retries and cancellations.
ConsoleFaithful == StreamTypeOK /\ ViewFaithful /\ SameState

\* The store keeps what it promises (persistence.js, privacy.js): a recorded end
\* stays listed, the files of listed and active runs stay, and what a project's
\* retention forbids is gone when its purge is over, whatever ticks, saves,
\* purges, prunings, damaged files and restarts come between.
StoreKept == StoreTypeOK /\ HistoryKept /\ FilesKept /\ RetentionObeyed
=============================================================================
