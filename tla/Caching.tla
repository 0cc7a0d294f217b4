------------------------------ MODULE Caching ------------------------------
(***************************************************************************)
(* Reuse of answers (impl/cache-manager.js, intelligence/semantic-cache.js *)
(* and the two lookups of _callModel in core/orchestrator.js): a response  *)
(* cache whose keys name the run, the model and the prompt, and a semantic *)
(* index that all runs share and that finds near-duplicate tasks.          *)
(*                                                                         *)
(* A prompt is what a call sends but for the system message: the plan and  *)
(* the messages.  The plan's fingerprint covers the words of the turn, the *)
(* titles and sizes of the selected items, memory titles, tools and        *)
(* policy; what the items say and the history stand in the messages alone. *)
(* Similarity is in tenths.                                                *)
(***************************************************************************)
EXTENDS Integers, SequencesExt

CONSTANTS
    HRuns,       \* runs of the process
    HTenantOf,   \* [HRuns -> tenant]
    HTaskOf,     \* [HRuns -> task text]
    HSimilar,    \* lexicalOverlap: [task, task -> 0..10]
    HThreshold,  \* similarityThreshold
    HModels,     \* models a run may be switched to
    HPrompts,    \* prompts
    HPrintOf,    \* [HPrompts -> plan.fingerprint]
    HToolsOf,    \* [HRuns -> the tools offered]
    HMaxL1,      \* maxSize of the response cache
    HMaxSem,     \* max entries of the semantic index
    HMaxCalls,   \* bound: steps of all runs
    HMaxEnvs     \* bound: switches, context changes, ageing

ASSUME CachingAssumption ==
    /\ {HThreshold, HMaxCalls, HMaxEnvs} \subseteq Nat
    /\ {HMaxL1, HMaxSem} \subseteq Nat \ {0}

VARIABLES
    hL1,     \* the response cache, least recently used first
    hSem,    \* the semantic index, oldest first
    hRun,    \* [HRuns -> model, prompt, pc, and what the call in flight holds]
    hServed, \* the latest reuse: who asked, and the entry it was served
    hCalls, hEnvs

cachingVars == <<hL1, hSem, hRun, hServed, hCalls, hEnvs>>

NoReuse == [layer |-> "none"]

CachingInit ==
    /\ hL1 = <<>> /\ hSem = <<>> /\ hServed = NoReuse
    /\ hCalls = 0 /\ hEnvs = 0
    /\ hRun \in [HRuns -> [model : HModels, prompt : HPrompts, pc : {"idle"},
                           held : {<<>>}]]

(****************************** response cache *****************************)

\* scopedKey of the run and a hash of provider, model, fingerprint and messages.
KeyOf(r, model, prompt) == <<r, model, prompt>>

\* The cache without some of its entries, in its order.
Dropping(cache, gone) ==
    LET kept[i \in 0..Len(cache)] ==
          IF i = 0 THEN <<>>
          ELSE IF cache[i] \notin gone THEN Append(kept[i - 1], cache[i]) ELSE kept[i - 1]
    IN  kept[Len(cache)]

\* set: at the limit the least recently used entry goes, whatever the key.
SetL1(cache, e) ==
    LET room == IF Len(cache) >= HMaxL1 THEN Tail(cache) ELSE cache
    IN Append(Dropping(room, {x \in ToSet(room) : x.key = e.key}), e)

Touched(cache, e) == Append(Dropping(cache, {e}), e)

\* invalidatePrefix of a model switch, and clearRun when a run is let go.
RunsKeys(r) == Dropping(hL1, {e \in ToSet(hL1) : e.key[1] = r})

(****************************** semantic index *****************************)

Similarity(a, b) == IF a = b THEN 10 ELSE HSimilar[a, b]

BugInScope(e, r) == TRUE
InScope(e, r) == e.tenant = HTenantOf[r]

\* lookup: the most similar entry of the tenant, the oldest among equals ...
BestEntry(r) ==
    LET in == {i \in 1..Len(hSem) : InScope(hSem[i], r)
                                      /\ Similarity(HTaskOf[r], hSem[i].task) > 0}
        Sim(i) == Similarity(HTaskOf[r], hSem[i].task)
        best == {i \in in : \A j \in in : Sim(i) > Sim(j) \/ (Sim(i) = Sim(j) /\ i <= j)}
    IN {hSem[i] : i \in best}

\* ... which must clear every gate; the next best is not tried.  Of the prompts
\* the fingerprints are compared, and the callers pass no workspace revision,
\* so that gate never closes.
BugGates(e, r, prompt) ==
    /\ Similarity(HTaskOf[r], e.task) >= HThreshold
    /\ ~e.old
    /\ e.tools = HToolsOf[r]
Gates(e, r, prompt) ==
    /\ Similarity(HTaskOf[r], e.task) >= HThreshold
    /\ ~e.old
    /\ HPrintOf[e.prompt] = HPrintOf[prompt]
    /\ e.tools = HToolsOf[r]

\* The caller's own gates: the same model gave it, to another run.
CallerAccepts(e, r, model) == e.model = model /\ e.run # r

StoreSem(index, e) ==
    LET all == Append(index, e) IN IF Len(all) > HMaxSem THEN Tail(all) ELSE all

(******************************** the steps ********************************)

\* _callModel: the response cache, then, for a fresh step, the semantic index,
\* then the provider with the prompt and the model read here.
Call(r, continuation) ==
    LET me == hRun[r]
        hit == {e \in ToSet(hL1) : e.key = KeyOf(r, me.model, me.prompt) /\ ~e.old}
        near == {e \in BestEntry(r) : Gates(e, r, me.prompt) /\ CallerAccepts(e, r, me.model)}
        expired == {e \in ToSet(hL1) : e.key = KeyOf(r, me.model, me.prompt) /\ e.old}
    IN /\ me.pc = "idle" /\ hCalls < HMaxCalls /\ hCalls' = hCalls + 1
       /\ IF hit # {}
          THEN /\ hServed' = [layer |-> "local", run |-> r, entry |-> CHOOSE e \in hit : TRUE,
                              model |-> me.model, prompt |-> me.prompt]
               /\ hL1' = Touched(hL1, CHOOSE e \in hit : TRUE)
               /\ UNCHANGED hRun
          ELSE /\ hL1' = Dropping(hL1, expired)
               /\ IF ~continuation /\ near # {}
                  THEN /\ hServed' = [layer |-> "semantic", run |-> r,
                                      entry |-> CHOOSE e \in near : TRUE,
                                      model |-> me.model, prompt |-> me.prompt]
                       /\ UNCHANGED hRun
                  ELSE /\ hRun' = [hRun EXCEPT ![r].pc = "calling",
                                       ![r].held = <<me.model, me.prompt, continuation>>]
                       /\ UNCHANGED hServed
       /\ UNCHANGED <<hSem, hEnvs>>

Entry(r) == [key |-> KeyOf(r, hRun[r].held[1], hRun[r].held[2]), run |-> r,
             tenant |-> HTenantOf[r], task |-> HTaskOf[r], model |-> hRun[r].held[1],
             prompt |-> hRun[r].held[2], tools |-> HToolsOf[r], old |-> FALSE]

\* The provider answers: the answer is kept under the key computed before the
\* call; a fresh step's answer without tool calls also goes to the index.
CallAnswered(r, toolCalls) ==
    /\ hRun[r].pc = "calling"
    /\ hL1' = SetL1(hL1, Entry(r))
    /\ hSem' = IF ~hRun[r].held[3] /\ ~toolCalls THEN StoreSem(hSem, Entry(r)) ELSE hSem
    /\ hRun' = [hRun EXCEPT ![r].pc = "idle", ![r].held = <<>>]
    /\ UNCHANGED <<hServed, hCalls, hEnvs>>

SwitchModel(r, m) ==
    /\ hEnvs < HMaxEnvs /\ hEnvs' = hEnvs + 1 /\ m # hRun[r].model
    /\ hRun' = [hRun EXCEPT ![r].model = m] /\ hL1' = RunsKeys(r)
    /\ UNCHANGED <<hSem, hServed, hCalls>>

PromptChanges(r, p) ==
    /\ hEnvs < HMaxEnvs /\ hEnvs' = hEnvs + 1 /\ p # hRun[r].prompt
    /\ hRun' = [hRun EXCEPT ![r].prompt = p]
    /\ UNCHANGED <<hL1, hSem, hServed, hCalls>>

\* Time passes the age limit of the oldest entries.
Age(n) ==
    /\ hEnvs < HMaxEnvs /\ hEnvs' = hEnvs + 1
    /\ hSem' = [i \in 1..Len(hSem) |-> IF i <= n THEN [hSem[i] EXCEPT !.old = TRUE] ELSE hSem[i]]
    /\ hL1' = [i \in 1..Len(hL1) |-> IF i <= n THEN [hL1[i] EXCEPT !.old = TRUE] ELSE hL1[i]]
    /\ UNCHANGED <<hRun, hServed, hCalls>>

RunRetired(r) ==
    /\ hEnvs < HMaxEnvs /\ hEnvs' = hEnvs + 1 /\ hRun[r].pc = "idle"
    /\ hL1' = RunsKeys(r)
    /\ UNCHANGED <<hSem, hRun, hServed, hCalls>>

CachingNext ==
    \/ \E r \in HRuns, b \in BOOLEAN : Call(r, b) \/ CallAnswered(r, b)
    \/ \E r \in HRuns, m \in HModels : SwitchModel(r, m)
    \/ \E r \in HRuns, p \in HPrompts : PromptChanges(r, p)
    \/ \E n \in 1..HMaxSem : Age(n)
    \/ \E r \in HRuns : RunRetired(r)

(****************************** properties *********************************)

\* Whatever answers runs of several tenants leave behind while models and
\* prompts change under calls in flight, an answer served again was given to
\* the same tenant, by the model the run now has, with the same tools.  Within a
\* run the response cache gives it for the very prompt the run now has; between
\* runs the index gives it for a similar task and a prompt of the same
\* fingerprint, whose history and item texts may be others.
ReuseIsSafe ==
    hServed # NoReuse =>
        LET e == hServed.entry
        IN /\ e.tenant = HTenantOf[hServed.run]
           /\ e.model = hServed.model /\ ~e.old
           /\ e.tools = HToolsOf[hServed.run]
           /\ IF hServed.layer = "local" THEN e.run = hServed.run /\ e.prompt = hServed.prompt
              ELSE /\ e.run # hServed.run /\ HPrintOf[e.prompt] = HPrintOf[hServed.prompt]
                   /\ Similarity(HTaskOf[hServed.run], e.task) >= HThreshold
=============================================================================
