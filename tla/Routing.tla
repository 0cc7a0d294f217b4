------------------------------ MODULE Routing ------------------------------
(***************************************************************************)
(* Model selection over a run's life (core/orchestrator.js), against the   *)
(* shared registry (impl/model-registry.js) that provider outcomes, model  *)
(* discovery (providers/model-discovery.js) and other runs keep changing.  *)
(*                                                                         *)
(* getModels hands out the registry's own objects.  Observations and price *)
(* updates mutate them, so a routing in flight sees these; updateModel     *)
(* replaces the object, so a routing in flight keeps the old one.  The     *)
(* field obj is the identity of the object.                                *)
(***************************************************************************)
EXTENDS RouterRules

CONSTANTS
    RModels,        \* model ids, naturals above 0
    RSeeded,        \* the models registered at start
    RFacts,         \* [RModels -> provider, inp, window, caps, qual, lat, rel]
    RPrices,        \* the output rates a price update may announce
    RRels,          \* the reliabilities an observation may leave a model with
    RLats,          \* the latencies a call may take, and their averages
    RShort,         \* candidates a larger or a cheaper switch looks at (3)
    RPolicy,        \* the run's policy
    RAllowed,       \* policy.isModelAllowed
    RNeed,          \* thousands of prompt tokens
    RMaxSwitches,   \* maxSwitchesPerTask
    RMaxRetries,    \* same-model retries
    RDegradeAfter,  \* consecutive failures that degrade (5 in the code)
    RLateStep,      \* from this step a price change never reselects (3)
    RMaxSteps,      \* bound: provider calls of the run
    RMaxEvents      \* bound: registry changes by others

ASSUME RoutingAssumption ==
    /\ RModels \subseteq Nat \ {0} /\ RSeeded \subseteq RModels /\ IsFiniteSet(RSeeded)
    /\ \A m \in RModels : RFacts[m].window \in Nat /\
          {RFacts[m].inp, RFacts[m].qual, RFacts[m].lat, RFacts[m].rel} \subseteq Nat \cup {Unknown}
    /\ RPrices \subseteq Nat \cup {Unknown}
    /\ RRels \subseteq Nat /\ RLats \subseteq Nat /\ RShort \in Nat \ {0}
    /\ {RPolicy.qualityFloor, RPolicy.latencyTarget, RPolicy.minReliability, RPolicy.preferred,
        RPolicy.maxRetries, RPolicy.toolCost, RPolicy.latencyPrice} \subseteq Nat
    /\ RAllowed \subseteq RModels
    /\ {RMaxSwitches, RMaxRetries, RDegradeAfter, RLateStep, RMaxSteps, RMaxEvents, RNeed} \subseteq Nat

VARIABLES
    rReg,   \* the registry: id -> object, for the registered ids
    rRun,   \* the run's control record
    rLoop,  \* what the loop's routing in flight holds
    rPrice, \* what the price handler's routing in flight holds
    rEv     \* registry changes so far

routingVars == <<rReg, rRun, rLoop, rPrice, rEv>>

Idle == [on |-> FALSE, models |-> {}, named |-> {}]

Fresh(m, out) == [status |-> "healthy", byObserver |-> FALSE, consec |-> 0, out |-> out,
                  rel |-> RFacts[m].rel, lat |-> RFacts[m].lat, obj |-> 0]

RoutingInit ==
    /\ \E p \in [RSeeded -> RPrices] : rReg = [m \in RSeeded |-> Fresh(m, p[m])]
    /\ rRun = [pc |-> "start", cur |-> NoModel, calling |-> NoModel, curOut |-> 0,
               tried |-> {}, refused |-> {}, named |-> {}, excused |-> {}, count |-> 0, cooling |-> FALSE,
               retries |-> 0, steps |-> 0, rem |-> Unknown, lat |-> 0,
               code |-> "none", by |-> "none", known |-> {}]
    /\ rLoop = Idle /\ rPrice = Idle /\ rEv = 0

RegDom == DOMAIN rReg
Live == rRun.pc \notin {"start", "failed", "done"}

\* The definition the router reads: the fixed facts and the object's fields.
Def(m, o) ==
    [id |-> m, status |-> o.status, out |-> o.out,
     provider |-> RFacts[m].provider, inp |-> RFacts[m].inp, cach |-> RFacts[m].inp,
     window |-> RFacts[m].window, caps |-> RFacts[m].caps, qual |-> RFacts[m].qual,
     lat |-> o.lat, rel |-> o.rel,
     perf |-> [attempts |-> 0, successes |-> 0]]

Ctx == [need |-> RNeed, cached |-> 0, rem |-> rRun.rem, util |-> 1,
        current |-> rRun.cur, curOut |-> rRun.curOut,
        curLat |-> rRun.lat,   \* of the run's last call
        curProvider |-> IF rRun.cur = NoModel THEN Unknown ELSE RFacts[rRun.cur].provider,
        learning |-> FALSE, confident |-> TRUE, needsTools |-> FALSE]

Sticky == [count |-> rRun.count, cooling |-> rRun.cooling]

(***************************** the registry ********************************)

\* An in-place change of the object reg[m], seen by whoever holds that object.
Held(h, m, o) ==
    [h EXCEPT !.models = {IF e.id = m /\ e.o.obj = o.obj THEN [id |-> m, o |-> o] ELSE e :
                            e \in h.models}]
Mutate(m, o) ==
    /\ rReg' = [rReg EXCEPT ![m] = o]
    /\ rLoop' = Held(rLoop, m, o)
    /\ rPrice' = Held(rPrice, m, o)

\* recordObservation: failures degrade, a success heals what they degraded; the
\* reliability follows every outcome, the average latency every timed success.
Timed(m) == RLats \cup {rReg[m].lat}

Observed(was, ok, rel, lat) ==
    LET o == [was EXCEPT !.rel = rel, !.lat = lat] IN
    IF ok
    THEN [o EXCEPT !.consec = 0, !.byObserver = FALSE,
                   !.status = IF o.status = "degraded" /\ o.byObserver THEN "healthy" ELSE @]
    ELSE LET worse == o.consec + 1 >= RDegradeAfter /\ o.status = "healthy"
         IN [o EXCEPT !.consec = Least(RDegradeAfter, o.consec + 1),
                      !.byObserver = @ \/ worse,
                      !.status = IF worse THEN "degraded" ELSE @]

\* Another run's provider call reports its outcome.
OtherRunObserves(m, ok) ==
    /\ rEv < RMaxEvents /\ m \in RegDom
    /\ \E rel \in RRels, lat \in IF ok THEN Timed(m) ELSE {rReg[m].lat} :
          Mutate(m, Observed(rReg[m], ok, rel, lat))
    /\ rEv' = rEv + 1 /\ UNCHANGED rRun

\* updateModel: a new object; routings in flight keep the old one.
Replaced(o, status) == [o EXCEPT !.status = status, !.byObserver = FALSE, !.obj = @ + 1]

\* refreshOnce: an unknown model is registered, a known one patched.
DiscoverModel(m, out) ==
    /\ rEv < RMaxEvents /\ m \notin RegDom
    /\ rReg' = [i \in RegDom \cup {m} |-> IF i = m THEN Fresh(m, out) ELSE rReg[i]]
    /\ rEv' = rEv + 1 /\ UNCHANGED <<rRun, rLoop, rPrice>>

DiscoverPatch(m) ==
    /\ rEv < RMaxEvents /\ m \in RegDom
    /\ rReg' = [rReg EXCEPT ![m].obj = @ + 1]
    /\ rEv' = rEv + 1 /\ UNCHANGED <<rRun, rLoop, rPrice>>

\* updatePrice and the handler it notifies (handlePriceUpdate): the run's
\* price snapshot changes at once.  A late run, or a healthy repriced model,
\* keeps the current model; otherwise _selectModel starts beside the loop.
Usable(m) == m \in RAllowed /\ rReg[m].status # "unavailable"

PriceRecorded(o, out) == [o EXCEPT !.out = out]

\* Discovery announces only a price that differs; others may announce any.
DiscoverPrice(m, out) == rReg[m].out # out

PriceUpdate(m, out) ==
    LET o == PriceRecorded(rReg[m], out)
        uses == Live /\ (rRun.cur = m \/ m \in rRun.known)
        reselect == uses /\ rRun.steps < RLateStep /\ o.status # "healthy" /\ ~rPrice.on
    IN /\ rEv < RMaxEvents /\ m \in RegDom /\ DiscoverPrice(m, out)
       /\ rReg' = [rReg EXCEPT ![m] = o]
       /\ rLoop' = Held(rLoop, m, o)
       /\ rPrice' = IF reselect
                    THEN [on |-> TRUE, named |-> rRun.named,
                          models |-> {[id |-> i, o |-> IF i = m THEN o ELSE rReg[i]] :
                                         i \in {i \in RegDom : Usable(i)}}]
                    ELSE Held(rPrice, m, o)
       /\ rRun' = [rRun EXCEPT !.curOut = IF uses /\ rRun.cur = m THEN out ELSE @]
       /\ rEv' = rEv + 1

(***************************** model selection *****************************)

Take(S) == [on |-> TRUE, named |-> rRun.named,
            models |-> {[id |-> i, o |-> rReg[i]] : i \in S}]
Defs(h) == {Def(e.id, e.o) : e \in h.models}
\* The one decision of the router over the definitions a selection holds.
RouteOver(h) == {Route(list, RPolicy, ctx, sticky, RMaxSwitches) :
                    list \in {Defs(h)}, ctx \in {Ctx}, sticky \in {Sticky}}
OutOf(h, m) == IF \E e \in h.models : e.id = m
               THEN (CHOOSE e \in h.models : e.id = m).o.out ELSE rRun.curOut

\* _selectModel: the candidates are read, then (after the prompt is compiled)
\* routed; the result becomes the run's model without passing the gate.
SelectStart ==
    /\ rRun.pc = "start"
    /\ LET S == {m \in RegDom : Usable(m)}
       IN IF S = {} THEN /\ rRun' = [rRun EXCEPT !.pc = "failed"] /\ UNCHANGED rLoop
          ELSE /\ rRun' = [rRun EXCEPT !.pc = "selecting"] /\ rLoop' = Take(S)
    /\ UNCHANGED <<rReg, rPrice, rEv>>

Selected(d, h, who) ==
    [rRun EXCEPT !.cur = d.model, !.curOut = OutOf(h, d.model), !.by = who,
                 !.known = {e.id : e \in h.models}]

SelectApply ==
    /\ rRun.pc = "selecting"
    /\ \E d \in RouteOver(rLoop) :
          rRun' = IF d.err # "none" THEN [rRun EXCEPT !.pc = "failed"]
                  ELSE [Selected(d, rLoop, "loop") EXCEPT !.pc = "ready"]
    /\ rLoop' = Idle /\ UNCHANGED <<rReg, rPrice, rEv>>

\* The price handler's selection lands, whatever the loop is doing.
PriceSelectApply ==
    /\ rPrice.on
    /\ \E d \in RouteOver(rPrice) :
       LET stale == d.model \in rRun.named \ rPrice.named
       IN rRun' = IF Live /\ d.err = "none"
                  THEN Selected(d, rPrice, IF stale THEN "stale" ELSE "price") ELSE rRun
    /\ rPrice' = Idle /\ UNCHANGED <<rReg, rLoop, rEv>>

(******************************** the loop *********************************)

\* The step calls the provider with the model it holds.
CallModel ==
    /\ rRun.pc = "ready" /\ rRun.steps < RMaxSteps
    /\ rRun' = [rRun EXCEPT !.pc = "calling", !.calling = rRun.cur,
                            !.steps = @ + 1]
    /\ UNCHANGED <<rReg, rLoop, rPrice, rEv>>

CallSucceeds(spent, took) ==
    /\ rRun.pc = "calling"
    /\ \E rel \in RRels, lat \in RLats :
          Mutate(rRun.calling, Observed(rReg[rRun.calling], TRUE, rel, lat))
    /\ rRun' = [rRun EXCEPT !.calling = NoModel, !.lat = took, !.rem = IF spent THEN 0 ELSE @,
                    !.pc = IF spent THEN "budget"
                           ELSE IF rRun.steps >= RMaxSteps THEN "done" ELSE "ready"]
    /\ UNCHANGED rEv

\* Mutant: a model that an observation degraded is not marked.
BugMarkUnavailable(reg, m) ==
    IF reg[m].status # "healthy" THEN reg
    ELSE [reg EXCEPT ![m] = Replaced(@, "unavailable")]

\* A model already marked keeps its object.
MarkUnavailable(reg, m) ==
    IF reg[m].status = "unavailable" THEN reg
    ELSE [reg EXCEPT ![m] = Replaced(@, "unavailable")]

\* The failing call reports its outcome, and the step's handler then names the
\* run's current model, read after the call, as the one that failed.  The model
\* that was called is excused where that is another one.
CallFails(code, rel) ==
    LET failed == rRun.cur
        called == rRun.calling
        after == [rReg EXCEPT ![called] = Observed(@, FALSE, rel, @.lat)]
        marked == IF code = "model_unavailable" THEN MarkUnavailable(after, failed) ELSE after
    IN /\ rRun.pc = "calling"
       /\ rReg' = marked
       /\ rLoop' = Held(rLoop, called, after[called])
       /\ rPrice' = Held(rPrice, called, after[called])
       /\ rRun' = [rRun EXCEPT !.calling = NoModel,
              !.pc = CASE code = "context_exhausted" -> "bigger"
                       [] code = "auth" -> "failed"
                       [] OTHER -> "failover",
              !.tried = IF code \in {"retryable", "model_unavailable"}
                        THEN @ \cup {failed} ELSE @,
              !.code = code,
              !.named = IF code = "model_unavailable" THEN @ \cup {failed} ELSE @,
              !.refused = IF code = "model_unavailable" THEN @ \cup {called} ELSE @,
              !.excused = IF code = "model_unavailable" /\ called # failed
                          THEN @ \cup {called} ELSE @]
       /\ UNCHANGED rEv

\* _failover and _failoverLargerContext read the healthy candidates.
FailoverSet == {m \in RegDom : rReg[m].status = "healthy" /\ m \in RAllowed
                                 /\ m \notin rRun.tried \cup {rRun.cur}}
BiggerSet == {m \in RegDom : rReg[m].status = "healthy" /\ m \in RAllowed
                               /\ m # rRun.cur /\ RFacts[m].window > RFacts[rRun.cur].window}
\* An unknown price is above every other.
CheaperSet == {m \in RegDom : /\ rReg[m].status = "healthy" /\ m \in RAllowed /\ m # rRun.cur
                              /\ Known(rReg[m].out)
                              /\ Known(rReg[rRun.cur].out) => rReg[m].out < rReg[rRun.cur].out}

\* With no candidate left: a refused model or a context that fits nowhere fails
\* the run, a transient error is retried on the same model within the limit.
NoFailover ==
    /\ rRun.pc = "failover" /\ FailoverSet = {}
    /\ rRun' = IF rRun.code # "model_unavailable" /\ rRun.retries < RMaxRetries
               THEN [rRun EXCEPT !.pc = IF rRun.steps >= RMaxSteps THEN "done" ELSE "ready",
                                 !.retries = @ + 1]
               ELSE [rRun EXCEPT !.pc = "failed"]
    /\ UNCHANGED <<rReg, rLoop, rPrice, rEv>>

NoneBigger ==
    /\ rRun.pc = "bigger" /\ BiggerSet = {}
    /\ rRun' = [rRun EXCEPT !.pc = "failed"]
    /\ UNCHANGED <<rReg, rLoop, rPrice, rEv>>

NoneCheaper ==
    /\ rRun.pc = "budget" /\ CheaperSet = {}
    /\ rRun' = [rRun EXCEPT !.pc = "failed"]
    /\ UNCHANGED <<rReg, rLoop, rPrice, rEv>>

\* The first RShort of S by the key, equal ones in any order.
FirstOf(S, key) ==
    {T \in SUBSET S : /\ Cardinality(T) = Least(RShort, Cardinality(S))
                      /\ \A m \in T, n \in S \ T : key[m] <= key[n]}

\* What a switch chooses from: every candidate after a failure, the smallest of
\* the larger windows, the lowest of the cheaper prices.
SwitchSets == CASE rRun.pc = "failover" -> {FailoverSet}
                [] rRun.pc = "bigger" -> FirstOf(BiggerSet, [m \in BiggerSet |-> RFacts[m].window])
                [] rRun.pc = "budget" -> FirstOf(CheaperSet, [m \in CheaperSet |-> rReg[m].out])

SwitchStart ==
    /\ rRun.pc \in {"failover", "bigger", "budget"} /\ ~rLoop.on
    /\ \E S \in SwitchSets : S # {} /\ rLoop' = Take(S)
    /\ rRun' = [rRun EXCEPT !.pc = IF @ = "budget" THEN "cheaper" ELSE "switching"]
    /\ UNCHANGED <<rReg, rPrice, rEv>>

\* route, then _applyModelSwitch: forced after a failure; for the budget it
\* must pass the cooldown and the switch limit, and failing that fails the run.
GatePassed == rRun.pc = "switching" \/ CanSwitch(Sticky, RMaxSwitches, 1, 0)

ApplyModelSwitch ==
    /\ rRun.pc \in {"switching", "cheaper"}
    /\ \E d \in RouteOver(rLoop) :
          rRun' = IF d.err # "none" \/ ~GatePassed THEN [rRun EXCEPT !.pc = "failed"]
                  ELSE [rRun EXCEPT !.cur = d.model, !.curOut = OutOf(rLoop, d.model),
                            !.by = "switch", !.count = @ + 1, !.cooling = TRUE,
                            !.pc = IF rRun.steps >= RMaxSteps THEN "done" ELSE "ready"]
    /\ rLoop' = Idle /\ UNCHANGED <<rReg, rPrice, rEv>>

CooldownEnds ==
    /\ Live /\ rRun.cooling
    /\ rRun' = [rRun EXCEPT !.cooling = FALSE]
    /\ UNCHANGED <<rReg, rLoop, rPrice, rEv>>

RoutingOver == ~Live /\ rRun.pc # "start" /\ ~rPrice.on

RoutingNext ==
    \/ \E m \in RModels, ok \in BOOLEAN : OtherRunObserves(m, ok)
    \/ \E m \in RModels, out \in RPrices : DiscoverModel(m, out) \/ PriceUpdate(m, out)
    \/ \E m \in RModels : DiscoverPatch(m)
    \/ SelectStart \/ SelectApply \/ PriceSelectApply
    \/ CallModel \/ \E s \in BOOLEAN, lat \in RLats : CallSucceeds(s, lat)
    \/ \E c \in {"retryable", "model_unavailable", "context_exhausted", "auth"}, rel \in RRels :
          CallFails(c, rel)
    \/ NoFailover \/ NoneBigger \/ NoneCheaper \/ SwitchStart \/ ApplyModelSwitch
    \/ CooldownEnds
    \/ RoutingOver /\ UNCHANGED routingVars

(****************************** properties *********************************)

\* A run that goes on never holds a model that has refused it: not the one the
\* step named as failed, and not the one whose call was refused.  There are two
\* exceptions, both from a price reselection (handlePriceUpdate) beside the loop:
\* one that read the registry before the refusal and landed after it (stale), and
\* one that landed during the call, so that the step named and marked the run's
\* new model and the one that had refused stays a candidate (excused).  Failover,
\* the larger-context and the budget switch rely on different filters for this.
NoReturnToRefused ==
    rRun.pc \in {"ready", "calling"} /\ rRun.by # "stale" =>
        rRun.cur \notin rRun.named \cup (rRun.refused \ rRun.excused)
=============================================================================
