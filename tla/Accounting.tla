----------------------------- MODULE Accounting ----------------------------
(***************************************************************************)
(* A run's money: what a provider call is recorded as                      *)
(* (economics/canonical-record.js), what it adds to the live budget        *)
(* (core/orchestrator.js, state/runtime-state.js), the estimate it is      *)
(* explained by (cost/cost-estimator.js), and the savings and the platform *)
(* fee computed from the records (savings/savings-engine.js), frozen once  *)
(* the run is terminal (server.js), while the registry's prices move.      *)
(*                                                                         *)
(* Tokens are in thousands and rates in a money unit per thousand.  The    *)
(* provider's usage field is a number, null (Null) or missing (Absent).    *)
(***************************************************************************)
EXTENDS Integers, SequencesExt, FiniteSets

CONSTANTS
    ARates,        \* rates the registry may hold, None when unknown: [inp, out]
    AUsage,        \* usage a provider may report: [inp, out]
    ACharges,      \* charges a provider may report
    AForecast,     \* tokens of the prompt plan
    ADefaultIn,    \* the estimator's default rates
    ADefaultOut,
    AFeeShare,     \* the fee is 1/AFeeShare of the savings (0.25)
    AKeep,         \* model-call records a run keeps (200)
    ABudget,       \* maximumCost
    ASwitchCost,   \* what a model switch adds to the budget
    AMaxCalls,     \* bound: calls of the run
    AMaxPrices     \* bound: price changes

ASSUME AccountingAssumption ==
    /\ ARates \subseteq [inp : Nat \cup {-1}, out : Nat \cup {-1}] /\ ACharges \subseteq Nat
    /\ AUsage \subseteq [inp : Nat \cup {-1, -2}, out : Nat \cup {-1, -2}]
    /\ {AForecast, ADefaultIn, ADefaultOut, ABudget, ASwitchCost, AMaxCalls, AMaxPrices} \subseteq Nat
    /\ {AKeep, AFeeShare} \subseteq Nat \ {0}

VARIABLES
    aRate,     \* the registry's rates of the serving model: [inp, out]
    aRef,      \* the run's reference pricing snapshot, Absent when it has none
    aStatus,   \* "running", "completed", "failed"
    aSpend,    \* budget.currentSpend
    aCalls,    \* modelCalls
    aFrozen,   \* runtimeState.economics, NoEconomics until first asked for
    aEnvs,     \* price changes so far
    aCheck,    \* what the last completed checkpoint would restore
    aTrue      \* of the calls the run still accounts for, what the providers
               \* charged and each call's cost; how many calls were ever made

accountingVars == <<aRate, aRef, aStatus, aSpend, aCalls, aFrozen, aEnvs, aCheck, aTrue>>

Absent == -1
Null == -2
None == -1                     \* null in a record
NoRef == [inp |-> -3, out |-> -3]
NoCheck == [spend |-> 0, calls |-> <<>>, charged |-> -1, kept |-> <<>>]
NoEconomics == [status |-> "none", baseline |-> 0, actual |-> 0, fee |-> 0]

AccountingInit ==
    /\ aRate \in ARates
    /\ aRef \in ARates \cup {NoRef}          \* taken when the run is created
    /\ aStatus = "running" /\ aSpend = 0 /\ aCalls = <<>> /\ aFrozen = NoEconomics
    /\ aEnvs = 0 /\ aCheck = NoCheck /\ aTrue = [charged |-> 0, kept |-> <<>>, made |-> 0]

(***************************** the estimate ********************************)

\* resolveModelPricing: the registry's rates, a missing one by its default; a
\* model without any is priced by the defaults and says so.
ResolveModelPricing(r) ==
    [inp |-> IF r.inp = None THEN ADefaultIn ELSE r.inp,
     out |-> IF r.out = None THEN ADefaultOut ELSE r.out,
     priced |-> r.inp # None \/ r.out # None]

EstimateModelCost(r, inp, out) ==
    LET p == ResolveModelPricing(r) IN inp * p.inp + out * p.out

(****************************** the record *********************************)

\* Number.isFinite(Number(v)): null counts as zero, a missing field is unknown.
ObservedTokens(v) == CASE v = Null -> 0 [] v = Absent -> None [] OTHER -> v

CalculatedCost(r, inp, out) ==
    IF inp # None /\ out # None /\ ResolveModelPricing(r).priced
    THEN EstimateModelCost(r, inp, out) ELSE None

CostSource(r, inp, out, charge) ==
    CASE charge # Absent -> "provider_reported"
      [] charge = Absent /\ CalculatedCost(r, inp, out) = None -> "unknown_estimate"
      [] OTHER -> "pricing_snapshot"

\* createModelCallRecord.
CallRecord(r, inp, out, charge) ==
    [providerCall |-> TRUE, inp |-> inp, out |-> out, snapshot |-> r,
     calculated |-> CalculatedCost(r, inp, out), source |-> CostSource(r, inp, out, charge),
     canonical |-> IF charge # Absent THEN charge ELSE CalculatedCost(r, inp, out)]

\* A hit of a local cache: no provider call, no cost.
CacheRecord(r) ==
    [providerCall |-> FALSE, inp |-> None, out |-> None, snapshot |-> r,
     calculated |-> None, source |-> "cache_hit", canonical |-> 0]

AddModelCall(calls, c) ==
    LET all == Append(calls, c) IN IF Len(all) > AKeep THEN Tail(all) ELSE all

\* What reconciles the budget with the provider's charge.
Reconciliation(c, charge) ==
    IF charge = Absent THEN 0
    ELSE c.canonical - (IF c.calculated = None THEN 0 ELSE c.calculated)

(****************************** the actions ********************************)

BudgetExceeded == aSpend >= ABudget

\* _callModel after the response: unknown input is charged as forecast, the
\* estimate is added by category and the provider's charge reconciles it.  A
\* budget already spent lets the call through only after a switch to a
\* cheaper model.
ModelCall(inp, out, charge, switched) ==
    LET oin == ObservedTokens(inp)
        oout == ObservedTokens(out)
        est == EstimateModelCost(aRate, IF oin = None THEN AForecast ELSE oin,
                                 IF oout = None THEN 0 ELSE oout)
        c == CallRecord(aRate, oin, oout, charge)
        cost == IF charge # Absent THEN charge ELSE c.canonical
    IN /\ aStatus = "running" /\ aTrue.made < AMaxCalls
       /\ switched => BudgetExceeded
       /\ BudgetExceeded => switched
       /\ aCalls' = AddModelCall(aCalls, c)
       /\ aSpend' = aSpend + est + Reconciliation(c, charge)
                          + (IF switched THEN ASwitchCost ELSE 0)
       /\ aTrue' = [charged |-> aTrue.charged + (IF charge = Absent THEN 0 ELSE charge),
                    kept |-> Append(aTrue.kept, cost), made |-> aTrue.made + 1]
       /\ UNCHANGED <<aRate, aRef, aStatus, aFrozen, aEnvs, aCheck>>

BudgetFails ==
    /\ aStatus = "running" /\ BudgetExceeded /\ aStatus' = "failed"
    /\ UNCHANGED <<aRate, aRef, aSpend, aCalls, aFrozen, aEnvs, aCheck, aTrue>>

CacheHit ==
    /\ aStatus = "running" /\ aTrue.made < AMaxCalls
    /\ aCalls' = AddModelCall(aCalls, CacheRecord(aRate))
    /\ aTrue' = [aTrue EXCEPT !.kept = Append(@, 0), !.made = @ + 1]
    /\ UNCHANGED <<aRate, aRef, aStatus, aSpend, aFrozen, aEnvs, aCheck>>

PriceMoves(r) ==
    /\ aEnvs < AMaxPrices /\ aEnvs' = aEnvs + 1
    /\ aRate' = r
    /\ UNCHANGED <<aRef, aStatus, aSpend, aCalls, aFrozen, aCheck, aTrue>>

RunSettles(how) ==
    /\ aStatus = "running" /\ aStatus' = how
    /\ UNCHANGED <<aRate, aRef, aSpend, aCalls, aFrozen, aEnvs, aCheck, aTrue>>

\* A continuation episode of a terminal run.
Continued ==
    /\ aStatus # "running" /\ aTrue.made < AMaxCalls /\ aStatus' = "running"
    /\ UNCHANGED <<aRate, aRef, aSpend, aCalls, aFrozen, aEnvs, aCheck, aTrue>>

\* A step completes, after a call: the checkpoint holds the budget's spend and the
\* records.
StepCheckpointed ==
    /\ aStatus = "running" /\ aTrue.made > 0
    /\ aCheck' = [spend |-> aSpend, calls |-> aCalls, charged |-> aTrue.charged, kept |-> aTrue.kept]
    /\ UNCHANGED <<aRate, aRef, aStatus, aSpend, aCalls, aFrozen, aEnvs, aTrue>>

\* retryRun of a failed run within its budget: goes on from the checkpoint, whose
\* spend and records replace the live ones, or, that being displaced, as it is.
AccountRetried ==
    /\ aStatus = "failed" /\ ~BudgetExceeded /\ aTrue.made < AMaxCalls /\ aStatus' = "running"
    /\ \/ UNCHANGED <<aSpend, aCalls, aTrue>>
       \/ /\ aCheck # NoCheck /\ aSpend' = aCheck.spend /\ aCalls' = aCheck.calls
          /\ aTrue' = [aTrue EXCEPT !.charged = aCheck.charged, !.kept = aCheck.kept]
    /\ UNCHANGED <<aRate, aRef, aFrozen, aEnvs, aCheck>>

(****************************** the savings ********************************)

\* Steps are the records of provider calls.
ExtractSteps(calls) == SelectSeq(calls, LAMBDA c : c.providerCall)

Unpriced(c) == c.inp = None \/ c.out = None \/ c.source = "unknown_estimate"

BugStepActualCost(c, now) == EstimateModelCost(now, c.inp, c.out)
\* The cost recorded at the time of the call, never today's rates.
StepActualCost(c, now) == c.canonical

StepBaselineCost(c, ref) == c.inp * ref.inp + c.out * ref.out

SumOver(s, Op(_)) == FoldLeft(LAMBDA acc, c : acc + Op(c), 0, s)

\* determineSavingsStatus.
SavingsStatus(baseline, actual) ==
    IF baseline = 0 THEN "no_savings"
    ELSE IF baseline >= actual THEN "verified_modeled" ELSE "cost_increase"

\* addBillingFields: nothing but verified savings is charged for.  A null
\* amount goes through Number() and is presented as zero.
BillingFields(status, baseline, actual) ==
    [status |-> status, baseline |-> baseline, actual |-> actual,
     fee |-> IF status = "verified_modeled" THEN (baseline - actual) \div AFeeShare ELSE 0]

CalculateSavings(calls, ref, now) ==
    LET steps == ExtractSteps(calls)
        baseline == SumOver(steps, LAMBDA c : StepBaselineCost(c, ref))
        actual == SumOver(steps, LAMBDA c : StepActualCost(c, now))
    IN IF ref.inp < 0 \/ ref.out < 0 \/ \E i \in 1..Len(steps) : Unpriced(steps[i])
       THEN BillingFields("insufficient_pricing_data", 0, 0)
       ELSE BillingFields(SavingsStatus(baseline, actual), baseline, actual)

SavingsForRun ==
    IF aStatus # "completed" THEN BillingFields("incomplete_run", 0, 0)
    ELSE IF aRef # NoRef /\ ExtractSteps(aCalls) = <<>> THEN BillingFields("incomplete_run", 0, 0)
    ELSE CalculateSavings(aCalls, aRef, aRate)

\* economicsForRuntime: of a terminal run the first answer is kept for good.
EconomicsAsked ==
    /\ aStatus # "running" /\ aFrozen = NoEconomics
    /\ aFrozen' = SavingsForRun
    /\ UNCHANGED <<aRate, aRef, aStatus, aSpend, aCalls, aEnvs, aCheck, aTrue>>

AccountingNext ==
    \/ \E u \in AUsage, c \in ACharges \cup {Absent}, s \in BOOLEAN :
          ModelCall(u.inp, u.out, c, s)
    \/ BudgetFails \/ CacheHit \/ StepCheckpointed \/ Continued \/ AccountRetried \/ EconomicsAsked
    \/ \E r \in ARates : PriceMoves(r)
    \/ \E h \in {"completed", "failed"} : RunSettles(h)

(****************************** properties *********************************)

\* Whatever usage the provider reports or leaves out, whatever the registry
\* knows of its price and however prices move, the budget a run is held to
\* never falls behind what providers said they charged, over steps, cache hits,
\* continuations and retries.  Excepted are the charges of calls made after the
\* checkpoint a retry went back to, which the budget forgets with them
\* (checkpoint-manager.js 434-446, whose comment has it that resuming "must not
\* forgive" cost); what the checkpoint held is still covered.
SpendCoversCharges == aSpend >= aTrue.charged

\* The provider calls among the last ones, as the savings see them.
LastCosts(n) == SubSeq(aTrue.kept, Len(aTrue.kept) - n + 1, Len(aTrue.kept))

\* A fee is charged only on savings against the reference prices the run was
\* created with and the costs of its recorded calls at the time they were
\* made, though the registry's prices of both models may have moved since; and
\* never on a call whose cost is unknown.
FeeFromCallTimeCosts ==
    [][aFrozen' # aFrozen /\ aFrozen'.fee > 0 =>
         LET n == Len(aCalls)
             actual == SumOver(LastCosts(n), LAMBDA x : x)
             baseline == SumOver(SelectSeq(aCalls, LAMBDA c : c.providerCall),
                                 LAMBDA c : c.inp * aRef.inp + c.out * aRef.out)
         IN /\ aRef # NoRef
            /\ \A i \in 1..n : LastCosts(n)[i] # None
            /\ aFrozen'.fee * AFeeShare <= baseline - actual]_accountingVars
=============================================================================
