---------------------------- MODULE RouterRules ----------------------------
(***************************************************************************)
(* The model router (impl/model-router.js) as operators: the eligibility   *)
(* pipeline, the score, the expected-cost objective                        *)
(* (decisions/routing-objective.js), the price of a switch and the         *)
(* stickiness gate (decisions/switching-cost.js), and the decision.        *)
(*                                                                         *)
(* A model is a record with the fields                                     *)
(*   id (a natural: ids compare as localeCompare orders them), status,     *)
(*   provider, inp, out, cach (rates), window, caps, qual, lat, rel, perf. *)
(* Units keep the code's arithmetic in integers: rates and costs are in    *)
(* $0.001, tokens in thousands, latency in 500 ms, quality and reliability *)
(* in tenths, scores in 1/200, success in hundredths.  Unknown is null.    *)
(***************************************************************************)
EXTENDS Integers, Sequences, FiniteSets

Unknown == -1
NoModel == 0
Known(v) == v # Unknown
NumberOf(v) == IF Known(v) THEN v ELSE 0        \* Number(null) is 0
Largest(a, b) == IF a >= b THEN a ELSE b
Least(a, b) == IF a <= b THEN a ELSE b
OrNeutral(v) == IF Known(v) THEN Largest(0, Least(10, v)) ELSE 5

(***************************** eligibility *********************************)

HasOptimizerPricing(m, ctx) ==
    Known(m.inp) /\ Known(m.out) /\ (ctx.cached > 0 => Known(m.cach))

EstimateProviderCost(m, ctx) ==
    LET cached == Least(ctx.need, ctx.cached)
    IN IF Known(m.inp) /\ Known(m.out) /\ (cached > 0 => Known(m.cach))
       THEN (ctx.need - cached) * m.inp + cached * NumberOf(m.cach) + m.out
       ELSE Unknown

TooSmall(m, ctx) == m.window > 0 /\ ctx.need > m.window

\* When every model of the pool is too small the stage is skipped.
CapabilityContext(pool, pol, ctx) ==
    LET fit == {m \in pool : ~TooSmall(m, ctx) /\ pol.requiredCaps \subseteq m.caps}
    IN IF \A m \in pool : TooSmall(m, ctx) THEN pool ELSE fit

BugQualityGate(pool, pol) == pool
QualityGate(pool, pol) ==
    IF pol.qualityFloor > 0
    THEN {m \in pool : NumberOf(m.qual) >= pol.qualityFloor} ELSE pool

\* An unknown latency is Number(null) = 0 and passes.
LatencyGate(pool, pol) ==
    IF pol.latencyTarget > 0
    THEN {m \in pool : NumberOf(m.lat) <= pol.latencyTarget} ELSE pool

Reliable(m, pol) == NumberOf(m.rel) >= pol.minReliability \/ m.id = pol.preferred
ReliabilityGate(pool, pol) ==
    LET ok == {m \in pool : Reliable(m, pol)}
    IN IF pol.minReliability > 0 /\ ok # {} THEN ok ELSE pool

BudgetIsHard(pol, ctx) == pol.hardBudget \/ (Known(ctx.rem) /\ ctx.rem <= 10)

OverBudget(m, pol, ctx) ==
    LET est == EstimateProviderCost(m, ctx)
    IN Known(ctx.rem) /\ Known(est) /\ est > ctx.rem /\ BudgetIsHard(pol, ctx)

RunEligibility(list, pol, ctx) ==
    LET avail  == {m \in list : m.status # "unavailable"}
        mapped == {m \in avail : m.provider # Unknown \/ ~pol.requireKnownProvider}
        priced == {m \in mapped : pol.allowUnknownPricing
                                    \/ HasOptimizerPricing(m, ctx)}
        able   == CapabilityContext(priced, pol, ctx)
        good   == QualityGate(able, pol)
        quick  == LatencyGate(good, pol)
        sure   == ReliabilityGate(quick, pol)
        paid   == {m \in sure : ~OverBudget(m, pol, ctx)}
        Fails(code) == [pool |-> {}, err |-> code]
    IN IF avail = {} THEN Fails("no_models")
       ELSE IF priced = {} THEN Fails("insufficient_pricing")
       ELSE IF pol.qualityFloor > 0 /\ good = {} THEN Fails("quality_constraint")
       ELSE IF pol.latencyTarget > 0 /\ quick = {} THEN Fails("latency_constraint")
       ELSE IF paid = {} /\ sure # {} THEN Fails("budget_constraint")
       ELSE [pool |-> paid, err |-> "none"]

(************************** score and objective ****************************)

\* SwitchingCostCalculator.calculate: context rebuild, cache loss, resend,
\* provider overhead, slower target, state translation, and a fifth for risk.
SwitchingCost(m, ctx) ==
    LET slower == Largest(0, NumberOf(m.lat) - ctx.curLat)
        overhead == IF ctx.curProvider # Unknown /\ m.provider # Unknown
                       /\ ctx.curProvider # m.provider THEN 10 ELSE 0
    IN (12 * (50 + 5 * ctx.util + 10 * ctx.cached + 5 * ctx.need
              + overhead + slower \div 2 + 5)) \div 100

SwitchCostFor(m, ctx) == IF m.id = ctx.current THEN 0 ELSE SwitchingCost(m, ctx)

\* ModelPerformanceStore.predictedSuccess: four prior samples at 0.7.
PredictedSuccess(perf) == (100 * perf.successes + 280) \div (perf.attempts + 4)

\* scoreCandidate's taskFitScore, which is also its predictedSuccess.
TaskFit(m, ctx) ==
    IF ctx.learning THEN PredictedSuccess(m.perf)
    ELSE IF Known(m.qual) /\ ctx.confident THEN 50 + 3 * Least(10, m.qual)
    ELSE Unknown

\* _intelligenceOverlay: evidence of at least three attempts, window pressure
\* above 60 %, tool support; clamped to +-0.3.
Overlay(m, ctx) ==
    LET fit == IF ctx.learning /\ m.perf.attempts >= 3
               THEN ((TaskFit(m, ctx) - 70) * 8) \div 10 ELSE 0
        full == (100 * ctx.need) \div m.window
        room == IF m.window > 0 /\ 10 * ctx.need > 6 * m.window /\ ~TooSmall(m, ctx)
                THEN (((IF full <= 85 THEN 100 - (3 * full) \div 10
                        ELSE Largest(10, 100 - full)) - 70) * 4) \div 10
                ELSE 0
        tool == IF ~ctx.needsTools THEN 0
                ELSE IF "tools" \in m.caps THEN 8
                ELSE IF "structured" \in m.caps THEN 0 ELSE -6
    IN Largest(-60, Least(60, fit + room + tool))

Excluded(m, pol, ctx) ==
    TooSmall(m, ctx) \/ OverBudget(m, pol, ctx)

ScoreModel(m, pol, ctx) ==
    LET cost == IF HasOptimizerPricing(m, ctx) THEN Largest(0, 10 - m.out) ELSE 5
        speed == IF Known(m.lat) THEN Largest(0, 10 - m.lat) ELSE 5
        raw == OrNeutral(m.qual) * 8 + cost * 4 + speed * 3
               + OrNeutral(m.rel) * 3 + Largest(0, 10 - ctx.util) * 2
        kept == (raw * (100 - Least(30, SwitchCostFor(m, ctx)))) \div 100
    IN IF Excluded(m, pol, ctx) THEN 0
       ELSE Largest(0, Least(200, Largest(0, Least(200, kept)) + Overlay(m, ctx)))

Retries(pol) == Least(5, pol.maxRetries)

\* 10^k for k = 0..5.
Tens == <<1, 10, 100, 1000, 10000, 100000>>

\* E[attempts] = SUM (1-r)^k, k = 0..retries, scaled by 10^retries.  A null
\* reliability is Number(null) = 0: every attempt is expected to fail.
ExpectedAttempts(m, pol) ==
    LET q  == 10 - NumberOf(m.rel)
        s1 == 10 + q
        s2 == 100 + q * s1
        s3 == 1000 + q * s2
        s4 == 10000 + q * s3
        s5 == 100000 + q * s4
    IN  <<1, s1, s2, s3, s4, s5>>[Retries(pol) + 1]

\* expectedTotalCostUsd, scaled by 10^retries.
ExpectedTotal(m, pol, ctx) ==
    LET once == EstimateProviderCost(m, ctx)
    IN IF ~Known(once) THEN Unknown
       ELSE once * ExpectedAttempts(m, pol)
            + Tens[Retries(pol) + 1] * (SwitchCostFor(m, ctx) + pol.toolCost
                                 + NumberOf(m.lat) * pol.latencyPrice)

SuccessForObjective(m, ctx) ==
    LET fit == TaskFit(m, ctx)
    IN Largest(5, Least(100, IF Known(fit) THEN fit ELSE 10 * OrNeutral(m.qual)))

\* computeObjective: cost per expected success, compared without dividing.
Cheaper(a, b, pol, ctx) ==
    LET ta == ExpectedTotal(a, pol, ctx)
        tb == ExpectedTotal(b, pol, ctx)
    IN /\ Known(ta)
       /\ Known(tb) => ta * SuccessForObjective(b, ctx) < tb * SuccessForObjective(a, ctx)

Outscores(a, b, pol, ctx) ==
    \/ ScoreModel(a, pol, ctx) > ScoreModel(b, pol, ctx)
    \/ ScoreModel(a, pol, ctx) = ScoreModel(b, pol, ctx) /\ a.id < b.id

ScoreLeader(pool, pol, ctx) ==
    CHOOSE a \in pool : \A b \in pool \ {a} : Outscores(a, b, pol, ctx)

SelectByObjective(pool, pol, ctx) ==
    LET fair == {m \in pool : ~Excluded(m, pol, ctx)}
        field == IF fair = {} THEN pool ELSE fair
    IN CHOOSE a \in field : \A b \in field \ {a} :
          \/ Cheaper(a, b, pol, ctx)
          \/ ~Cheaper(b, a, pol, ctx) /\ Outscores(a, b, pol, ctx)

(******************************* decision **********************************)

NetBenefit(to, incumbentScore, pol, ctx) ==
    Largest(-2000, Least(2000,
        ScoreModel(to, pol, ctx) - incumbentScore
        + 4 * (ctx.curOut - NumberOf(to.out))
        + 3 * (ctx.curLat - NumberOf(to.lat)) - 4 * SwitchingCost(to, ctx)))

\* ModelStickinessManager.canSwitch.
CanSwitch(sticky, maxSwitches, benefit, required) ==
    sticky.count < maxSwitches /\ ~sticky.cooling /\ benefit >= required

Decide(kind, id, why) == [kind |-> kind, model |-> id, why |-> why, err |-> "none"]
Refuse(code) == [kind |-> "NONE", model |-> NoModel, why |-> "none", err |-> code]

\* The candidates as evaluateCandidates and the objective leave them.
Evaluation(list, pol, ctx) ==
    LET pool == RunEligibility(list, pol, ctx).pool
        cur == {m \in list : m.id = ctx.current}
    IN [pool |-> pool,
        winner |-> SelectByObjective(pool, pol, ctx).id,
        leader |-> ScoreLeader(pool, pol, ctx).id,
        best |-> SelectByObjective(pool, pol, ctx),
        unhealthy |-> \A m \in cur : m.status # "healthy",
        score |-> IF cur \cap pool = {} THEN 0
                  ELSE ScoreModel(CHOOSE m \in cur : TRUE, pol, ctx)]

\* A preferred model that survived the pipeline is taken, or held, unscored.
PreferredWins(ev, pol) == \E m \in ev.pool : m.id = pol.preferred

\* The incumbent is the cheapest per success though another leads on score.
CostRetention(ev, ctx) ==
    ctx.current # NoModel /\ ev.winner = ctx.current /\ ev.leader # ctx.current

DirectSelection(ev, ctx) == ctx.current = NoModel \/ ev.winner = ctx.current

SwitchingBanned(ev, pol) == ~pol.allowSwitching /\ ~ev.unhealthy

\* An unhealthy incumbent is left without hysteresis.
MaySwitch(ev, pol, ctx, sticky, maxSwitches) ==
    ev.unhealthy \/ CanSwitch(sticky, maxSwitches, NetBenefit(ev.best, ev.score, pol, ctx),
                              6 * SwitchingCost(ev.best, ctx))

Route(list, pol, ctx, sticky, maxSwitches) ==
    LET el == RunEligibility(list, pol, ctx)
        ev == Evaluation(list, pol, ctx)
    IN IF list = {} \/ el.pool = {} THEN Refuse(IF el.err = "none" THEN "no_models" ELSE el.err)
       ELSE IF PreferredWins(ev, pol)
            THEN Decide("SELECT", pol.preferred,
                        IF ctx.current = pol.preferred THEN "optimized" ELSE "user_preference")
       ELSE IF CostRetention(ev, ctx) THEN Decide("KEEP", ctx.current, "optimized")
       ELSE IF DirectSelection(ev, ctx) THEN Decide("SELECT", ev.winner, "optimized")
       ELSE IF SwitchingBanned(ev, pol) THEN Decide("KEEP", ctx.current, "user_preference")
       ELSE IF MaySwitch(ev, pol, ctx, sticky, maxSwitches)
            THEN Decide("SWITCH", ev.winner, "optimized")
       ELSE Decide("KEEP", ctx.current, "stickiness")

(****************************** properties *********************************)

\* What a run's policy asks of a model, one model at a time.
MeetsPolicy(m, pol, ctx) ==
    /\ m.status # "unavailable"
    /\ pol.requireKnownProvider => m.provider # Unknown
    /\ pol.allowUnknownPricing \/ HasOptimizerPricing(m, ctx)
    /\ pol.qualityFloor > 0 => Known(m.qual) /\ m.qual >= pol.qualityFloor
    /\ pol.latencyTarget > 0 /\ Known(m.lat) => m.lat <= pol.latencyTarget
    /\ ~OverBudget(m, pol, ctx)

Suits(m, pol, ctx) == ~TooSmall(m, ctx) /\ pol.requiredCaps \subseteq m.caps

\* Of one routing decision: a model the router chooses, or keeps as the best,
\* meets every constraint of the policy; it also fits the context and has the
\* required capabilities unless no priced model fits the context at all (the
\* documented overflow fallback).  Only a retention forced by stickiness or by
\* a switching ban may keep an incumbent the pipeline excluded.  A choice made
\* without an incumbent is not beaten on cost per success by another model
\* that meets the same constraints, and the router gives up only when no model
\* is suitable.  The reliability floor yields when no model reaches it, but not
\* to the budget: if only models above the floor are too dear, the router gives
\* up though one below it is suitable.
SoundDecision(d, list, pol, ctx) ==
    LET meet == {m \in list : MeetsPolicy(m, pol, ctx)}
        suit == {m \in meet : Suits(m, pol, ctx)}
        chosen == CHOOSE m \in list : m.id = d.model
        overflow == \A m \in list :
            /\ m.status # "unavailable"
            /\ m.provider # Unknown \/ ~pol.requireKnownProvider
            /\ pol.allowUnknownPricing \/ HasOptimizerPricing(m, ctx)
            => TooSmall(m, ctx)
    IN /\ d.err # "none" => \A m \in suit : pol.minReliability > 0 /\ ~Reliable(m, pol)
       /\ d.err = "none" /\ d.why \notin {"stickiness"} /\ ~(d.kind = "KEEP" /\ d.why = "user_preference")
          => /\ chosen \in meet
             /\ overflow \/ Suits(chosen, pol, ctx)
       /\ d.err = "none" /\ ctx.current = NoModel /\ d.why = "optimized" /\ pol.minReliability = 0
          => ~ \E m \in suit : Cheaper(m, chosen, pol, ctx)
=============================================================================
