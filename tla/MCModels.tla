------------------------------ MODULE MCModels ------------------------------
\* What stands between a run and its models: one routing decision over many
\* inputs, routing over a run's life, the provider call, the conversation
\* and the money.  They share no variable: each behaviour has one of them
\* move (area), so that their state spaces add up.
EXTENDS Routing, ProviderCalls, Conversation, Accounting, TLC

(***************************** router inputs *******************************)

Profile == [id |-> NoModel, status |-> "healthy", provider |-> 1, inp |-> 2, out |-> 2, cach |-> 1,
            window |-> 8, caps |-> {"tools"}, qual |-> 7, lat |-> 2, rel |-> 9,
            perf |-> [attempts |-> 0, successes |-> 0]]

\* A model that is ordinary, dear and good, cheap and flaky, of unknown price,
\* of unknown record, not mapped to a provider, with a small window, degraded.
Profiles ==
    {Profile,
     [Profile EXCEPT !.out = 9, !.qual = 10, !.lat = 4],
     [Profile EXCEPT !.out = 1, !.rel = 5, !.perf = [attempts |-> 4, successes |-> 1]],
     [Profile EXCEPT !.out = Unknown],
     [Profile EXCEPT !.cach = Unknown, !.qual = Unknown, !.lat = Unknown, !.rel = Unknown],
     [Profile EXCEPT !.provider = Unknown, !.caps = {}],
     [Profile EXCEPT !.window = 3, !.out = 1],
     [Profile EXCEPT !.status = "degraded", !.qual = 8],
     [Profile EXCEPT !.status = "unavailable", !.out = 0]}

AnyModel == [requireKnownProvider |-> FALSE, allowUnknownPricing |-> FALSE,
             requiredCaps |-> {}, qualityFloor |-> 0, latencyTarget |-> 0,
             minReliability |-> 0, preferred |-> NoModel, hardBudget |-> FALSE,
             allowSwitching |-> TRUE, maxRetries |-> 1, toolCost |-> 0, latencyPrice |-> 0]

Policies ==
    {AnyModel,
     [AnyModel EXCEPT !.requireKnownProvider = TRUE, !.requiredCaps = {"tools"}],
     [AnyModel EXCEPT !.allowUnknownPricing = TRUE, !.latencyPrice = 3],
     [AnyModel EXCEPT !.qualityFloor = 8],
     [AnyModel EXCEPT !.latencyTarget = 3],
     [AnyModel EXCEPT !.minReliability = 6],
     [AnyModel EXCEPT !.preferred = 2, !.qualityFloor = 7],
     [AnyModel EXCEPT !.hardBudget = TRUE, !.maxRetries = 0],
     [AnyModel EXCEPT !.allowSwitching = FALSE, !.toolCost = 5]}

Situation == [need |-> 2, cached |-> 0, rem |-> Unknown, util |-> 1, current |-> NoModel,
              curOut |-> 2, curLat |-> 2, curProvider |-> 1, learning |-> FALSE,
              confident |-> TRUE, needsTools |-> FALSE]

Situations ==
    {[s EXCEPT !.current = c] : c \in {NoModel, 1},
        s \in {Situation,
               [Situation EXCEPT !.need = 5, !.learning = TRUE],
               [Situation EXCEPT !.need = 9, !.needsTools = TRUE],
               [Situation EXCEPT !.cached = 1, !.rem = 8],
               [Situation EXCEPT !.rem = 15, !.confident = FALSE]}}

VARIABLES rIn, rOut
routeVars == <<rIn, rOut>>
NoDecision == Refuse("not_yet")

Pool(a, b) == {[a EXCEPT !.id = 1], [b EXCEPT !.id = 2]}

\* The router decides once.
RouteOnce ==
    /\ rOut = NoDecision
    /\ rOut' = Route(rIn.list, rIn.pol, rIn.ctx, rIn.sticky, 2)
    /\ UNCHANGED rIn

\* Every decision of the router is sound (SoundDecision) whatever the models,
\* the policy and the run's situation: ModelRouter.route filters, scores,
\* minimises cost per success and then holds or switches.
RouterSound == rOut # NoDecision => SoundDecision(rOut, rIn.list, rIn.pol, rIn.ctx)

(****************************** the constants ******************************)

MCFacts == [m \in 1..3 |-> [provider |-> 1, inp |-> IF m = 3 THEN 0 ELSE 2,
                            window |-> 10 * m, caps |-> {"tools"}, qual |-> 10 - m,
                            lat |-> m, rel |-> 9]]
MCPrices == {Unknown, 0, 4}
MCRates == {[inp |-> -1, out |-> -1], [inp |-> 1, out |-> 4], [inp |-> 0, out |-> 1],
            [inp |-> 2, out |-> -1]}
MCUsage == {[inp |-> 2, out |-> 1], [inp |-> -2, out |-> -1], [inp |-> -1, out |-> 1]}

(***************************** the composition *****************************)

VARIABLE area
modelsVars == <<routeVars, routingVars, providerVars, conversationVars, accountingVars>>

\* The areas that do not move start in one fixed state.
Stays(p) == area # p

ModelsInit ==
    /\ area \in {"route", "routing", "provider", "conversation", "accounting"}
    /\ IF Stays("routing") THEN rReg = [m \in RSeeded |-> Fresh(m, 4)] ELSE TRUE
    /\ IF Stays("provider") THEN pWire = [events |-> <<"text">>, crlf |-> FALSE,
                                          closed |-> FALSE, adapter |-> "openai"] ELSE TRUE
    /\ IF Stays("accounting") THEN aRate = [inp |-> 1, out |-> 4] /\ aRef = aRate ELSE TRUE
    /\ RoutingInit /\ ProviderInit /\ ConversationInit /\ AccountingInit
    /\ rOut = NoDecision
    /\ IF Stays("route") THEN rIn = [list |-> {}]
       ELSE \E a, b \in Profiles, pol \in Policies, ctx \in Situations, c \in {0, 2}, cool \in BOOLEAN :
              rIn = [list |-> Pool(a, b), pol |-> pol, ctx |-> ctx,
                     sticky |-> [count |-> c, cooling |-> cool]]

ModelsNext ==
    /\ UNCHANGED area
    /\ \/ area = "route" /\ RouteOnce /\ UNCHANGED <<routingVars, providerVars, conversationVars, accountingVars>>
       \/ area = "routing" /\ RoutingNext /\ UNCHANGED <<routeVars, providerVars, conversationVars, accountingVars>>
       \/ area = "provider" /\ ProviderNext /\ UNCHANGED <<routeVars, routingVars, conversationVars, accountingVars>>
       \/ area = "conversation" /\ ConversationNext /\ UNCHANGED <<routeVars, routingVars, providerVars, accountingVars>>
       \/ area = "accounting" /\ AccountingNext /\ UNCHANGED <<routeVars, routingVars, providerVars, conversationVars>>

ModelsSpec == ModelsInit /\ [][ModelsNext]_<<modelsVars, area>>

\* The model a run is on is one it may be on: every decision of the router is
\* sound, and no later switch brings back a model that refused the run.
RoutingSound == RouterSound /\ NoReturnToRefused

\* The provider's answer reaches run and console as it was given: the parsed call
\* is what the completed frames hold, the console shows one answer per step, and
\* every tool call sent back to a provider comes with its results, but for the
\* rounds another execution or a refused transition broke into.
AnswersFaithful == StreamFaithful /\ ConsoleSeesOneAnswer /\ CallsAnswered

\* Money: the budget never lags behind what providers charged, but for the calls
\* a retry went back before, and a fee is only taken on savings computed from the
\* costs at the time of the calls.
CostsHonest == []SpendCoversCharges /\ FeeFromCallTimeCosts
=============================================================================
