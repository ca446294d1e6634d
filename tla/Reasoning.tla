------------------------------- MODULE Reasoning -------------------------------
(***************************************************************************)
(* src/src/reasoning: ReasoningRouter and ModelProviderRouter, CostTracker  *)
(* of one tenant with overlapping calls of runWithBudget(),                 *)
(* DualChainProcessor and HallucinationDetector. The work given to the      *)
(* tracker, the chains and the claims are external. Money is in cents and   *)
(* signals in hundredths.                                                   *)
(***************************************************************************)
EXTENDS Integers, FiniteSets, FiniteSetsExt, Sequences, SequencesExt

CONSTANTS
    BudgetRuns,     \* the calls of runWithBudget()
    MaxBudget,      \* max_reasoning_budget_usd
    WorkCosts,      \* the costs that work may report
    Signals,        \* the values of risk_score and tenant_config_factor tried
    Impacts,        \* the values of financial_impact_usd tried, in hundreds
    Remainders,     \* the values of budgetRemaining tried, in cents
    Conclusions,    \* the conclusions, each the set of the marked words it contains
    Confidences,    \* the confidences before validation
    ClaimOutcomes,  \* the sequences of verified and unverified claims of an output
    MaxClaims       \* bound on the claims counted for the agent

ASSUME ReasoningAssumption ==
    /\ MaxBudget \in Nat \ {0} /\ WorkCosts \subseteq Nat /\ Signals \subseteq 0..100
    /\ Impacts \subseteq Nat /\ Remainders \subseteq Nat /\ Confidences \subseteq 0..100 /\ MaxClaims \in Nat
    /\ ClaimOutcomes \subseteq Seq(BOOLEAN)

NoChain == [text |-> "none", words |-> {}]

VARIABLES
    spentByTenant,  \* what the sessions of the tenant cost
    sessions,       \* the calls whose session was recorded
    budgetRun,      \* of each call: [phase, remaining, result]
    overlapping,    \* two calls were at work at once (history)
    excess,         \* what works cost beyond the budget they were given (history)
    dual,           \* the call of process(): [phase, a, b]
    stats           \* of the agent: [total, unverified], with what validation last answered

reasoningVars == <<spentByTenant, sessions, budgetRun, overlapping, excess, dual, stats>>

ReasoningInit ==
    /\ spentByTenant = 0 /\ sessions = {} /\ overlapping = FALSE /\ excess = 0
    /\ budgetRun = [r \in BudgetRuns |-> [phase |-> "idle"]]
    /\ dual = [phase |-> "generating", a |-> NoChain, b |-> NoChain]
    /\ stats = [total |-> 0, unverified |-> 0, original |-> 0, adjusted |-> 0, last |-> <<>>]

-----------------------------------------------------------------------------
(* Routing.                                                                 *)
Lesser(a, b) == IF a < b THEN a ELSE b
\* In ten-thousandths; the financial impact saturates at 50 000.
Composite(task) ==
    40 * task.risk + 40 * Lesser(100, (task.impact * 100) \div 500) + 20 * task.factor

Route(task) ==
    IF task.impact > 500 \/ Composite(task) > 6000 THEN "DEEP"
    ELSE IF Composite(task) >= 3000 \/ task.impact >= 10 THEN "MEDIUM" ELSE "FAST"

\* selectProvider(), with the budget that remains in cents.
SelectProvider(tier, remaining) ==
    CASE tier = "FAST" -> "fast-model-v1"
      [] tier = "MEDIUM" -> IF remaining > 1 THEN "medium-model-v1" ELSE "fast-model-v1"
      [] tier = "DEEP" -> IF remaining > 10 THEN "deep-model-v1" ELSE "medium-model-v1"

-----------------------------------------------------------------------------
(* CostTracker.                                                             *)
Exhausted == spentByTenant >= MaxBudget
Remaining == IF Exhausted THEN 0 ELSE MaxBudget - spentByTenant
ActiveRuns == {r \in BudgetRuns : budgetRun[r].phase = "working"}

\* runWithBudget() up to its await. Mutant: a call that is over its budget starts.
StartUnchecked(r) ==
    /\ budgetRun[r].phase = "idle"
    /\ budgetRun' = [budgetRun EXCEPT ![r] = [phase |-> "working", remaining |-> MaxBudget]]
    /\ overlapping' = (overlapping \/ ActiveRuns # {})
    /\ UNCHANGED <<spentByTenant, sessions, excess, dual, stats>>
StartRun(r) ==
    /\ budgetRun[r].phase = "idle"
    /\ budgetRun' = [budgetRun EXCEPT ![r] =
           IF Exhausted THEN [phase |-> "done", result |-> FALSE, exhausted |-> TRUE]
                        ELSE [phase |-> "working", remaining |-> Remaining]]
    /\ overlapping' = (overlapping \/ (~Exhausted /\ ActiveRuns # {}))
    /\ UNCHANGED <<spentByTenant, sessions, excess, dual, stats>>

\* Work is given the budget that is left; nothing compares the cost it reports with it.
WorkResolves(r) ==
    /\ r \in ActiveRuns
    /\ \E cost \in WorkCosts :
        /\ spentByTenant' = spentByTenant + cost
        /\ sessions' = sessions \cup {r}
        /\ excess' = IF cost <= budgetRun[r].remaining THEN excess
                     ELSE excess + (cost - budgetRun[r].remaining)
        /\ budgetRun' = [budgetRun EXCEPT ![r] =
               [phase |-> "done", result |-> TRUE, exhausted |-> spentByTenant + cost >= MaxBudget]]
    /\ UNCHANGED <<overlapping, dual, stats>>

\* A rejection is answered as an exhausted budget, and costs nothing.
WorkRejects(r) ==
    /\ r \in ActiveRuns
    /\ budgetRun' = [budgetRun EXCEPT ![r] = [phase |-> "done", result |-> FALSE, exhausted |-> TRUE]]
    /\ UNCHANGED <<spentByTenant, sessions, overlapping, excess, dual, stats>>

CostNext == \E r \in BudgetRuns : StartRun(r) \/ WorkResolves(r) \/ WorkRejects(r)

-----------------------------------------------------------------------------
(* DualChainProcessor. "unsafe" contains "safe", "not recommended" contains    *)
(* "recommended": the set of a conclusion is closed under containment.         *)
NegationPairs == {<<"increase", "decrease">>, <<"approve", "reject">>, <<"execute", "block">>,
                  <<"safe", "unsafe">>, <<"recommended", "not recommended">>}

Contradictions(a, b) ==
    IF a = b THEN {}
    ELSE {pair \in NegationPairs : \/ pair[1] \in a.words /\ pair[2] \in b.words
                                   \/ pair[2] \in a.words /\ pair[1] \in b.words}

\* compareChains()
CompareChains(a, b) == IF Contradictions(a, b) # {} THEN "CONFLICT" ELSE "MERGED"

\* Promise.all: the chains arrive in either order, and one that rejects ends the call.
ChainArrives ==
    /\ dual.phase = "generating"
    /\ \/ \E chain \in Conclusions, which \in {"a", "b"} :
            /\ dual[which] = NoChain
            /\ LET arrived == [dual EXCEPT ![which] = chain]
               IN  dual' = IF NoChain \in {arrived.a, arrived.b} THEN arrived
                           ELSE [arrived EXCEPT !.phase = CompareChains(arrived.a, arrived.b)]
       \/ dual' = [dual EXCEPT !.phase = "rejected"]
    /\ UNCHANGED <<spentByTenant, sessions, budgetRun, overlapping, excess, stats>>

-----------------------------------------------------------------------------
(* HallucinationDetector. Claims are TRUE when some source verifies them.      *)
Unverified(claims) == Cardinality({i \in DOMAIN claims : ~claims[i]})
\* A claim no source verifies takes 20 points, never below 0.
Reduced(conf, verified) == IF verified THEN conf ELSE IF conf < 20 THEN 0 ELSE conf - 20

\* validateClaims()
ValidateClaims ==
    \E claims \in ClaimOutcomes, confidence \in Confidences :
        /\ stats.total + Len(claims) <= MaxClaims
        /\ stats' = [total |-> stats.total + Len(claims), unverified |-> stats.unverified + Unverified(claims),
                     original |-> confidence, adjusted |-> FoldLeft(Reduced, confidence, claims),
                     last |-> claims]
        /\ UNCHANGED <<spentByTenant, sessions, budgetRun, overlapping, excess, dual>>

HallucinationRate == IF stats.total > 0 THEN (100 * stats.unverified) \div stats.total ELSE 0

-----------------------------------------------------------------------------
(* Properties.                                                              *)
ReasoningTypeOK ==
    /\ spentByTenant \in Nat /\ sessions \subseteq BudgetRuns
    /\ \A r \in BudgetRuns : budgetRun[r].phase \in {"idle", "working", "done"}
    /\ dual.phase \in {"generating", "CONFLICT", "MERGED", "rejected"} /\ HallucinationRate \in 0..100

\* Calls that do not overlap spend no more than the budget, and calls that do no more than
\* the budget each, but for what works cost beyond the budget they were given; and no call
\* is at work without a budget.
BudgetHolds ==
    /\ ~overlapping => spentByTenant <= MaxBudget + excess
    /\ spentByTenant <= MaxBudget * Cardinality(sessions) + excess
    /\ \A r \in ActiveRuns : budgetRun[r].remaining > 0

\* A budget reported as left is left, unless another call has spent it since: the answer
\* with a result that says so is of a call that ended before the budget was spent.
ResultIsCounted ==
    \A r \in BudgetRuns :
        budgetRun[r].phase = "done" => (budgetRun[r].result <=> r \in sessions)
            /\ (~budgetRun[r].exhausted => budgetRun[r].result)

Opposed(pair, a, b) == pair[2] \in a.words /\ pair[1] \in b.words /\ pair[2] \notin b.words

\* Conclusions that oppose each other are never merged, whichever chain says which.
OppositesConflict ==
    dual.phase = "MERGED" =>
        \A pair \in NegationPairs : ~Opposed(pair, dual.a, dual.b) /\ ~Opposed(pair, dual.b, dual.a)

\* Every unverified claim costs 20 points until none is left, in whatever order the
\* claims come; the rate of the agent counts each once.
ConfidenceIsReduced ==
    stats.adjusted = IF 20 * Unverified(stats.last) >= stats.original THEN 0
                     ELSE stats.original - 20 * Unverified(stats.last)

\* More risk, more money or a stricter tenant never gets a task a lesser tier, and less
\* budget never a larger model.
Rank(tier) == CHOOSE i \in 1..3 : <<"FAST", "MEDIUM", "DEEP">>[i] = tier
ModelRank(model) == CHOOSE i \in 1..3 : <<"fast-model-v1", "medium-model-v1", "deep-model-v1">>[i] = model
Tasks == [risk : Signals, impact : Impacts, factor : Signals]
RoutingIsMonotone ==
    /\ \A s, t \in Tasks :
        (s.risk <= t.risk /\ s.impact <= t.impact /\ s.factor <= t.factor)
            => Rank(Route(s)) <= Rank(Route(t))
    /\ \A tier \in {"FAST", "MEDIUM", "DEEP"}, x, y \in Remainders :
        x <= y => ModelRank(SelectProvider(tier, x)) <= ModelRank(SelectProvider(tier, y))

\* The reasoning engine.
ReasoningInv ==
    /\ ReasoningTypeOK /\ BudgetHolds /\ ResultIsCounted /\ OppositesConflict
    /\ ConfidenceIsReduced /\ RoutingIsMonotone

=============================================================================
