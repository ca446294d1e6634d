--------------------------------- MODULE Finance ---------------------------------
(***************************************************************************)
(* The finance agents in src/src/agents/finance, for one tenant:            *)
(* transaction-reconciler.ts compares executed actions with their bills,   *)
(* variance-analyzer.ts names a cause for each discrepancy, roi-engine.ts   *)
(* projects the return and prices correct results. Time is in hours. Bills  *)
(* are external: they come late, several for one action, or never.         *)
(***************************************************************************)
EXTENDS Integers, Sequences, FiniteSets, FiniteSetsExt, Functions

CONSTANTS
    ExecutedActions,    \* the ids of actions
    Projected,          \* projected costs
    Billed,             \* actual costs
    Step,               \* the hours by which the clock moves
    LastHour,           \* bound on the clock
    Period,             \* hours between two runs of the reconciliation, at most
    MaxBills,           \* bound on the billing records
    MaxSessions         \* bound on the reasoning sessions

ASSUME FinanceAssumption ==
    /\ Projected \subseteq Nat /\ Billed \subseteq Nat /\ Period \in Nat
    /\ MaxBills \in Nat /\ MaxSessions \in Nat
    /\ Step \in Nat \ {0} /\ LastHour \in Nat

RECONCILIATION_WINDOW == 24

VARIABLES
    hour,
    actions,    \* the executed actions: [action_id, projected, executed_at]
    bills,      \* the billing records, in the order they came: [action_id, actual]
    lastRun,    \* when reconcile() last ran
    report,     \* its last report
    covered,    \* the actions that some report was about
    sessions    \* [cost, correct], of this tenant or another

finVars == <<hour, actions, bills, lastRun, report, covered, sessions>>

EmptyReport == [matched |-> {}, unmatched |-> {}, discrepancies |-> {}]

FinInit ==
    /\ hour = 0 /\ actions = {} /\ bills = <<>> /\ lastRun = 0
    /\ report = EmptyReport /\ covered = {} /\ sessions = <<>>

-----------------------------------------------------------------------------
Execute(id, projected) ==
    /\ \A a \in actions : a.action_id # id
    /\ actions' = actions \cup {[action_id |-> id, projected |-> projected, executed_at |-> hour]}
    /\ UNCHANGED <<hour, bills, lastRun, report, covered, sessions>>

Bill(a, actual) ==
    /\ Len(bills) < MaxBills
    /\ bills' = Append(bills, [action_id |-> a.action_id, actual |-> actual])
    /\ UNCHANGED <<hour, actions, lastRun, report, covered, sessions>>

\* External: the reconciliation is started before the period has passed.
PassHours ==
    /\ hour + Step <= LastHour /\ hour + Step <= lastRun + Period
    /\ hour' = hour + Step
    /\ UNCHANGED <<actions, bills, lastRun, report, covered, sessions>>

\* billingMap: the last record of an action replaces those before.
BillsOf(id) == {i \in DOMAIN bills : bills[i].action_id = id}
Billing(id) == bills[Max(BillsOf(id))].actual

Abs(n) == IF n < 0 THEN -n ELSE n

\* variance_pct > pct. The variance of what was projected to cost nothing is 100 or 0.
VarianceExceeds(a, actual, pct) ==
    IF a.projected # 0 THEN 100 * Abs(actual - a.projected) > pct * a.projected
    ELSE actual > 0 /\ 100 > pct

\* VarianceAnalyzer: the first cause that applies.
RootCause(a, actual) ==
    CASE VarianceExceeds(a, actual, 50) -> "infrastructure_change"
      [] ~VarianceExceeds(a, actual, 50) /\ 10 * actual > 11 * a.projected -> "external_factor"
      [] ~VarianceExceeds(a, actual, 50) /\ 10 * actual <= 11 * a.projected
            /\ VarianceExceeds(a, actual, 15) -> "model_error"
      [] OTHER -> "data_staleness"

\* The actions of the last 24 hours. Mutant: the boundary is left out.
RecentExclusive == {a \in actions : a.executed_at > hour - RECONCILIATION_WINDOW}
Recent == {a \in actions : a.executed_at >= hour - RECONCILIATION_WINDOW}

Reconcile ==
    LET billed == {a \in Recent : BillsOf(a.action_id) # {}}
        matched == {[action |-> a, actual |-> Billing(a.action_id)] : a \in billed}
        flagged == {x \in matched : VarianceExceeds(x.action, x.actual, 5)}
    IN  /\ report' = [matched |-> matched, unmatched |-> Recent \ billed,
                      discrepancies |-> {[of |-> x, cause |-> RootCause(x.action, x.actual)] : x \in flagged}]
        /\ covered' = covered \cup Recent
        /\ lastRun' = hour
        /\ UNCHANGED <<hour, actions, bills, sessions>>

-----------------------------------------------------------------------------
(* ROI engine. The sessions of all tenants are in one list.                *)
RecordSession(cost, correct, own) ==
    /\ Len(sessions) < MaxSessions
    /\ sessions' = Append(sessions, [cost |-> cost, correct |-> correct, own |-> own])
    /\ UNCHANGED <<hour, actions, bills, lastRun, report, covered>>

\* costPerCorrectResult(): total and number of correct results, whose quotient it is.
OwnSessions == {i \in DOMAIN sessions : sessions[i].own}
TotalCost(of) == FoldFunctionOnSet(+, 0, [i \in DOMAIN sessions |-> sessions[i].cost], of)
CostPerCorrectResult ==
    LET correct == {i \in OwnSessions : sessions[i].correct}
    IN  IF correct = {} THEN [cost |-> 0, results |-> 1]
        ELSE [cost |-> TotalCost(OwnSessions), results |-> Cardinality(correct)]

FinReconcileNext ==
    \/ \E id \in ExecutedActions, projected \in Projected : Execute(id, projected)
    \/ \E a \in actions, actual \in Billed : Bill(a, actual)
    \/ PassHours \/ Reconcile
FinROINext ==
    \E cost \in Billed, correct, own \in BOOLEAN : RecordSession(cost, correct, own)
FinNext == FinReconcileNext \/ FinROINext
FinSpec == FinInit /\ [][FinNext]_finVars

-----------------------------------------------------------------------------
FinTypeOK ==
    /\ hour \in 0..LastHour /\ lastRun <= hour /\ covered \subseteq actions
    /\ report.unmatched \subseteq actions /\ {x.action : x \in report.matched} \subseteq actions

(* With a reconciliation at least once a day no action escapes: each that   *)
(* was executed before the last run was in a report, billed or not.        *)
EveryActionIsReconciled ==
    \A a \in actions : a.executed_at < lastRun => a \in covered

(* A cost more than ten percent above its projection is always flagged, and *)
(* is put down to the infrastructure or an external factor, never to the    *)
(* model or to stale prices, also where nothing was projected.              *)
OverrunIsExplained ==
    \A x \in report.matched :
        10 * x.actual > 11 * x.action.projected =>
            \E d \in report.discrepancies :
                d.of = x /\ d.cause \in {"infrastructure_change", "external_factor"}

(* What a correct result costs includes the tenant's failed sessions and no *)
(* other tenant's: the price times the results is all that was spent, as    *)
(* soon as there is one correct result.                                     *)
FailuresArePaidFor ==
    LET price == CostPerCorrectResult
        correct == {i \in DOMAIN sessions : sessions[i].own /\ sessions[i].correct}
        wrong == {i \in DOMAIN sessions : sessions[i].own /\ ~sessions[i].correct}
    IN  correct # {} => /\ price.results = Cardinality(correct)
                        /\ price.cost = TotalCost(correct) + TotalCost(wrong)

(* What always holds of the finance agents.                                *)
FinanceInv ==
    FinTypeOK /\ EveryActionIsReconciled /\ OverrunIsExplained /\ FailuresArePaidFor
=============================================================================
