----------------------------- MODULE Execution -----------------------------
(***************************************************************************)
(* What src/src/execution decides before an action is executed: the        *)
(* simulation on the DigitalTwin, the score of the RiskScorer and the      *)
(* route of the ApprovalRouter, which looks for a validated plan in the    *)
(* AgenticPlanCache.                                                       *)
(*                                                                         *)
(* Nothing in the repository calls the four in a row: a request stands for *)
(* a caller that does, with anything of others between two of its calls.   *)
(* route() suspends at one await, after the lookup. Scores are exact: they *)
(* are kept in hundredths of a point until they are rounded.               *)
(***************************************************************************)
EXTENDS Integers, FiniteSets, FiniteSetsExt

CONSTANTS
    Resources,
    Costs,          \* current_cost_usd_per_hour
    Factors,        \* scale_factor, in percent
    MinConfidence,  \* tenantConfig.min_confidence
    TTL,            \* TTL_MS, in ticks of the clock
    LastPlanTick,   \* bound on the clock
    MaxPlans,       \* bound on the calls of store()
    Requests,
    Null            \* null and undefined

ASSUME NumbersAssumption ==
    /\ Costs \subseteq Nat /\ Factors \subseteq Nat
    /\ MinConfidence \in 0..100
    /\ TTL \in Nat /\ LastPlanTick \in Nat /\ MaxPlans \in Nat
ASSUME ResourcesAssumption == IsFiniteSet(Resources)
ASSUME NullAssumption ==
    /\ Null \notin 0..(LastPlanTick + TTL)
    /\ Null \notin {"REQUIRE_HUMAN_APPROVAL", "QUEUE_FOR_HUMAN_REVIEW", "FLAG_FOR_HUMAN_REVIEW",
                    "AUTO_EXECUTE_CACHED", "AUTO_EXECUTE"}
\* The code calculates with fractions: the unit of costs is one small enough for
\* every scaled cost to be a whole number.
ASSUME ExactAssumption == \A cost \in Costs, factor \in Factors : (cost * factor) % 100 = 0

VARIABLES
    twinState,  \* the resources of the twin's snapshot and what they cost
    now,        \* the clock
    cache,      \* cache: when the plan kept for each action expires
    plans,      \* history: the plans stored and not invalidated since
    reached,    \* what each request has reached
    action,     \* the action it proposes
    loses,      \* whether its projected_roi is negative
    simulation, \* the result of simulate()
    justified,  \* history: a valid plan of the action existed when it was routed
    cached,     \* what lookup() returned to route()
    decision    \* approval_state

twin == <<twinState>>
store == <<cache, plans>>
request == <<reached, action, loses, simulation, justified, cached, decision>>
executionVars == <<twinState, now, cache, plans, reached, action, loses, simulation, justified,
          cached, decision>>

\* The actions, by what simulate() distinguishes: the parameter is the factor or
\* the target. RESIZE stands for the types that it does not know.
ProposedActions ==
    [type : {"SCALE_DOWN"}, resource : Resources, parameter : Factors]
    \cup [type : {"CONSOLIDATE"}, resource : Resources, parameter : Resources]
    \cup [type : {"TERMINATE", "RESIZE"}, resource : Resources, parameter : {Null}]

HoursPerMonth == 720

-----------------------------------------------------------------------------
(* DigitalTwin.simulate() on the snapshot s.                               *)
\* The resource and the target must exist. Mutant: only the resource must.
AppliesWithoutTarget(s, a) == a.resource \in DOMAIN s /\ a.type # "RESIZE"
Applies(s, a) ==
    /\ a.resource \in DOMAIN s
    /\ a.type # "RESIZE"
    /\ a.type = "CONSOLIDATE" => a.parameter \in DOMAIN s

\* cost_delta_usd, over a month.
CostDelta(s, a) ==
    IF ~Applies(s, a) THEN 0
    ELSE IF a.type = "SCALE_DOWN"
    THEN -((s[a.resource] * (100 - a.parameter)) \div 100) * HoursPerMonth
    ELSE -s[a.resource] * HoursPerMonth

\* snapshot_after: the copy, changed.
After(s, a) ==
    IF a.resource \notin DOMAIN s \/ a.type = "RESIZE" THEN s
    ELSE IF a.type = "SCALE_DOWN"
    THEN [s EXCEPT ![a.resource] = (@ * a.parameter) \div 100]
    ELSE IF a.type = "CONSOLIDATE" /\ a.parameter \notin DOMAIN s THEN s
    ELSE [r \in DOMAIN s \ {a.resource} |-> s[r]]

Abs(n) == IF n < 0 THEN -n ELSE n

\* reversibility and confidence in percent, financial_impact in USD.
Indicators(s, a) ==
    [blast_radius |-> IF a.resource \in DOMAIN s THEN 1 ELSE 0,
     reversibility |-> IF a.type = "TERMINATE" THEN 10 ELSE 80,
     confidence |-> 75,
     financial_impact |-> Abs(CostDelta(s, a))]

-----------------------------------------------------------------------------
(* RiskScorer.score() of the indicators ri.                                *)
Bounded(n, limit) == IF n < limit THEN n ELSE limit

\* The share of the risk score that reversibility has. Mutant: it grows with it.
IrreversibilityUpsideDown(ri) == 25 * Bounded(ri.reversibility, 100)
Irreversibility(ri) == 25 * (100 - Bounded(ri.reversibility, 100))

RiskScore(ri) ==
    LET weighted_sum == 300 * Bounded(ri.blast_radius, 10)
                        + Irreversibility(ri)
                        + 25 * (100 - Bounded(ri.confidence, 100))
                        + Bounded(ri.financial_impact, 10000) \div 5
    IN  (Bounded(weighted_sum, 10000) + 50) \div 100

Confidence(ri) == Bounded(ri.confidence, 100)

-----------------------------------------------------------------------------
(* ApprovalRouter.route(): the rules, in their order.                      *)
Review(risk, confidence, negative) ==
    IF risk > 70 THEN "REQUIRE_HUMAN_APPROVAL"
    ELSE IF confidence < MinConfidence THEN "QUEUE_FOR_HUMAN_REVIEW"
    ELSE IF negative THEN "FLAG_FOR_HUMAN_REVIEW"
    ELSE "NONE"

Automatic(risk, plan) ==
    IF plan # Null /\ risk < 30 THEN "AUTO_EXECUTE_CACHED" ELSE "AUTO_EXECUTE"

-----------------------------------------------------------------------------
ExecutionInit ==
    /\ twinState = Null
    /\ now = 0
    /\ cache = [a \in ProposedActions |-> Null]
    /\ plans = {}
    /\ reached = [q \in Requests |-> "idle"]
    /\ action = [q \in Requests |-> Null]
    /\ loses = [q \in Requests |-> FALSE]
    /\ simulation = [q \in Requests |-> Null]
    /\ justified = [q \in Requests |-> FALSE]
    /\ cached = [q \in Requests |-> Null]
    /\ decision = [q \in Requests |-> Null]

\* setState(): what the tenant's infrastructure is like by now.
SetState(s) ==
    /\ twinState' = s
    /\ UNCHANGED <<now, store, request>>

\* simulate() throws without a snapshot.
Simulate(q, a, negative) ==
    /\ reached[q] = "idle"
    /\ action' = [action EXCEPT ![q] = a]
    /\ loses' = [loses EXCEPT ![q] = negative]
    /\ \/ /\ twinState = Null
          /\ reached' = [reached EXCEPT ![q] = "rejected"]
          /\ UNCHANGED simulation
       \/ /\ twinState # Null
          /\ reached' = [reached EXCEPT ![q] = "simulated"]
          /\ simulation' = [simulation EXCEPT ![q] = Indicators(twinState, a)]
    /\ UNCHANGED <<twin, now, store, justified, cached, decision>>

\* A plan is expired after its expires_at. Mutant: never.
NeverExpired(expires) == FALSE
Expired(expires) == expires < now

\* What lookup() returns; it removes what has expired.
Lookup(a) == IF cache[a] = Null \/ Expired(cache[a]) THEN Null ELSE cache[a]

\* route() up to its await.
Route(q) ==
    LET ri == simulation[q]
        review == Review(RiskScore(ri), Confidence(ri), loses[q])
    IN  /\ reached[q] = "simulated"
        /\ justified' = [justified EXCEPT ![q] =
               \E p \in plans : p.action = action[q] /\ now - p.at <= TTL]
        /\ \/ /\ review # "NONE"
              /\ decision' = [decision EXCEPT ![q] = review]
              /\ reached' = [reached EXCEPT ![q] = "routed"]
              /\ UNCHANGED <<cache, cached>>
           \/ /\ review = "NONE"
              /\ reached' = [reached EXCEPT ![q] = "lookup"]
              /\ cached' = [cached EXCEPT ![q] = Lookup(action[q])]
              /\ cache' = [cache EXCEPT ![action[q]] = Lookup(action[q])]
              /\ UNCHANGED decision
        /\ UNCHANGED <<twin, now, plans, action, loses, simulation>>

\* route() after its await.
Resume(q) ==
    /\ reached[q] = "lookup"
    /\ decision' = [decision EXCEPT ![q] = Automatic(RiskScore(simulation[q]), cached[q])]
    /\ reached' = [reached EXCEPT ![q] = "routed"]
    /\ UNCHANGED <<twin, now, store, action, loses, simulation, justified, cached>>

\* expires_at of a plan stored now. Mutant: it prolongs the one it replaces.
Prolonged(a) == IF cache[a] = Null THEN now + TTL ELSE cache[a] + TTL
ExpiresAt(a) == now + TTL

\* store(): the plan replaces the one of the same action.
Store(a) ==
    /\ Cardinality(plans) < MaxPlans
    /\ cache' = [cache EXCEPT ![a] = ExpiresAt(a)]
    /\ plans' = plans \cup {[action |-> a, at |-> now]}
    /\ UNCHANGED <<twin, now, request>>

\* invalidate() deletes the plans of every action on the resource.
Invalidate(r) ==
    /\ cache' = [a \in ProposedActions |-> IF a.resource = r THEN Null ELSE cache[a]]
    /\ plans' = {p \in plans : p.action.resource # r}
    /\ UNCHANGED <<twin, now, request>>

PlansAge ==
    /\ now < LastPlanTick
    /\ now' = now + 1
    /\ UNCHANGED <<twin, store, request>>

Snapshots == UNION {[R -> Costs] : R \in SUBSET Resources}

ExecutionNext ==
    \/ \E s \in Snapshots : SetState(s)
    \/ \E q \in Requests, a \in ProposedActions, negative \in BOOLEAN : Simulate(q, a, negative)
    \/ \E q \in Requests : Route(q) \/ Resume(q)
    \/ \E a \in ProposedActions : Store(a)
    \/ \E r \in Resources : Invalidate(r)
    \/ PlansAge

ExecutionSpec == ExecutionInit /\ [][ExecutionNext]_executionVars

-----------------------------------------------------------------------------
ExecutionTypeOK ==
    /\ twinState \in Snapshots \cup {Null}
    /\ now \in 0..LastPlanTick
    /\ \A a \in ProposedActions : cache[a] # Null => cache[a] \in 0..(now + TTL)
    /\ reached \in [Requests -> {"idle", "simulated", "lookup", "routed", "rejected"}]
    /\ \A q \in Requests :
           /\ action[q] \in ProposedActions \cup {Null}
           /\ simulation[q] # Null => RiskScore(simulation[q]) \in 0..100
           /\ decision[q] # Null <=> reached[q] = "routed"

HourlyTotal(s) == MapThenSumSet(LAMBDA r : s[r], DOMAIN s)

(* The saving that a simulation predicts is the one between the snapshots  *)
(* before and after it, whatever the action and the twin.                  *)
SavingsAreReal ==
    twinState # Null =>
        \A a \in ProposedActions :
            CostDelta(twinState, a) = (HourlyTotal(After(twinState, a)) - HourlyTotal(twinState)) * HoursPerMonth

(* An action that reaches at least as many resources, is no easier to undo *)
(* and moves at least as much money as another never has the lower risk.   *)
RiskIsMonotone ==
    twinState # Null =>
        LET scored == {[ri |-> ri, risk |-> RiskScore(ri)] :
                       ri \in {Indicators(twinState, a) : a \in ProposedActions}}
        IN  \A x, y \in scored :
                (/\ x.ri.blast_radius <= y.ri.blast_radius
                 /\ x.ri.reversibility >= y.ri.reversibility
                 /\ x.ri.financial_impact <= y.ri.financial_impact) => x.risk <= y.risk

(* A request is executed from the cache exactly when its risk is low,      *)
(* nothing calls for a human, and a plan of exactly this action was stored *)
(* within the lifetime of plans and not invalidated before the lookup.     *)
CachedIsExact ==
    \A q \in Requests : reached[q] = "routed" =>
        (decision[q] = "AUTO_EXECUTE_CACHED" <=>
            /\ justified[q] /\ ~loses[q]
            /\ RiskScore(simulation[q]) < 30
            /\ Confidence(simulation[q]) >= MinConfidence)
=============================================================================
