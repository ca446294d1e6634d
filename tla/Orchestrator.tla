----------------------------- MODULE Orchestrator -----------------------------
(***************************************************************************)
(* AgentOrchestrator of src/src/agents/orchestrator/agent-orchestrator.ts: *)
(* routing by tenant and type, health polling whose rounds overlap, and    *)
(* requests between agents that race a timer.                              *)
(* The agents are external: they die, recover, and answer late.            *)
(***************************************************************************)
EXTENDS Integers, Sequences, FiniteSets, SequencesExt

CONSTANTS
    OrchHandles,    \* the handles [agentId, agentType, tenantId] that get registered
    OrchEvents,     \* the events [type, tenant_id] that get routed
    OrchRequests,   \* the calls of coordinateA2A()
    MaxPings        \* bound on the outstanding pings of an agent

ASSUME OrchAssumption == IsFiniteSet(OrchHandles) /\ MaxPings \in Nat

VARIABLES
    routingTable,   \* the registered handles, in the order of the Map
    available,      \* the agents whose entry in healthRegistry says available
    healthPolling,  \* healthPollTimer is set
    pings,          \* the outstanding pings [agentId, n, reply]
    alive,          \* the agents that respond (external)
    routed,         \* the result of the last route()
    a2a             \* [state, target, sender, handled] of each request

orchVars == <<routingTable, available, healthPolling, pings, alive, routed, a2a>>

AgentIds == {h.agentId : h \in OrchHandles}
Registered == {h.agentId : h \in ToSet(routingTable)}
HandleOf(id) == CHOOSE h \in ToSet(routingTable) : h.agentId = id
NoHandle == [agentId |-> "none", agentType |-> "none", tenantId |-> "none"]
NotRouted == [event |-> [type |-> "none"], to |-> NoHandle, usedFallback |-> FALSE]
Settled == {"denied", "success", "timeout", "error"}

OrchInit ==
    /\ routingTable = <<>> /\ available = {} /\ healthPolling = FALSE
    /\ pings = {} /\ alive = AgentIds
    /\ routed = NotRouted
    /\ a2a = [r \in OrchRequests |->
                 [state |-> "idle", target |-> NoHandle, sender |-> NoHandle, handled |-> FALSE]]

-----------------------------------------------------------------------------
\* Map.set() keeps the place of a key that is there already.
RegisterAgent(h) ==
    /\ routingTable' = IF h.agentId \in Registered
                       THEN [i \in DOMAIN routingTable |->
                                IF routingTable[i].agentId = h.agentId THEN h ELSE routingTable[i]]
                       ELSE Append(routingTable, h)
    /\ available' = available \cup {h.agentId}
    /\ UNCHANGED <<healthPolling, pings, alive, routed, a2a>>

TargetType(event) ==
    CASE event.type = "CostLeakageEvent" -> "AUDITOR"
      [] event.type = "GovernanceEvent" -> "GOVERNOR"
      [] event.type = "CarbonEvent" -> "GREEN_ARCHITECT"
      [] event.type = "FinancialModelingEvent" -> "FINANCE"

\* findAgent() and isAvailable(): only the first handle of a type is looked at.
\* Mutant: of whatever tenant.
UsableAnyTenant(tenantId, agentType) ==
    {h \in ToSet(routingTable) : h.agentType = agentType /\ h.agentId \in available}
Usable(tenantId, agentType) ==
    LET fits(i) == routingTable[i].tenantId = tenantId /\ routingTable[i].agentType = agentType
        first == {i \in DOMAIN routingTable : fits(i) /\ \A j \in 1..(i - 1) : ~fits(j)}
    IN  {routingTable[i] : i \in {k \in first : routingTable[k].agentId \in available}}

Route(event) ==
    LET primary == Usable(event.tenant_id, TargetType(event))
        standby == Usable(event.tenant_id, "STANDBY")
    IN  /\ \/ \E h \in primary : routed' = [event |-> event, to |-> h, usedFallback |-> FALSE]
           \/ /\ primary = {}
              /\ \E h \in standby : routed' = [event |-> event, to |-> h, usedFallback |-> TRUE]
           \/ /\ primary = {} /\ standby = {}
              /\ routed' = NotRouted
        /\ UNCHANGED <<routingTable, available, healthPolling, pings, alive, a2a>>

-----------------------------------------------------------------------------
StartHealthPolling ==
    /\ healthPolling' = TRUE
    /\ UNCHANGED <<routingTable, available, pings, alive, routed, a2a>>

StopHealthPolling ==
    /\ healthPolling
    /\ healthPolling' = FALSE
    /\ UNCHANGED <<routingTable, available, pings, alive, routed, a2a>>

\* The interval fires whether or not the pings of the round before are answered.
HealthCheck ==
    /\ healthPolling /\ routingTable # <<>>
    /\ \A id \in Registered : Cardinality({p \in pings : p.agentId = id}) < MaxPings
    /\ pings' = pings \cup
           {[agentId |-> id, reply |-> "none",
             n |-> CHOOSE k \in 1..MaxPings : \A p \in pings : p.agentId = id => p.n # k] :
               id \in Registered}
    /\ UNCHANGED <<routingTable, available, healthPolling, alive, routed, a2a>>

\* The agent answers, or its ping times out; the answer is on its way.
Answer(p) ==
    /\ p.reply = "none"
    /\ pings' = (pings \ {p}) \cup {[p EXCEPT !.reply = IF p.agentId \in alive THEN "yes" ELSE "no"]}
    /\ UNCHANGED <<routingTable, available, healthPolling, alive, routed, a2a>>

\* What an answer makes of the flag. Mutant: an agent is marked, never unmarked.
OnlyMarkAvailable(p) == IF p.reply = "yes" THEN available \cup {p.agentId} ELSE available
Flagged(p) == IF p.reply = "yes" THEN available \cup {p.agentId} ELSE available \ {p.agentId}

\* The entry is looked up again: it may belong to a later registration.
PingReturns(p) ==
    /\ p.reply # "none"
    /\ pings' = pings \ {p}
    /\ available' = Flagged(p)
    /\ UNCHANGED <<routingTable, healthPolling, alive, routed, a2a>>

\* A ping that rejects, of an agent alive or dead, leaves the flag as it is.
PingRejects(p) ==
    /\ p.reply = "none"
    /\ pings' = pings \ {p}
    /\ UNCHANGED <<routingTable, available, healthPolling, alive, routed, a2a>>

-----------------------------------------------------------------------------
(* coordinateA2A(): a sender that is not registered may address any agent. *)
CoordinateA2A(r, from, to) ==
    /\ a2a[r].state = "idle"
    /\ LET target == IF to \in Registered THEN HandleOf(to) ELSE NoHandle
           sender == IF from \in Registered THEN HandleOf(from) ELSE NoHandle
           denied == \/ target = NoHandle
                     \/ sender # NoHandle /\ sender.tenantId # target.tenantId
       IN  a2a' = [a2a EXCEPT ![r].state = IF denied THEN "denied" ELSE "waiting",
                              ![r].target = target, ![r].sender = sender]
    /\ UNCHANGED <<routingTable, available, healthPolling, pings, alive, routed>>

\* Promise.race(): the first to settle decides.
FirstToSettle(r, outcome) == IF a2a[r].state = "waiting" THEN outcome ELSE a2a[r].state

DispatchDone(r) ==
    /\ a2a[r].state \in {"waiting", "timeout"} /\ ~a2a[r].handled
    /\ a2a' = [a2a EXCEPT ![r].handled = TRUE, ![r].state = FirstToSettle(r, "success")]
    /\ UNCHANGED <<routingTable, available, healthPolling, pings, alive, routed>>

DispatchFails(r) ==
    /\ a2a[r].state = "waiting"
    /\ a2a' = [a2a EXCEPT ![r].state = FirstToSettle(r, "error")]
    /\ UNCHANGED <<routingTable, available, healthPolling, pings, alive, routed>>

\* The timer is never cleared.
RequestTimeout(r) ==
    /\ a2a[r].state \in {"waiting", "success", "error"}
    /\ a2a' = [a2a EXCEPT ![r].state = FirstToSettle(r, "timeout")]
    /\ UNCHANGED <<routingTable, available, healthPolling, pings, alive, routed>>

\* External: an agent dies or recovers.
AgentChanges(id) ==
    /\ alive' = IF id \in alive THEN alive \ {id} ELSE alive \cup {id}
    /\ UNCHANGED <<routingTable, available, healthPolling, pings, routed, a2a>>

OrchHealthNext ==
    \/ \E h \in OrchHandles : RegisterAgent(h)
    \/ \E event \in OrchEvents : Route(event)
    \/ StartHealthPolling \/ StopHealthPolling \/ HealthCheck
    \/ \E p \in pings : Answer(p) \/ PingReturns(p) \/ PingRejects(p)
    \/ \E id \in AgentIds : AgentChanges(id)

OrchA2ANext ==
    \/ \E h \in OrchHandles : RegisterAgent(h)
    \/ \E r \in OrchRequests : \/ \E from, to \in AgentIds : CoordinateA2A(r, from, to)
                               \/ DispatchDone(r) \/ DispatchFails(r) \/ RequestTimeout(r)

OrchNext == OrchHealthNext \/ OrchA2ANext

\* Timers fire, and ping() returns within the limit it is given.
OrchFairness ==
    /\ WF_orchVars(HealthCheck)
    /\ \A id \in AgentIds, n \in 1..MaxPings, reply \in {"none", "yes", "no"} :
           WF_orchVars(LET p == [agentId |-> id, n |-> n, reply |-> reply]
                       IN  p \in pings /\ (Answer(p) \/ PingReturns(p)))
    /\ \A r \in OrchRequests : WF_orchVars(RequestTimeout(r))

OrchSpec == OrchInit /\ [][OrchNext]_orchVars /\ OrchFairness

-----------------------------------------------------------------------------
OrchTypeOK ==
    /\ routingTable \in BoundedSeq(OrchHandles, Cardinality(AgentIds))
    /\ Len(routingTable) = Cardinality(Registered)
    /\ available \subseteq Registered /\ alive \subseteq AgentIds
    /\ \A p \in pings : p.agentId \in AgentIds /\ p.n \in 1..MaxPings
    /\ \A r \in OrchRequests : a2a[r].state \in {"idle", "waiting"} \cup Settled

(* An event reaches an agent of its own tenant only, of the type it is for  *)
(* or a standby, although agents are registered again under other tenants  *)
(* and types at any time.                                                  *)
RoutedIsOfTenant ==
    routed # NotRouted =>
        /\ routed.to.tenantId = routed.event.tenant_id
        /\ routed.to.agentType = IF routed.usedFallback THEN "STANDBY" ELSE TargetType(routed.event)

\* From some time on no ping of the agent rejects: it answers or times out.
PingsResolve(id) == <>[][\A p \in pings : p.agentId = id => ~PingRejects(p)]_orchVars

IsFound(id) ==
    (id \in Registered /\ id \notin alive /\ healthPolling)
        ~> (id \notin available \/ id \in alive \/ ~healthPolling)

(* A dead agent whose pings resolve is found out by the polling although   *)
(* the rounds overlap, a late answer of an earlier round sets the flag     *)
(* again, and the pings of other agents reject.                            *)
DeadIsDetected == \A id \in AgentIds : PingsResolve(id) => IsFound(id)

(* Every dead agent is found out, which the comment at healthCheck() says: *)
(* an agent is marked unavailable "if no response within 30 seconds".      *)
NoResponseIsUnavailable == \A id \in AgentIds : IsFound(id)

(* What always holds of the orchestrator.                                 *)
OrchInv ==
    OrchTypeOK /\ RoutedIsOfTenant
=============================================================================
