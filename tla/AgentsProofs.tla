------------------------------- MODULE AgentsProofs -------------------------------
(***************************************************************************)
(* Proofs about the agents: the orchestrator, the SLA contract twin, the    *)
(* governor's monitors, the green agent, the finance agents and the        *)
(* auditor, for all handles, events, requests, payloads, contracts,        *)
(* readings, bills and records.                                            *)
(***************************************************************************)
EXTENDS Orchestrator, Governor, SlaTwin, Carbon, Finance, Auditor, SetSums, SequenceTheorems

-----------------------------------------------------------------------------
(* The orchestrator.                                                       *)

PingSet == [agentId : AgentIds, n : 1..MaxPings, reply : {"none", "yes", "no"}]
RequestSet == [state : {"idle", "waiting"} \cup Settled, target : OrchHandles \cup {NoHandle},
               sender : OrchHandles \cup {NoHandle}, handled : BOOLEAN]

(* What the steps of the orchestrator preserve. A ping outstanding is of an *)
(* agent that stays registered, so that its answer marks no one else.      *)
OrchStrong ==
    /\ routingTable \in Seq(OrchHandles)
    /\ Len(routingTable) = Cardinality(Registered)
    /\ available \subseteq Registered
    /\ alive \subseteq AgentIds
    /\ pings \subseteq PingSet
    /\ IsFiniteSet(pings)
    /\ \A p \in pings : p.agentId \in Registered
    /\ a2a \in [OrchRequests -> RequestSet]
    /\ RoutedIsOfTenant

LEMMA AgentIdsFinite == IsFiniteSet(AgentIds)
<1> DEFINE f == [h \in OrchHandles |-> h.agentId]
<1>1. f \in Surjection(OrchHandles, AgentIds)
  BY DEF AgentIds, Surjection
<1> QED
  BY <1>1, FS_Surjection, OrchAssumption

LEMMA RegisteredFinite ==
    ASSUME routingTable \in Seq(OrchHandles)
    PROVE  Registered \subseteq AgentIds /\ IsFiniteSet(Registered)
<1>1. \A i \in DOMAIN routingTable : routingTable[i] \in OrchHandles
  BY LenProperties, ElementOfSeq
<1>2. Registered \subseteq AgentIds
  BY <1>1 DEF Registered, AgentIds, ToSet
<1> QED
  BY <1>2, AgentIdsFinite, FS_Subset

LEMMA OrchInitial == OrchInit => OrchStrong
<1> SUFFICES ASSUME OrchInit PROVE OrchStrong
  OBVIOUS
<1>1. Registered = {}
  BY DEF OrchInit, Registered, ToSet
<1>2. Len(routingTable) = Cardinality(Registered) /\ IsFiniteSet(pings)
  BY <1>1, FS_EmptySet DEF OrchInit
<1>3. a2a \in [OrchRequests -> RequestSet]
  BY DEF OrchInit, RequestSet
<1>4. routingTable \in Seq(OrchHandles)
  BY EmptySeq DEF OrchInit
<1>5. RoutedIsOfTenant
  BY DEF OrchInit, RoutedIsOfTenant
<1>6. available = {} /\ alive = AgentIds /\ pings = {}
  BY DEF OrchInit
<1> QED
  BY <1>1, <1>2, <1>3, <1>4, <1>5, <1>6 DEF OrchStrong

\* The place of an agent is found or a place is added for it.
LEMMA RegisterKeeps ==
    ASSUME OrchStrong, NEW h \in OrchHandles, RegisterAgent(h)
    PROVE  /\ routingTable' \in Seq(OrchHandles)
           /\ Registered' = Registered \cup {h.agentId}
           /\ Len(routingTable') = Cardinality(Registered')
<1>1. /\ routingTable \in Seq(OrchHandles)
      /\ Len(routingTable) = Cardinality(Registered) /\ Len(routingTable) \in Nat
      /\ DOMAIN routingTable = 1..Len(routingTable)
      /\ \A i \in DOMAIN routingTable : routingTable[i] \in OrchHandles
  BY LenProperties, ElementOfSeq DEF OrchStrong
<1>2. CASE h.agentId \in Registered
  <2>1. routingTable' = [i \in DOMAIN routingTable |->
                            IF routingTable[i].agentId = h.agentId THEN h ELSE routingTable[i]]
    BY <1>2 DEF RegisterAgent
  <2>2. /\ DOMAIN routingTable' = DOMAIN routingTable
        /\ \A i \in DOMAIN routingTable : routingTable'[i] \in OrchHandles
        /\ \A i \in DOMAIN routingTable : routingTable'[i].agentId = routingTable[i].agentId
    BY <2>1, <1>1
  <2>3. routingTable' \in Seq(OrchHandles)
    BY <2>1, <1>1, IsASeq
  <2>4. Len(routingTable') = Len(routingTable)
    BY <2>3, <2>2, <1>1, LenProperties
  <2>5. Registered' = Registered
    BY <2>2 DEF Registered, ToSet
  <2> QED
    BY <2>3, <2>4, <2>5, <1>1, <1>2
<1>3. CASE h.agentId \notin Registered
  <2>1. routingTable' = Append(routingTable, h)
    BY <1>3 DEF RegisterAgent
  <2>2. /\ routingTable' \in Seq(OrchHandles)
        /\ Len(routingTable') = Len(routingTable) + 1
        /\ \A i \in 1..Len(routingTable) : routingTable'[i] = routingTable[i]
        /\ routingTable'[Len(routingTable) + 1] = h
    BY <2>1, <1>1, AppendProperties
  <2>3. DOMAIN routingTable' = 1..(Len(routingTable) + 1)
    BY <2>2, LenProperties
  <2>4. Registered' = Registered \cup {h.agentId}
    <3>1. Registered' = {routingTable'[i].agentId : i \in 1..(Len(routingTable) + 1)}
      BY <2>3 DEF Registered, ToSet
    <3>2. Registered = {routingTable[i].agentId : i \in 1..Len(routingTable)}
      BY <1>1 DEF Registered, ToSet
    <3>3. 1..(Len(routingTable) + 1) = 1..Len(routingTable) \cup {Len(routingTable) + 1}
      BY <1>1
    <3> QED
      BY <3>1, <3>2, <3>3, <2>2
  <2>5. IsFiniteSet(Registered)
    BY <1>1, RegisteredFinite
  <2>6. Cardinality(Registered') = Cardinality(Registered) + 1
    BY <2>4, <2>5, <1>3, FS_AddElement
  <2> QED
    BY <2>2, <2>4, <2>6, <1>1
<1> QED
  BY <1>2, <1>3

\* While fewer than MaxPings pings of an agent are out, a number is free.
LEMMA PingNumberIsFree ==
    ASSUME OrchStrong, NEW id,
           Cardinality({p \in pings : p.agentId = id}) < MaxPings
    PROVE  \E k \in 1..MaxPings : \A p \in pings : p.agentId = id => p.n # k
<1> DEFINE S == {p \in pings : p.agentId = id}
           R == {p.n : p \in S}
           f == [p \in S |-> p.n]
<1>1. IsFiniteSet(S)
  BY FS_Subset DEF OrchStrong
<1>2. f \in Surjection(S, R)
  BY DEF Surjection
<1>3. IsFiniteSet(R) /\ Cardinality(R) <= Cardinality(S)
  BY <1>1, <1>2, FS_Surjection
<1>4. Cardinality(R) \in Nat /\ Cardinality(S) \in Nat
  BY <1>1, <1>3, FS_CardinalityType
<1>5. Cardinality(1..MaxPings) = MaxPings
  BY FS_Interval, OrchAssumption
<1>6. Cardinality(S) < MaxPings
  OBVIOUS
<1>7. Cardinality(R) < MaxPings
  <2> HIDE DEF S, R
  <2> QED
    BY <1>3, <1>4, <1>6, OrchAssumption
<1>8. R # 1..MaxPings
  <2> HIDE DEF S, R
  <2> QED
    BY <1>4, <1>5, <1>7, OrchAssumption
<1>9. R \subseteq 1..MaxPings
  BY DEF OrchStrong, PingSet
<1> QED
  BY <1>8, <1>9

LEMMA HealthCheckKeeps ==
    ASSUME OrchStrong, HealthCheck
    PROVE  pings' \subseteq PingSet /\ IsFiniteSet(pings') /\ \A p \in pings' : p.agentId \in Registered
<1> DEFINE free(id) == CHOOSE k \in 1..MaxPings : \A p \in pings : p.agentId = id => p.n # k
           new(id) == [agentId |-> id, reply |-> "none", n |-> free(id)]
           New == {new(id) : id \in Registered}
           f == [id \in Registered |-> new(id)]
<1>1. pings' = pings \cup New
  BY DEF HealthCheck
<1>2. Registered \subseteq AgentIds /\ IsFiniteSet(Registered)
  BY RegisteredFinite DEF OrchStrong
<1>3. \A id \in Registered : free(id) \in 1..MaxPings
  BY PingNumberIsFree DEF HealthCheck
<1>4. New \subseteq PingSet
  BY <1>2, <1>3 DEF PingSet
<1>5. f \in Surjection(Registered, New)
  <2> HIDE DEF new
  <2> QED
    BY DEF Surjection
<1>6. IsFiniteSet(New)
  BY <1>2, <1>5, FS_Surjection
<1>7. IsFiniteSet(pings')
  BY <1>1, <1>6, FS_Union DEF OrchStrong
<1> QED
  BY <1>1, <1>4, <1>7 DEF OrchStrong

\* Whoever is found for a tenant and a type is of that tenant and that type.
LEMMA UsableFits ==
    ASSUME NEW tenantId, NEW agentType, NEW h \in Usable(tenantId, agentType)
    PROVE  h.tenantId = tenantId /\ h.agentType = agentType
  BY DEF Usable

LEMMA RouteKeeps ==
    ASSUME NEW event, Route(event)
    PROVE  RoutedIsOfTenant'
<1>1. CASE \E h \in Usable(event.tenant_id, TargetType(event)) :
               routed' = [event |-> event, to |-> h, usedFallback |-> FALSE]
  BY <1>1, UsableFits DEF RoutedIsOfTenant
<1>2. CASE \E h \in Usable(event.tenant_id, "STANDBY") :
               routed' = [event |-> event, to |-> h, usedFallback |-> TRUE]
  BY <1>2, UsableFits DEF RoutedIsOfTenant
<1>3. CASE routed' = NotRouted
  BY <1>3 DEF RoutedIsOfTenant
<1> QED
  BY <1>1, <1>2, <1>3 DEF Route

LEMMA RequestKeeps ==
    ASSUME OrchStrong, NEW r \in OrchRequests,
           \/ \E from, to \in AgentIds : CoordinateA2A(r, from, to)
           \/ DispatchDone(r) \/ DispatchFails(r) \/ RequestTimeout(r)
    PROVE  a2a' \in [OrchRequests -> RequestSet]
<1>1. a2a \in [OrchRequests -> RequestSet] /\ a2a[r] \in RequestSet
  BY DEF OrchStrong
<1>2. ASSUME NEW from \in AgentIds, NEW to \in AgentIds, CoordinateA2A(r, from, to)
      PROVE  a2a' \in [OrchRequests -> RequestSet]
  <2>1. \A id \in Registered : HandleOf(id) \in OrchHandles
    <3>1. ToSet(routingTable) \subseteq OrchHandles
      BY LenProperties, ElementOfSeq DEF OrchStrong, ToSet
    <3> QED
      BY <3>1 DEF HandleOf, Registered
  <2> DEFINE target == IF to \in Registered THEN HandleOf(to) ELSE NoHandle
             sender == IF from \in Registered THEN HandleOf(from) ELSE NoHandle
  <2>2. target \in OrchHandles \cup {NoHandle} /\ sender \in OrchHandles \cup {NoHandle}
    BY <2>1
  <2>3. \E state \in {"denied", "waiting"} :
            a2a' = [a2a EXCEPT ![r].state = state, ![r].target = target, ![r].sender = sender]
    BY <1>2 DEF CoordinateA2A
  <2> HIDE DEF target, sender
  <2>4. PICK state \in {"denied", "waiting"} :
            a2a' = [a2a EXCEPT ![r].state = state, ![r].target = target, ![r].sender = sender]
    BY <2>3
  <2>5. [state |-> state, target |-> target, sender |-> sender, handled |-> a2a[r].handled] \in RequestSet
    BY <1>1, <2>2 DEF RequestSet, Settled
  <2>6. a2a'[r] = [state |-> state, target |-> target, sender |-> sender, handled |-> a2a[r].handled]
    BY <1>1, <2>4 DEF RequestSet
  <2>7. \A q \in OrchRequests \ {r} : a2a'[q] = a2a[q]
    BY <1>1, <2>4
  <2>8. a2a' = [q \in OrchRequests |-> a2a'[q]]
    BY <1>1, <2>4
  <2> QED
    BY <1>1, <2>5, <2>6, <2>7, <2>8
<1>3. ASSUME DispatchDone(r) PROVE a2a' \in [OrchRequests -> RequestSet]
  BY <1>1, <1>3 DEF DispatchDone, FirstToSettle, RequestSet, Settled
<1>4. ASSUME DispatchFails(r) PROVE a2a' \in [OrchRequests -> RequestSet]
  BY <1>1, <1>4 DEF DispatchFails, FirstToSettle, RequestSet, Settled
<1>5. ASSUME RequestTimeout(r) PROVE a2a' \in [OrchRequests -> RequestSet]
  BY <1>1, <1>5 DEF RequestTimeout, FirstToSettle, RequestSet, Settled
<1> QED
  BY <1>2, <1>3, <1>4, <1>5

LEMMA OrchStep == OrchStrong /\ [OrchNext]_orchVars => OrchStrong'
<1> SUFFICES ASSUME OrchStrong, [OrchNext]_orchVars PROVE OrchStrong'
  OBVIOUS
<1> USE DEF OrchStrong
<1>1. ASSUME NEW h \in OrchHandles, RegisterAgent(h) PROVE OrchStrong'
  <2>1. /\ routingTable' \in Seq(OrchHandles)
        /\ Registered' = Registered \cup {h.agentId}
        /\ Len(routingTable') = Cardinality(Registered')
    BY <1>1, RegisterKeeps
  <2>2. UNCHANGED <<pings, alive, routed, a2a>> /\ available' = available \cup {h.agentId}
    BY <1>1 DEF RegisterAgent
  <2>3. RoutedIsOfTenant'
    BY <2>2 DEF RoutedIsOfTenant
  <2> QED
    BY <2>1, <2>2, <2>3
<1>2. ASSUME UNCHANGED routingTable PROVE Registered' = Registered
  BY <1>2 DEF Registered
<1>3. ASSUME UNCHANGED routed PROVE RoutedIsOfTenant'
  BY <1>3 DEF RoutedIsOfTenant
<1>4. ASSUME NEW event \in OrchEvents, Route(event) PROVE OrchStrong'
  <2>1. RoutedIsOfTenant'
    BY <1>4, RouteKeeps
  <2>2. UNCHANGED <<routingTable, available, alive, pings, a2a>>
    BY <1>4 DEF Route
  <2> QED
    BY <2>1, <2>2, <1>2
<1>5. ASSUME StartHealthPolling \/ StopHealthPolling PROVE OrchStrong'
  <2>1. UNCHANGED <<routingTable, available, alive, pings, a2a, routed>>
    BY <1>5 DEF StartHealthPolling, StopHealthPolling
  <2> QED
    BY <2>1, <1>2, <1>3
<1>6. ASSUME HealthCheck PROVE OrchStrong'
  <2>1. pings' \subseteq PingSet /\ IsFiniteSet(pings') /\ \A p \in pings' : p.agentId \in Registered
    BY <1>6, HealthCheckKeeps
  <2>2. UNCHANGED <<routingTable, available, alive, a2a, routed>>
    BY <1>6 DEF HealthCheck
  <2> QED
    BY <2>1, <2>2, <1>2, <1>3
<1>7. ASSUME NEW p \in pings, Answer(p) PROVE OrchStrong'
  <2> DEFINE q == [p EXCEPT !.reply = IF p.agentId \in alive THEN "yes" ELSE "no"]
  <2>1. UNCHANGED <<routingTable, available, alive, a2a, routed>> /\ pings' = (pings \ {p}) \cup {q}
    BY <1>7 DEF Answer
  <2>2. q \in PingSet /\ q.agentId = p.agentId
    BY DEF PingSet
  <2>3. IsFiniteSet(pings \ {p})
    BY FS_Subset
  <2>4. IsFiniteSet(pings')
    BY <2>1, <2>3, FS_AddElement
  <2> HIDE DEF q
  <2>5. pings' \subseteq PingSet /\ \A x \in pings' : x.agentId \in Registered
    BY <2>1, <2>2
  <2> QED
    BY <2>1, <2>4, <2>5, <1>2, <1>3
<1>8. ASSUME NEW p \in pings, PingReturns(p) \/ PingRejects(p) PROVE OrchStrong'
  <2>1. /\ UNCHANGED <<routingTable, alive, a2a, routed>> /\ pings' = pings \ {p}
        /\ available' \subseteq available \cup {p.agentId}
    BY <1>8 DEF PingReturns, PingRejects, Flagged
  <2>2. IsFiniteSet(pings')
    BY <2>1, FS_Subset
  <2> QED
    BY <2>1, <2>2, <1>2, <1>3
<1>9. ASSUME NEW id \in AgentIds, AgentChanges(id) PROVE OrchStrong'
  <2>1. UNCHANGED <<routingTable, available, pings, a2a, routed>> /\ alive' \subseteq AgentIds
    BY <1>9 DEF AgentChanges
  <2> QED
    BY <2>1, <1>2, <1>3
<1>10. ASSUME NEW r \in OrchRequests,
              \/ \E from, to \in AgentIds : CoordinateA2A(r, from, to)
              \/ DispatchDone(r) \/ DispatchFails(r) \/ RequestTimeout(r)
       PROVE  OrchStrong'
  <2>1. a2a' \in [OrchRequests -> RequestSet]
    BY <1>10, RequestKeeps
  <2>2. UNCHANGED <<routingTable, available, alive, pings, routed>>
    BY <1>10 DEF CoordinateA2A, DispatchDone, DispatchFails, RequestTimeout
  <2> QED
    BY <2>1, <2>2, <1>2, <1>3
<1>11. CASE UNCHANGED orchVars
  BY <1>11, <1>2, <1>3 DEF orchVars
<1> QED
  BY <1>1, <1>4, <1>5, <1>6, <1>7, <1>8, <1>9, <1>10, <1>11 DEF OrchNext, OrchHealthNext, OrchA2ANext

(* Registrations, health rounds that overlap and requests that race their   *)
(* timers keep the routing table, the flags and the requests consistent.   *)
THEOREM OrchInvariance == OrchSpec => []OrchStrong
  BY OrchInitial, OrchStep, PTL DEF OrchSpec

LEMMA OrchStrongImplies == OrchStrong => OrchInv
<1> SUFFICES ASSUME OrchStrong PROVE OrchInv
  OBVIOUS
<1> USE DEF OrchStrong
<1>1. Registered \subseteq AgentIds
  BY RegisteredFinite
<1>2. Cardinality(Registered) <= Cardinality(AgentIds)
  BY <1>1, AgentIdsFinite, FS_Subset
<1>3. Len(routingTable) \in Nat /\ routingTable \in [1..Len(routingTable) -> OrchHandles]
  BY LenProperties
<1>4. Cardinality(AgentIds) \in Nat
  BY AgentIdsFinite, FS_CardinalityType
<1>5. Len(routingTable) \in 0..Cardinality(AgentIds)
  BY <1>2, <1>3, <1>4
<1>6. routingTable \in BoundedSeq(OrchHandles, Cardinality(AgentIds))
  BY <1>3, <1>5 DEF BoundedSeq, SeqOf
<1>7. \A p \in pings : p.agentId \in AgentIds /\ p.n \in 1..MaxPings
  BY DEF PingSet
<1>8. \A r \in OrchRequests : a2a[r].state \in {"idle", "waiting"} \cup Settled
  BY DEF RequestSet
<1> QED
  BY <1>6, <1>7, <1>8 DEF OrchInv, OrchTypeOK

(* route() hands an event to an agent of its own tenant, of the type for it *)
(* or a standby, and every agent has one place in the routing table and an *)
(* entry of its own in the health registry.                                *)
THEOREM OrchInvHolds == OrchSpec => []OrchInv
  BY OrchInvariance, OrchStrongImplies, PTL

-----------------------------------------------------------------------------
(* The SLA contract twin.                                                  *)

(* What _validate() does not check of a penalty schedule: the numbers are   *)
(* not negative, and a major breach costs no less than a minor one.        *)
SensiblePenalties ==
    \A c \in Contracts : /\ c.fee \in Nat /\ c.minor \in Nat /\ c.major \in Nat
                         /\ c.minor <= c.major

WriteSet == [kind : {"breach", "warning"}, left : Nat, penalty : {PenaltyExposure(c) : c \in Contracts},
             contract : Contracts, outcome : {"pending", "done", "rejected"}]

AttemptsIn(ws, kind) == {i \in DOMAIN ws : ws[i].kind = kind}

(* What the steps of the twin preserve.                                     *)
SlaStrong ==
    /\ contract \in Contracts \cup {NoContract}
    /\ slaState \in {"HEALTHY", "WARNING", "BREACHED"}
    /\ evaluations \in 0..MaxEvaluations
    /\ writes \in Seq(WriteSet)
    /\ entered \in [BREACHED : Nat, WARNING : Nat]
    /\ \A i \in DOMAIN writes : writes[i].penalty = PenaltyExposure(writes[i].contract)
    /\ BreachesAreAttempted
    /\ StateIsWorstTerm

LEMMA TermsOfContract ==
    ASSUME contract \in Contracts \cup {NoContract}, contract # NoContract
    PROVE  /\ contract \in Contracts
           /\ DOMAIN contract.terms = 1..Len(contract.terms) /\ Len(contract.terms) \in Nat \ {0}
           /\ IsFiniteSet(DOMAIN contract.terms)
           /\ ToSet(contract.terms) # {}
<1>1. contract \in Contracts
  OBVIOUS
<1>2. DOMAIN contract.terms = 1..Len(contract.terms) /\ Len(contract.terms) \in Nat \ {0}
  BY <1>1, SlaAssumption
<1>3. IsFiniteSet(DOMAIN contract.terms)
  BY <1>2, FS_Interval
<1>4. contract.terms[1] \in ToSet(contract.terms)
  BY <1>2 DEF ToSet
<1> QED
  BY <1>1, <1>2, <1>3, <1>4

\* The loop over the terms ends with the worst of them.
LEMMA NewStateIsWorst ==
    ASSUME NEW terms, ToSet(terms) # {}, NEW values
    PROVE  LET rank(t) == LET v == Value(values, t.metric_name)
                          IN  IF Breached(t, v) THEN 2 ELSE IF Near(t, v) THEN 1 ELSE 0
               ranks == {rank(t) : t \in ToSet(terms)}
           IN  /\ NewState(terms, values) \in {"HEALTHY", "WARNING", "BREACHED"}
               /\ Severity[NewState(terms, values)] \in ranks
               /\ \A r \in ranks : r <= Severity[NewState(terms, values)]
<1> DEFINE v(t) == Value(values, t.metric_name)
           rank(t) == IF Breached(t, v(t)) THEN 2 ELSE IF Near(t, v(t)) THEN 1 ELSE 0
           ranks == {rank(t) : t \in ToSet(terms)}
           Worst(s) == /\ s \in {"HEALTHY", "WARNING", "BREACHED"}
                       /\ Severity[s] \in ranks
                       /\ \A r \in ranks : r <= Severity[s]
<1>1. Severity["HEALTHY"] = 0 /\ Severity["WARNING"] = 1 /\ Severity["BREACHED"] = 2
  BY DEF Severity
<1>2. CASE \E t \in ToSet(terms) : Breached(t, v(t))
  <2>1. NewState(terms, values) = "BREACHED"
    BY <1>2 DEF NewState
  <2>2. 2 \in ranks /\ \A r \in ranks : r <= 2
    BY <1>2
  <2> QED
    BY <1>1, <2>1, <2>2
<1>3. CASE ~(\E t \in ToSet(terms) : Breached(t, v(t))) /\ \E t \in ToSet(terms) : Near(t, v(t))
  <2>1. NewState(terms, values) = "WARNING"
    BY <1>3 DEF NewState
  <2>2. 1 \in ranks /\ \A r \in ranks : r <= 1
    BY <1>3
  <2> QED
    BY <1>1, <2>1, <2>2
<1>4. CASE ~(\E t \in ToSet(terms) : Breached(t, v(t))) /\ ~\E t \in ToSet(terms) : Near(t, v(t))
  <2>1. NewState(terms, values) = "HEALTHY"
    BY <1>4 DEF NewState
  <2>2. 0 \in ranks /\ \A r \in ranks : r <= 0
    BY <1>4
  <2> QED
    BY <1>1, <2>1, <2>2
<1> QED
  BY <1>2, <1>3, <1>4

\* What is added at the end is counted once, under its kind.
LEMMA AttemptAdded ==
    ASSUME NEW S, NEW ws \in Seq(S), NEW w \in S, NEW kind
    PROVE  /\ IsFiniteSet(AttemptsIn(ws, kind)) /\ Cardinality(AttemptsIn(ws, kind)) \in Nat
           /\ ws \o <<w>> \in Seq(S)
           /\ DOMAIN (ws \o <<w>>) = DOMAIN ws \cup {Len(ws) + 1}
           /\ \A i \in DOMAIN ws : (ws \o <<w>>)[i] = ws[i]
           /\ (ws \o <<w>>)[Len(ws) + 1] = w
           /\ Cardinality(AttemptsIn(ws \o <<w>>, kind)) =
                  Cardinality(AttemptsIn(ws, kind)) + (IF w.kind = kind THEN 1 ELSE 0)
<1> DEFINE xs == ws \o <<w>>
<1>1. xs = Append(ws, w)
  BY AppendIsConcat
<1>2. /\ xs \in Seq(S) /\ Len(xs) = Len(ws) + 1 /\ Len(ws) \in Nat
      /\ \A i \in 1..Len(ws) : xs[i] = ws[i]
      /\ xs[Len(ws) + 1] = w
  BY <1>1, AppendProperties, LenProperties
<1>3. DOMAIN ws = 1..Len(ws) /\ DOMAIN xs = 1..(Len(ws) + 1)
  BY <1>2, LenProperties
<1>4. DOMAIN xs = DOMAIN ws \cup {Len(ws) + 1} /\ Len(ws) + 1 \notin DOMAIN ws
  BY <1>2, <1>3
<1>5. IsFiniteSet(AttemptsIn(ws, kind)) /\ Cardinality(AttemptsIn(ws, kind)) \in Nat
  <2>1. IsFiniteSet(1..Len(ws))
    BY <1>2, FS_Interval, SMTT(30)
  <2>2. AttemptsIn(ws, kind) \subseteq 1..Len(ws)
    BY <1>3 DEF AttemptsIn
  <2> QED
    BY <2>1, <2>2, FS_Subset, FS_CardinalityType
<1> HIDE DEF xs
<1>6. CASE w.kind = kind
  <2>1. AttemptsIn(xs, kind) = AttemptsIn(ws, kind) \cup {Len(ws) + 1}
    BY <1>2, <1>3, <1>4, <1>6 DEF AttemptsIn
  <2>2. Len(ws) + 1 \notin AttemptsIn(ws, kind)
    BY <1>4 DEF AttemptsIn
  <2>3. Cardinality(AttemptsIn(xs, kind)) = Cardinality(AttemptsIn(ws, kind)) + 1
    BY <2>1, <2>2, <1>5, FS_AddElement
  <2> QED
    BY <2>3, <1>2, <1>3, <1>4, <1>5, <1>6 DEF xs
<1>7. CASE w.kind # kind
  <2>1. AttemptsIn(xs, kind) = AttemptsIn(ws, kind)
    BY <1>2, <1>3, <1>4, <1>7 DEF AttemptsIn
  <2> QED
    BY <2>1, <1>2, <1>3, <1>4, <1>5, <1>7 DEF xs
<1> QED
  BY <1>6, <1>7

LEMMA SlaInitial == SlaInit => SlaStrong
<1> SUFFICES ASSUME SlaInit PROVE SlaStrong
  OBVIOUS
<1>1. writes = <<>> /\ DOMAIN writes = {}
  BY DEF SlaInit
<1>2. writes \in Seq(WriteSet)
  BY <1>1, EmptySeq
<1>3. Attempts("breach") = {} /\ Attempts("warning") = {}
  BY <1>1 DEF Attempts
<1>4. BreachesAreAttempted
  BY <1>1, <1>3, FS_EmptySet DEF BreachesAreAttempted, SlaInit
<1>5. StateIsWorstTerm
  BY DEF StateIsWorstTerm, SlaInit
<1>6. entered \in [BREACHED : Nat, WARNING : Nat] /\ evaluations \in 0..MaxEvaluations
  BY SlaAssumption DEF SlaInit
<1> QED
  BY <1>1, <1>2, <1>4, <1>5, <1>6 DEF SlaStrong, SlaInit

\* What an evaluation writes goes with what it enters.
LEMMA WritesEntered ==
    ASSUME SlaStrong, NEW w \in WriteSet, w.penalty = PenaltyExposure(w.contract),
           w.outcome = "pending", w.left > 0,
           writes' = writes \o <<w>>,
           \/ w.kind = "breach" /\ entered' = [entered EXCEPT !["BREACHED"] = @ + 1]
           \/ w.kind = "warning" /\ entered' = [entered EXCEPT !["WARNING"] = @ + 1]
    PROVE  /\ writes' \in Seq(WriteSet)
           /\ entered' \in [BREACHED : Nat, WARNING : Nat]
           /\ \A i \in DOMAIN writes' : writes'[i].penalty = PenaltyExposure(writes'[i].contract)
           /\ BreachesAreAttempted'
<1>1. writes \in Seq(WriteSet) /\ entered \in [BREACHED : Nat, WARNING : Nat]
  BY DEF SlaStrong
<1>2. /\ writes' \in Seq(WriteSet)
      /\ DOMAIN writes' = DOMAIN writes \cup {Len(writes) + 1}
      /\ \A i \in DOMAIN writes : writes'[i] = writes[i]
      /\ writes'[Len(writes) + 1] = w
  BY <1>1, AttemptAdded
<1>3. /\ Attempts("breach") = AttemptsIn(writes, "breach")
      /\ Attempts("warning") = AttemptsIn(writes, "warning")
      /\ Attempts("breach")' = AttemptsIn(writes', "breach")
      /\ Attempts("warning")' = AttemptsIn(writes', "warning")
  BY DEF Attempts, AttemptsIn
<1>4. /\ Cardinality(AttemptsIn(writes', "breach")) =
             Cardinality(AttemptsIn(writes, "breach")) + (IF w.kind = "breach" THEN 1 ELSE 0)
      /\ Cardinality(AttemptsIn(writes', "warning")) =
             Cardinality(AttemptsIn(writes, "warning")) + (IF w.kind = "warning" THEN 1 ELSE 0)
  BY <1>1, AttemptAdded
<1>5. /\ Cardinality(AttemptsIn(writes, "breach")) = entered.BREACHED
      /\ Cardinality(AttemptsIn(writes, "warning")) = entered.WARNING
      /\ \A i \in DOMAIN writes : writes[i].outcome = "pending" => writes[i].left > 0
  BY <1>3 DEF SlaStrong, BreachesAreAttempted
<1>6. /\ entered' \in [BREACHED : Nat, WARNING : Nat]
      /\ entered'.BREACHED = entered.BREACHED + (IF w.kind = "breach" THEN 1 ELSE 0)
      /\ entered'.WARNING = entered.WARNING + (IF w.kind = "warning" THEN 1 ELSE 0)
  <2>1. CASE w.kind = "breach" /\ entered' = [entered EXCEPT !["BREACHED"] = @ + 1]
    BY <2>1, <1>1
  <2>2. CASE w.kind = "warning" /\ entered' = [entered EXCEPT !["WARNING"] = @ + 1]
    BY <2>2, <1>1
  <2> QED
    BY <2>1, <2>2
<1>7. \A i \in DOMAIN writes' : writes'[i].outcome = "pending" => writes'[i].left > 0
  BY <1>2, <1>5
<1>8. BreachesAreAttempted'
  BY <1>3, <1>4, <1>5, <1>6, <1>7 DEF BreachesAreAttempted
<1>9. \A i \in DOMAIN writes' : writes'[i].penalty = PenaltyExposure(writes'[i].contract)
  BY <1>2 DEF SlaStrong
<1> QED
  BY <1>2, <1>6, <1>8, <1>9

LEMMA EvaluatedKeeps ==
    ASSUME SlaStrong, NEW values, Evaluated(values)
    PROVE  SlaStrong'
<1> DEFINE terms == contract.terms
           after == NewState(terms, values)
           v(i) == Value(values, terms[i].metric_name)
           near == {i \in DOMAIN terms : Near(terms[i], v(i)) /\ ~Breached(terms[i], v(i))}
           write(kind, n) == [kind |-> kind, left |-> n, penalty |-> PenaltyExposure(contract),
                              contract |-> contract, outcome |-> "pending"]
<1>1. /\ contract \in Contracts /\ IsFiniteSet(DOMAIN terms) /\ ToSet(terms) # {}
      /\ DOMAIN terms = 1..Len(terms)
  BY TermsOfContract DEF SlaStrong, Evaluated
<1>2. /\ contract' = contract /\ slaState' = after /\ judged' = <<values>>
      /\ evaluations' \in 0..MaxEvaluations
      /\ writes' = writes \o Begins(values, slaState, after)
      /\ entered' = IF after # slaState /\ after # "HEALTHY"
                    THEN [entered EXCEPT ![after] = @ + 1] ELSE entered
  BY SlaAssumption DEF Evaluated, SlaStrong
<1>3. after \in {"HEALTHY", "WARNING", "BREACHED"}
  BY <1>1, NewStateIsWorst
<1>4. StateIsWorstTerm'
  <2>1. judged'[1] = values
    BY <1>2
  <2> QED
    BY <1>1, <1>2, <2>1, NewStateIsWorst DEF StateIsWorstTerm
<1>5. IsFiniteSet(near) /\ Cardinality(near) \in Nat
  BY <1>1, FS_Subset, FS_CardinalityType
<1>6. after = "WARNING" => Cardinality(near) > 0
  <2> SUFFICES ASSUME after = "WARNING" PROVE near # {}
    BY <1>5, FS_EmptySet
  <2>1. /\ \A t \in ToSet(terms) : ~Breached(t, Value(values, t.metric_name))
        /\ \E t \in ToSet(terms) : Near(t, Value(values, t.metric_name))
    BY DEF NewState
  <2> QED
    BY <2>1 DEF ToSet
<1>7. Begins(values, slaState, after) =
          CASE after = "BREACHED" /\ slaState # "BREACHED" -> <<write("breach", 1)>>
            [] after = "WARNING" /\ slaState # "WARNING" -> <<write("warning", Cardinality(near))>>
            [] OTHER -> <<>>
  BY DEF Begins, PrevState
<1>8. \A n \in Nat : write("breach", n) \in WriteSet /\ write("warning", n) \in WriteSet
  BY <1>1 DEF WriteSet
<1>9. slaState \in {"HEALTHY", "WARNING", "BREACHED"} /\ writes \in Seq(WriteSet)
  BY DEF SlaStrong
<1> HIDE DEF after, near
<1>10. /\ writes' \in Seq(WriteSet)
       /\ entered' \in [BREACHED : Nat, WARNING : Nat]
       /\ \A i \in DOMAIN writes' : writes'[i].penalty = PenaltyExposure(writes'[i].contract)
       /\ BreachesAreAttempted'
  <2>1. CASE after = "BREACHED" /\ slaState # "BREACHED"
    <3> DEFINE w == write("breach", 1)
    <3>1. writes' = writes \o <<w>>
      BY <1>2, <1>7, <2>1
    <3>2. entered' = [entered EXCEPT !["BREACHED"] = @ + 1]
      BY <1>2, <2>1
    <3>3. w \in WriteSet
      BY <1>8
    <3>4. w.penalty = PenaltyExposure(w.contract) /\ w.outcome = "pending" /\ w.left > 0 /\ w.kind = "breach"
      OBVIOUS
    <3> HIDE DEF w
    <3> QED
      BY <3>1, <3>2, <3>3, <3>4, WritesEntered
  <2>2. CASE after = "WARNING" /\ slaState # "WARNING"
    <3> DEFINE w == write("warning", Cardinality(near))
    <3>1. writes' = writes \o <<w>>
      BY <1>2, <1>7, <2>2
    <3>2. entered' = [entered EXCEPT !["WARNING"] = @ + 1]
      BY <1>2, <2>2
    <3>3. w \in WriteSet /\ w.penalty = PenaltyExposure(w.contract) /\ w.outcome = "pending"
          /\ w.left > 0 /\ w.kind = "warning"
      BY <1>5, <1>6, <1>8, <2>2
    <3> HIDE DEF w
    <3> QED
      BY <3>1, <3>2, <3>3, WritesEntered
  <2>3. CASE ~(after = "BREACHED" /\ slaState # "BREACHED") /\ ~(after = "WARNING" /\ slaState # "WARNING")
    <3>1. Begins(values, slaState, after) = <<>>
      BY <1>7, <2>3
    <3>2. writes' = writes
      BY <3>1, <1>2, <1>9, ConcatEmptySeq
    <3>3. entered' = entered
      BY <1>2, <1>3, <1>9, <2>3
    <3> QED
      BY <3>2, <3>3 DEF SlaStrong, BreachesAreAttempted, Attempts
  <2> QED
    BY <2>1, <2>2, <2>3
<1> QED
  BY <1>1, <1>2, <1>3, <1>4, <1>10 DEF SlaStrong

LEMMA WriteReturnsKeeps ==
    ASSUME SlaStrong, NEW i \in DOMAIN writes, NEW ok \in BOOLEAN, WriteReturns(i, ok)
    PROVE  SlaStrong'
<1> DEFINE w == writes[i]
           outcome == IF ~ok THEN "rejected" ELSE IF w.left = 1 THEN "done" ELSE "pending"
           x == [kind |-> w.kind, left |-> w.left - 1, penalty |-> w.penalty,
                 contract |-> w.contract, outcome |-> outcome]
<1>1. writes \in Seq(WriteSet) /\ \A j \in DOMAIN writes : writes[j] \in WriteSet
  BY LenProperties, ElementOfSeq DEF SlaStrong
<1>2. w \in WriteSet /\ w.outcome = "pending" /\ w.left > 0
  BY <1>1 DEF WriteReturns, SlaStrong, BreachesAreAttempted
<1>3. writes' = [writes EXCEPT ![i] = x]
  <2>1. writes' = [writes EXCEPT ![i].left = @ - 1, ![i].outcome = outcome]
    BY DEF WriteReturns
  <2>2. writes'[i] = x
    BY <1>2, <2>1 DEF WriteSet
  <2>3. /\ DOMAIN writes' = DOMAIN writes
        /\ \A j \in DOMAIN writes : j # i => writes'[j] = writes[j]
    BY <2>1
  <2>4. writes' = [j \in DOMAIN writes |-> writes'[j]]
    BY <2>1
  <2> HIDE DEF x
  <2> QED
    BY <2>2, <2>3, <2>4
<1>4. x \in WriteSet /\ (x.outcome = "pending" => x.left > 0)
  BY <1>2 DEF WriteSet
<1>5. x.kind = w.kind /\ x.penalty = w.penalty /\ x.contract = w.contract
  OBVIOUS
<1>6. UNCHANGED <<contract, slaState, judged, evaluations, entered>>
  BY DEF WriteReturns
<1> HIDE DEF x
<1>7. writes' \in Seq(WriteSet) /\ DOMAIN writes' = DOMAIN writes
  BY <1>1, <1>3, <1>4, ExceptSeq, LenProperties
<1>8. /\ \A j \in DOMAIN writes : writes'[j].kind = writes[j].kind
      /\ \A j \in DOMAIN writes' : writes'[j].penalty = PenaltyExposure(writes'[j].contract)
      /\ \A j \in DOMAIN writes' : writes'[j].outcome = "pending" => writes'[j].left > 0
  BY <1>3, <1>4, <1>5, <1>7 DEF SlaStrong, BreachesAreAttempted
<1>9. Attempts("breach")' = Attempts("breach") /\ Attempts("warning")' = Attempts("warning")
  BY <1>7, <1>8 DEF Attempts
<1>10. BreachesAreAttempted'
  BY <1>6, <1>8, <1>9 DEF SlaStrong, BreachesAreAttempted
<1>11. StateIsWorstTerm'
  BY <1>6 DEF SlaStrong, StateIsWorstTerm
<1> QED
  BY <1>6, <1>7, <1>8, <1>10, <1>11 DEF SlaStrong

LEMMA SlaStep == SlaStrong /\ [SlaNext]_slaVars => SlaStrong'
<1> SUFFICES ASSUME SlaStrong, [SlaNext]_slaVars PROVE SlaStrong'
  OBVIOUS
<1>1. ASSUME UNCHANGED <<slaState, evaluations, writes, entered>>, contract' \in Contracts \cup {NoContract},
             StateIsWorstTerm'
      PROVE  SlaStrong'
  BY <1>1 DEF SlaStrong, BreachesAreAttempted, Attempts
<1>2. ASSUME UNCHANGED <<contract, slaState, judged, evaluations, writes, entered>> PROVE SlaStrong'
  <2>1. StateIsWorstTerm'
    BY <1>2 DEF SlaStrong, StateIsWorstTerm
  <2> QED
    BY <2>1, <1>1, <1>2 DEF SlaStrong
<1>3. ASSUME NEW c \in Contracts, IngestContract(c) PROVE SlaStrong'
  <2>1. StateIsWorstTerm'
    BY <1>3 DEF IngestContract, StateIsWorstTerm
  <2> QED
    BY <2>1, <1>1, <1>3 DEF IngestContract
<1>4. ASSUME NEW values, EvaluateContract(values) PROVE SlaStrong'
  BY <1>4, EvaluatedKeeps DEF EvaluateContract
<1>5. ASSUME MonitorEvaluates PROVE SlaStrong'
  <2>1. \E values : Evaluated(values)
    BY <1>5 DEF MonitorEvaluates
  <2> QED
    BY <2>1, EvaluatedKeeps
<1>6. ASSUME NEW i \in DOMAIN writes, NEW ok \in BOOLEAN, WriteReturns(i, ok) PROVE SlaStrong'
  BY <1>6, WriteReturnsKeeps
<1>7. ASSUME BeginMonitor PROVE SlaStrong'
  BY <1>2, <1>7 DEF BeginMonitor
<1>8. ASSUME NEW v, FetchMetric(v) PROVE SlaStrong'
  BY <1>2, <1>8 DEF FetchMetric
<1>9. CASE UNCHANGED slaVars
  BY <1>2, <1>9 DEF slaVars
<1> QED
  BY <1>3, <1>4, <1>5, <1>6, <1>7, <1>8, <1>9 DEF SlaNext

(* Evaluations that overlap with each other, with the writes they begin and *)
(* with a new version of the contract count every breach once.             *)
THEOREM SlaInvariance == SlaSpec => []SlaStrong
  BY SlaInitial, SlaStep, PTL DEF SlaSpec

LEMMA SlaStrongImplies == ASSUME SensiblePenalties PROVE SlaStrong => SlaInv
<1> SUFFICES ASSUME SlaStrong PROVE SlaInv
  OBVIOUS
<1>1. \A i \in DOMAIN writes : writes[i] \in WriteSet
  BY LenProperties, ElementOfSeq DEF SlaStrong
<1>2. SlaTypeOK
  BY <1>1 DEF SlaStrong, SlaTypeOK, WriteSet, Severity
<1>3. ASSUME NEW c \in Contracts, NEW seconds, NEW magnitude
      PROVE  CalculatedPenalty(c, seconds, magnitude) <= PenaltyExposure(c)
  <2>1. c.fee \in Nat /\ c.minor \in Nat /\ c.major \in Nat /\ c.minor <= c.major
    BY DEF SensiblePenalties
  <2>2. \A fee, a, b \in Nat : a <= b => fee * a <= fee * b
    OBVIOUS
  <2>3. c.fee * c.minor <= c.fee * c.major /\ c.fee * c.major <= c.fee * c.major
    BY <2>1, <2>2
  <2> QED
    BY <2>3 DEF CalculatedPenalty, PenaltyExposure
<1>4. ExposureCoversPenalty
  BY <1>1, <1>3 DEF SlaStrong, ExposureCoversPenalty, WriteSet
<1> QED
  BY <1>2, <1>4 DEF SlaInv, SlaStrong

(* However evaluations, writes and new versions interleave: one attempt is  *)
(* made for each breach and each approach, the state is that of the worst  *)
(* term, and the penalty in the ledger covers what will be charged.        *)
THEOREM SlaInvHolds == ASSUME SensiblePenalties PROVE SlaSpec => []SlaInv
<1>1. SlaStrong => SlaInv
  BY SlaStrongImplies
<1> QED
  BY <1>1, SlaInvariance, PTL

-----------------------------------------------------------------------------
(* The governor's monitors.                                                *)

SampleSet == [timestamp : Nat, rate : Rates]
EffectStates == {"none", "pending", "done", "rejected"}
IsolationSet == [phase : {"idle", "containing", "recording", "contained", "failed"},
                 effects : [Effects -> EffectStates]]
SanitationSet == [phase : {"idle", "safe", "recording", "rejected", "failed"},
                  released : BOOLEAN, effects : [Effects -> EffectStates]]

Ordered(s, until) ==
    /\ \A i, j \in DOMAIN s : i <= j => s[i].timestamp <= s[j].timestamp
    /\ \A i \in DOMAIN s : s[i].timestamp <= until

(* An effect has begun only in the phase for it, and a phase begins only    *)
(* when the one before is done; what failed stays so.                      *)
InPhase(x) ==
    LET done(e) == x.effects[e] = "done"
        begun(e) == x.effects[e] # "none"
    IN  /\ x.phase = "idle" => \A e \in Effects : ~begun(e)
        /\ x.phase = "recording" => done("suspend") /\ done("revoke")
        /\ x.phase = "contained" => \A e \in Effects : done(e)
        /\ begun("ledger") \/ begun("notify") =>
               done("suspend") /\ done("revoke") /\ x.phase # "containing"

Stopped(p, x) ==
    /\ x.released => p = {}
    /\ x.phase = "idle" => \A e \in Effects : x.effects[e] = "none"
    /\ x.phase = "rejected" => \A e \in {"ledger", "notify"} : x.effects[e] = "done"

GovStrong ==
    /\ day \in SEVEN_DAYS..LastDay
    /\ samples \in [GovAgents -> Seq(SampleSet)]
    /\ \A a \in GovAgents : Len(samples[a]) <= MaxSamples /\ (a \notin disordered => Ordered(samples[a], day))
    /\ DOMAIN lastFlag = GovAgents
    /\ SeenRateIsNoAnomaly
    /\ isolation \in [GovAgents -> IsolationSet]
    /\ \A a \in GovAgents : InPhase(isolation[a])
    /\ sanitation \in [Payload -> SanitationSet]
    /\ \A p \in Payload : Stopped(p, sanitation[p])
    /\ executed \subseteq resources
    /\ \A x \in executed, t \in RequiredTags : t \in DOMAIN x.tags /\ x.tags[t] # ""

LEMMA DayIsNat == day \in SEVEN_DAYS..LastDay => day \in Nat
  BY GovAssumption DEF SEVEN_DAYS

LEMMA GovInitial == GovInit => GovStrong
<1> SUFFICES ASSUME GovInit PROVE GovStrong
  OBVIOUS
<1>1. day = SEVEN_DAYS /\ day \in SEVEN_DAYS..LastDay
  BY GovAssumption DEF GovInit, SEVEN_DAYS
<1>2. /\ samples \in [GovAgents -> Seq(SampleSet)]
      /\ \A a \in GovAgents : samples[a] = <<>> /\ Len(samples[a]) = 0 /\ DOMAIN samples[a] = {}
  BY EmptySeq DEF GovInit
<1>3. \A a \in GovAgents : Len(samples[a]) <= MaxSamples /\ Ordered(samples[a], day)
  BY <1>2, GovAssumption DEF Ordered
<1>4. DOMAIN lastFlag = GovAgents /\ SeenRateIsNoAnomaly
  BY DEF GovInit, SeenRateIsNoAnomaly
<1>5. isolation \in [GovAgents -> IsolationSet] /\ \A a \in GovAgents : InPhase(isolation[a])
  BY DEF GovInit, IsolationSet, InPhase, NoEffects, EffectStates, Effects
<1>6. sanitation \in [Payload -> SanitationSet] /\ \A p \in Payload : Stopped(p, sanitation[p])
  BY DEF GovInit, SanitationSet, Stopped, NoEffects, EffectStates, Effects
<1> QED
  BY <1>1, <1>2, <1>3, <1>4, <1>5, <1>6 DEF GovStrong, GovInit

\* What is left begins with a young sample; when the samples come in order of time, what
\* follows it is young too.
LEMMA PrunedIsYoung ==
    ASSUME NEW s \in Seq(SampleSet), day \in Nat
    PROVE  /\ Pruned(s) \in Seq(SampleSet)
           /\ \A i \in DOMAIN Pruned(s) : i = 1 => Pruned(s)[i].timestamp >= day - SEVEN_DAYS
           /\ Ordered(s, day) =>
                  /\ Ordered(Pruned(s), day)
                  /\ \A i \in DOMAIN Pruned(s) : Pruned(s)[i].timestamp >= day - SEVEN_DAYS
<1> DEFINE young == {i \in DOMAIN s : s[i].timestamp >= day - SEVEN_DAYS}
           m == Min(young)
           n == Len(s)
           w == Pruned(s)
<1>1. n \in Nat /\ DOMAIN s = 1..n /\ \A i \in 1..n : s[i] \in SampleSet
  BY LenProperties, ElementOfSeq
<1>2. CASE young = {}
  <2>1. w = <<>>
    BY <1>2 DEF Pruned
  <2>2. w \in Seq(SampleSet) /\ DOMAIN w = {}
    BY <2>1, EmptySeq
  <2> QED
    BY <2>2 DEF Ordered
<1>3. CASE young # {}
  <2>1. w = SubSeq(s, m, n)
    BY <1>3 DEF Pruned
  <2>2. IsFiniteSet(young) /\ young \subseteq Int
    <3>1. IsFiniteSet(1..n)
      BY <1>1, FS_Interval
    <3>2. young \subseteq 1..n
      BY <1>1
    <3> QED
      BY <1>1, <3>1, <3>2, FS_Subset
  <2>3. m \in young
    BY <1>3, <2>2, MinIs
  <2>4. m \in 1..n /\ s[m].timestamp >= day - SEVEN_DAYS
    BY <1>1, <2>3
  <2> HIDE DEF young, m
  <2>5. /\ w \in Seq(SampleSet) /\ Len(w) = n - m + 1
        /\ \A i \in 1..(n - m + 1) : w[i] = s[m + i - 1]
    BY <1>1, <2>1, <2>4, SubSeqProperties
  <2>6. DOMAIN w = 1..(n - m + 1) /\ \A i \in DOMAIN w : m + i - 1 \in 1..n /\ w[i] = s[m + i - 1]
    BY <1>1, <2>4, <2>5, LenProperties
  <2>9. \A i \in DOMAIN w : i = 1 => w[i].timestamp >= day - SEVEN_DAYS
    <3> SUFFICES ASSUME 1 \in DOMAIN w PROVE w[1].timestamp >= day - SEVEN_DAYS
      OBVIOUS
    <3>1. m + 1 - 1 = m
      BY <2>4
    <3> QED
      BY <2>4, <2>6, <3>1
  <2>7. ASSUME Ordered(s, day) PROVE \A i \in DOMAIN w : w[i].timestamp >= day - SEVEN_DAYS
    <3> SUFFICES ASSUME NEW i \in DOMAIN w PROVE w[i].timestamp >= day - SEVEN_DAYS
      OBVIOUS
    <3>1. m <= m + i - 1
      BY <2>4, <2>6
    <3>2. s[m].timestamp <= s[m + i - 1].timestamp
      BY <1>1, <2>4, <2>6, <2>7, <3>1 DEF Ordered
    <3>3. s[m].timestamp \in Nat /\ s[m + i - 1].timestamp \in Nat
      BY <1>1, <2>4, <2>6 DEF SampleSet
    <3>4. w[i].timestamp = s[m + i - 1].timestamp
      BY <2>6
    <3>5. \A first, later \in Nat : first >= day - SEVEN_DAYS /\ first <= later => later >= day - SEVEN_DAYS
      BY DEF SEVEN_DAYS
    <3>6. s[m + i - 1].timestamp >= day - SEVEN_DAYS
      BY <2>4, <3>2, <3>3, <3>5
    <3> QED
      BY <3>4, <3>6
  <2>8. ASSUME Ordered(s, day) PROVE Ordered(w, day)
    <3>1. ASSUME NEW i \in DOMAIN w, NEW j \in DOMAIN w, i <= j
          PROVE  w[i].timestamp <= w[j].timestamp
      <4>1. m + i - 1 <= m + j - 1
        BY <2>4, <2>6, <3>1
      <4> QED
        BY <1>1, <2>6, <2>8, <4>1 DEF Ordered
    <3>2. \A i \in DOMAIN w : w[i].timestamp <= day
      BY <1>1, <2>6, <2>8 DEF Ordered
    <3> QED
      BY <3>1, <3>2 DEF Ordered
  <2> QED
    BY <2>5, <2>7, <2>8, <2>9
<1> QED
  BY <1>2, <1>3

\* A rate that is above the mean by more than a sample of the window can be.
LEMMA SeenIsNoAnomaly ==
    ASSUME NEW w \in Seq(SampleSet), Len(w) <= 10, NEW rate \in Nat, IsAnomaly(w, rate), NEW i \in DOMAIN w
    PROVE  rate > w[i].rate
<1> DEFINE n == Len(w)
           D == DOMAIN w
           f == [j \in D |-> w[j].rate]
           g == [j \in D |-> w[j].rate * w[j].rate]
           sum == SumOver(f, D)
           squares == SumOver(g, D)
           spread == n * squares - sum * sum
           x == w[i].rate
<1>1. /\ n \in Nat /\ D = 1..n /\ IsFiniteSet(D) /\ Cardinality(D) = n
      /\ \A j \in D : w[j] \in SampleSet
  <2>1. n \in Nat /\ D = 1..n /\ \A j \in D : w[j] \in SampleSet
    BY LenProperties, ElementOfSeq
  <2>2. IsFiniteSet(1..n) /\ Cardinality(1..n) = n
    <3> HIDE DEF n
    <3> QED
      BY <2>1, FS_Interval
  <2> QED
    BY <2>1, <2>2
<1>2. \A j \in D : f[j] \in Nat /\ f[j] \in Int /\ g[j] = f[j] * f[j]
  <2>1. \A j \in D : w[j].rate \in Nat
    BY <1>1, GovAssumption DEF SampleSet
  <2> QED
    BY <2>1
<1>3. RateSum(w) = sum /\ SquareSum(w) = squares
  BY DEF RateSum, SquareSum, SumOver, FoldFunction, FoldFunctionOnSet, MapThenSumSet
<1>4. sum \in Int /\ squares \in Nat
  BY <1>1, <1>2, SquareOfSum
<1>5. spread > 0 /\ n * rate - sum > 0 /\ (n * rate - sum) * (n * rate - sum) > 9 * spread
  BY <1>3 DEF IsAnomaly, Exceeds
<1>6. (n * f[i] - sum) * (n * f[i] - sum) <= (n - 1) * spread
  BY <1>1, <1>2, DeviationBound
<1>7. f[i] = x /\ x \in Nat /\ n <= 10
  BY <1>2
<1> HIDE DEF n, D, f, g, sum, squares, x
<1>8. SUFFICES ASSUME rate <= x PROVE FALSE
  BY <1>7 DEF x
<1>9. \A a, b \in Nat : a <= b => n * a <= n * b
  BY <1>1
<1>10. n * rate <= n * x
  BY <1>7, <1>8, <1>9
<1>11. \A a, b \in Int : 0 < a /\ a <= b => a * a <= b * b
  OBVIOUS
<1>12. (n * rate - sum) * (n * rate - sum) <= (n * x - sum) * (n * x - sum)
  <2>1. n * rate - sum \in Int /\ n * x - sum \in Int /\ n * rate - sum <= n * x - sum
    BY <1>1, <1>4, <1>7, <1>10
  <2> QED
    BY <2>1, <1>5, <1>11
<1>13. (n - 1) * spread <= 9 * spread
  <2>1. spread \in Nat /\ n - 1 <= 9
    BY <1>1, <1>4, <1>5, <1>7
  <2>2. \A a \in Int, b \in Nat : a <= 9 => a * b <= 9 * b
    OBVIOUS
  <2> HIDE DEF spread
  <2> QED
    BY <1>1, <2>1, <2>2
<1>14. \A a, b, c, d \in Int : a <= b /\ b <= c /\ c <= d => ~(a > d)
  OBVIOUS
<1>15. /\ (n * rate - sum) * (n * rate - sum) \in Int
       /\ (n * x - sum) * (n * x - sum) \in Int
       /\ (n - 1) * spread \in Int /\ 9 * spread \in Int
  BY <1>1, <1>4, <1>7
<1>16. (n * x - sum) * (n * x - sum) <= (n - 1) * spread
  BY <1>6, <1>7
<1> QED
  BY <1>5, <1>12, <1>13, <1>14, <1>15, <1>16
LEMMA MonitorKeeps ==
    ASSUME GovStrong, NEW a \in GovAgents, NEW rate \in Rates, Monitor(a, rate)
    PROVE  GovStrong'
<1> DEFINE w == Pruned(samples[a])
           flagged == IsAnomaly(w, rate)
           sample == [timestamp |-> day, rate |-> rate]
           last == [window |-> w, rate |-> rate, day |-> day, flagged |-> flagged]
           started == [phase |-> "containing",
                       effects |-> [e \in Effects |-> IF e \in {"suspend", "revoke"} THEN "pending" ELSE "none"]]
<1>1. /\ day \in Nat /\ samples[a] \in Seq(SampleSet) /\ (a \notin disordered => Ordered(samples[a], day))
      /\ rate \in Nat /\ sample \in SampleSet /\ MaxSamples \in Nat
  <2>1. day \in Nat /\ rate \in Nat /\ MaxSamples \in Nat
    BY GovAssumption, DayIsNat DEF GovStrong
  <2>2. sample \in SampleSet
    BY <2>1 DEF SampleSet
  <2>3. samples[a] \in Seq(SampleSet) /\ (a \notin disordered => Ordered(samples[a], day))
    BY DEF GovStrong
  <2> QED
    BY <2>1, <2>2, <2>3
<1>2. /\ w \in Seq(SampleSet) /\ (a \notin disordered => Ordered(w, day))
      /\ \A i \in DOMAIN w : i = 1 \/ a \notin disordered => w[i].timestamp >= day - SEVEN_DAYS
  BY <1>1, PrunedIsYoung
<1>3. /\ Len(w) < MaxSamples
      /\ samples' = [samples EXCEPT ![a] = Append(w, sample)]
      /\ lastFlag' = [lastFlag EXCEPT ![a] = last]
      /\ isolation' = IF flagged THEN [isolation EXCEPT ![a] = started] ELSE isolation
      /\ UNCHANGED <<day, disordered, sanitation, resources, executed>>
  BY DEF Monitor
<1>4. Len(w) \in Nat /\ DOMAIN w = 1..Len(w)
  BY <1>2, LenProperties
<1>5. Len(w) <= 10 => \A i \in DOMAIN w : flagged => rate > w[i].rate
  BY <1>1, <1>2, <1>4, SeenIsNoAnomaly
<1> HIDE DEF w, flagged
<1>6. /\ Append(w, sample) \in Seq(SampleSet)
      /\ Len(Append(w, sample)) = Len(w) + 1
      /\ DOMAIN Append(w, sample) = 1..(Len(w) + 1)
      /\ \A i \in 1..Len(w) : Append(w, sample)[i] = w[i]
      /\ Append(w, sample)[Len(w) + 1] = sample
  <2>1. /\ Append(w, sample) \in Seq(SampleSet)
        /\ Len(Append(w, sample)) = Len(w) + 1
        /\ \A i \in 1..Len(w) : Append(w, sample)[i] = w[i]
        /\ Append(w, sample)[Len(w) + 1] = sample
    BY <1>1, <1>2, AppendProperties
  <2> QED
    BY <2>1, LenProperties
<1>7. ASSUME a \notin disordered PROVE Ordered(Append(w, sample), day)
  <2>1. \A i \in 1..(Len(w) + 1) : i \in 1..Len(w) \/ i = Len(w) + 1
    BY <1>4
  <2>2. \A i \in 1..Len(w) : w[i].timestamp <= day
    BY <1>2, <1>4, <1>7 DEF Ordered
  <2>3. \A i, j \in 1..Len(w) : i <= j => w[i].timestamp <= w[j].timestamp
    BY <1>2, <1>4, <1>7 DEF Ordered
  <2>4. \A i \in 1..(Len(w) + 1) : Append(w, sample)[i].timestamp <= day
    BY <1>1, <1>6, <2>1, <2>2
  <2>5. ASSUME NEW i \in 1..(Len(w) + 1), NEW j \in 1..(Len(w) + 1), i <= j
        PROVE  Append(w, sample)[i].timestamp <= Append(w, sample)[j].timestamp
    <3>1. CASE j \in 1..Len(w)
      <4>1. i \in 1..Len(w)
        BY <1>4, <2>5, <3>1
      <4> QED
        BY <1>6, <2>3, <2>5, <3>1, <4>1
    <3>2. CASE j = Len(w) + 1
      <4>1. Append(w, sample)[j].timestamp = day
        BY <1>6, <3>2
      <4> QED
        BY <2>4, <4>1
    <3> QED
      BY <2>1, <3>1, <3>2
  <2> QED
    BY <1>6, <2>4, <2>5 DEF Ordered
<1>8. samples' \in [GovAgents -> Seq(SampleSet)]
  BY <1>3, <1>6 DEF GovStrong
<1>9. \A b \in GovAgents : Len(samples'[b]) <= MaxSamples /\ (b \notin disordered => Ordered(samples'[b], day))
  <2>1. samples'[a] = Append(w, sample) /\ \A b \in GovAgents \ {a} : samples'[b] = samples[b]
    BY <1>3 DEF GovStrong
  <2>2. Len(Append(w, sample)) <= MaxSamples
    BY <1>1, <1>3, <1>4, <1>6
  <2> QED
    BY <1>7, <2>1, <2>2 DEF GovStrong
<1>10. SeenRateIsNoAnomaly'
  <2>1. lastFlag'[a] = last /\ \A b \in GovAgents \ {a} : lastFlag'[b] = lastFlag[b]
    BY <1>3 DEF GovStrong
  <2>2. \A i \in DOMAIN last.window :
            /\ i = 1 \/ a \notin disordered => last.window[i].timestamp >= last.day - SEVEN_DAYS
            /\ last.flagged /\ Len(last.window) <= 10 => last.rate > last.window[i].rate
    BY <1>2, <1>5
  <2>3. disordered' = disordered
    BY <1>3
  <2> HIDE DEF last
  <2> SUFFICES ASSUME NEW b \in GovAgents, NEW i \in DOMAIN lastFlag'[b].window
               PROVE  /\ i = 1 \/ b \notin disordered => lastFlag'[b].window[i].timestamp >= lastFlag'[b].day - SEVEN_DAYS
                      /\ lastFlag'[b].flagged /\ Len(lastFlag'[b].window) <= 10
                            => lastFlag'[b].rate > lastFlag'[b].window[i].rate
    BY <2>3 DEF SeenRateIsNoAnomaly
  <2>4. CASE b = a
    BY <2>1, <2>2, <2>4
  <2>5. CASE b # a
    <3>1. lastFlag'[b] = lastFlag[b] /\ i \in DOMAIN lastFlag[b].window
      BY <2>1, <2>5
    <3> QED
      BY <3>1 DEF GovStrong, SeenRateIsNoAnomaly
  <2> QED
    BY <2>4, <2>5
<1>11. isolation' \in [GovAgents -> IsolationSet] /\ \A b \in GovAgents : InPhase(isolation'[b])
  <2>1. started \in IsolationSet /\ InPhase(started)
    BY DEF IsolationSet, EffectStates, InPhase, Effects
  <2> HIDE DEF started
  <2> QED
    BY <1>3, <2>1 DEF GovStrong
<1>12. DOMAIN lastFlag' = GovAgents
  BY <1>3 DEF GovStrong
<1> QED
  BY <1>3, <1>8, <1>9, <1>10, <1>11, <1>12 DEF GovStrong

LEMMA SeedKeeps ==
    ASSUME GovStrong, NEW a \in GovAgents, NEW timestamp \in HistoryDays, NEW rate \in Rates,
           SeedSamples(a, timestamp, rate)
    PROVE  GovStrong'
<1> DEFINE s == samples[a]
           sample == [timestamp |-> timestamp, rate |-> rate]
           late == \E i \in DOMAIN s : s[i].timestamp > timestamp
<1>1. day \in Nat /\ MaxSamples \in Nat \ {0} /\ timestamp \in Nat /\ rate \in Nat /\ timestamp <= day
  BY GovAssumption, DayIsNat DEF GovStrong, SeedSamples
<1>2. /\ Len(s) < MaxSamples /\ samples' = [samples EXCEPT ![a] = Append(s, sample)]
      /\ disordered' = IF late THEN disordered \cup {a} ELSE disordered
      /\ UNCHANGED <<day, lastFlag, isolation, sanitation, resources, executed>>
  BY DEF SeedSamples
<1>3. s \in Seq(SampleSet) /\ (a \notin disordered => Ordered(s, day)) /\ sample \in SampleSet
  BY <1>1 DEF GovStrong, SampleSet
<1>4. Len(s) \in Nat /\ DOMAIN s = 1..Len(s) /\ \A i \in 1..Len(s) : s[i].timestamp \in Nat
  <2>1. \A i \in 1..Len(s) : s[i] \in SampleSet
    BY <1>3, ElementOfSeq
  <2> QED
    BY <1>3, <2>1, LenProperties DEF SampleSet
<1>5. /\ Append(s, sample) \in Seq(SampleSet) /\ Len(Append(s, sample)) = Len(s) + 1
      /\ DOMAIN Append(s, sample) = 1..(Len(s) + 1)
      /\ \A i \in 1..Len(s) : Append(s, sample)[i] = s[i]
      /\ Append(s, sample)[Len(s) + 1] = sample
  <2>1. /\ Append(s, sample) \in Seq(SampleSet) /\ Len(Append(s, sample)) = Len(s) + 1
        /\ \A i \in 1..Len(s) : Append(s, sample)[i] = s[i]
        /\ Append(s, sample)[Len(s) + 1] = sample
    BY <1>3, AppendProperties
  <2> QED
    BY <2>1, LenProperties
<1> HIDE DEF s
<1>6. ASSUME a \notin disordered' PROVE Ordered(Append(s, sample), day)
  <2>1. a \notin disordered /\ ~late
    BY <1>2, <1>6
  <2>2. /\ \A i, j \in 1..Len(s) : i <= j => s[i].timestamp <= s[j].timestamp
        /\ \A i \in 1..Len(s) : s[i].timestamp <= day
    BY <1>3, <1>4, <2>1 DEF Ordered
  <2>3. \A i \in 1..Len(s) : s[i].timestamp <= timestamp
    BY <1>1, <1>4, <2>1
  <2>4. \A i \in 1..(Len(s) + 1) : i \in 1..Len(s) \/ i = Len(s) + 1
    BY <1>4
  <2>5. \A i \in 1..(Len(s) + 1) : /\ Append(s, sample)[i].timestamp <= timestamp
                                  /\ Append(s, sample)[i].timestamp <= day
    BY <1>1, <1>5, <2>2, <2>3, <2>4
  <2>6. ASSUME NEW i \in 1..(Len(s) + 1), NEW j \in 1..(Len(s) + 1), i <= j
        PROVE  Append(s, sample)[i].timestamp <= Append(s, sample)[j].timestamp
    <3>1. CASE j \in 1..Len(s)
      <4>1. i \in 1..Len(s)
        BY <1>4, <2>6, <3>1
      <4> QED
        BY <1>5, <2>2, <2>6, <3>1, <4>1
    <3>2. CASE j = Len(s) + 1
      <4>1. Append(s, sample)[j].timestamp = timestamp
        BY <1>5, <3>2
      <4> QED
        BY <2>5, <4>1
    <3> QED
      BY <2>4, <3>1, <3>2
  <2> QED
    BY <1>5, <2>5, <2>6 DEF Ordered
<1>7. samples'[a] = Append(s, sample) /\ \A b \in GovAgents \ {a} : samples'[b] = samples[b]
  BY <1>2 DEF GovStrong
<1>8. samples' \in [GovAgents -> Seq(SampleSet)]
  BY <1>2, <1>5 DEF GovStrong
<1>9. \A b \in GovAgents : Len(samples'[b]) <= MaxSamples /\ (b \notin disordered' => Ordered(samples'[b], day))
  <2>1. Len(Append(s, sample)) <= MaxSamples
    BY <1>1, <1>2, <1>4, <1>5
  <2>2. \A b \in GovAgents \ {a} : Len(samples[b]) <= MaxSamples /\ (b \notin disordered' => Ordered(samples[b], day))
    BY <1>2 DEF GovStrong
  <2> QED
    BY <1>6, <1>7, <2>1, <2>2
<1>10. SeenRateIsNoAnomaly'
  <2>1. disordered \subseteq disordered' /\ lastFlag' = lastFlag
    BY <1>2
  <2> QED
    BY <2>1 DEF GovStrong, SeenRateIsNoAnomaly
<1> QED
  BY <1>2, <1>8, <1>9, <1>10 DEF GovStrong

LEMMA EffectKeeps ==
    ASSUME GovStrong, NEW a \in GovAgents, NEW e \in Effects, EffectDone(a, e) \/ EffectRejects(a, e)
    PROVE  isolation' \in [GovAgents -> IsolationSet] /\ \A b \in GovAgents : InPhase(isolation'[b])
<1> DEFINE x == isolation[a]
<1>1. x \in IsolationSet /\ InPhase(x) /\ x.effects \in [Effects -> EffectStates] /\ isolation \in [GovAgents -> IsolationSet]
  BY DEF GovStrong, IsolationSet
<1>2. ASSUME EffectDone(a, e)
      PROVE  isolation'[a] \in IsolationSet /\ InPhase(isolation'[a])
  <2> DEFINE done == [x.effects EXCEPT ![e] = "done"]
             phase == NextPhase(x.phase, done)
             starts == phase = "recording" /\ x.phase = "containing"
             after == IF starts THEN [done EXCEPT !.ledger = "pending", !.notify = "pending"] ELSE done
  <2>1. isolation'[a] = [phase |-> phase, effects |-> after] /\ x.effects[e] = "pending"
    BY <1>1, <1>2 DEF EffectDone
  <2>2. done \in [Effects -> EffectStates] /\ done[e] = "done" /\ \A d \in Effects \ {e} : done[d] = x.effects[d]
    BY <1>1 DEF EffectStates
  <2>3. x.phase = "containing" => x.effects["ledger"] = "none" /\ x.effects["notify"] = "none"
    BY <1>1 DEF InPhase
  <2>4. CASE starts
    <3>1. /\ phase = "recording" /\ done["suspend"] = "done" /\ done["revoke"] = "done"
      BY <2>4 DEF NextPhase, AllDone
    <3>2. /\ after \in [Effects -> EffectStates]
          /\ after["suspend"] = "done" /\ after["revoke"] = "done"
      BY <2>2, <2>4, <3>1 DEF Effects, EffectStates
    <3> HIDE DEF after
    <3> QED
      BY <2>1, <3>1, <3>2 DEF InPhase, IsolationSet
  <2>5. CASE ~starts
    <3>1. after = done
      BY <2>5
    <3>2. /\ phase \in {"idle", "containing", "recording", "contained", "failed"}
          /\ phase = "idle" => x.phase = "idle"
          /\ phase = "recording" => x.phase = "recording"
          /\ phase = "containing" => x.phase = "containing"
          /\ phase = "contained" => \/ x.phase = "contained"
                                    \/ x.phase = "recording" /\ done["ledger"] = "done" /\ done["notify"] = "done"
      BY <1>1, <2>5 DEF NextPhase, AllDone, IsolationSet
    <3> HIDE DEF done, phase, after, starts
    <3>3. \A d \in Effects : x.effects[d] = "done" => done[d] = "done"
      BY <2>2
    <3>4. x.phase # "idle"
      BY <1>1, <2>1 DEF InPhase
    <3>5. done["ledger"] # "none" \/ done["notify"] # "none" =>
              done["suspend"] = "done" /\ done["revoke"] = "done" /\ phase # "containing"
      BY <1>1, <2>1, <2>2, <2>3, <3>2, <3>3 DEF InPhase, Effects
    <3>6. phase = "recording" => done["suspend"] = "done" /\ done["revoke"] = "done"
      BY <1>1, <3>2, <3>3 DEF InPhase, Effects
    <3>7. phase = "contained" => \A d \in Effects : done[d] = "done"
      BY <1>1, <3>2, <3>3 DEF InPhase, Effects
    <3>8. InPhase([phase |-> phase, effects |-> done])
      BY <3>2, <3>4, <3>5, <3>6, <3>7 DEF InPhase
    <3> QED
      BY <2>1, <2>2, <3>1, <3>2, <3>8 DEF IsolationSet
  <2> QED
    BY <2>4, <2>5
<1>3. ASSUME EffectRejects(a, e)
      PROVE  isolation'[a] \in IsolationSet /\ InPhase(isolation'[a])
  <2> DEFINE after == [x.effects EXCEPT ![e] = "rejected"]
  <2>1. isolation'[a].phase = "failed" /\ isolation'[a].effects = after /\ x.effects[e] = "pending"
    BY <1>1, <1>3 DEF EffectRejects, IsolationSet
  <2>2. isolation'[a] = [phase |-> "failed", effects |-> after]
    BY <1>1, <1>3 DEF EffectRejects, IsolationSet
  <2>3. /\ after \in [Effects -> EffectStates] /\ after[e] = "rejected"
        /\ \A d \in Effects \ {e} : after[d] = x.effects[d]
    BY <1>1 DEF EffectStates
  <2> HIDE DEF after
  <2>4. after["ledger"] # "none" \/ after["notify"] # "none" => after["suspend"] = "done" /\ after["revoke"] = "done"
    BY <1>1, <2>1, <2>3 DEF InPhase, Effects
  <2>5. InPhase([phase |-> "failed", effects |-> after])
    BY <2>4 DEF InPhase
  <2> QED
    BY <2>2, <2>3, <2>5 DEF IsolationSet
<1>4. \A b \in GovAgents \ {a} : isolation'[b] = isolation[b]
  BY <1>1 DEF EffectDone, EffectRejects
<1>5. isolation' = [b \in GovAgents |-> isolation'[b]]
  BY <1>1 DEF EffectDone, EffectRejects
<1> QED
  BY <1>2, <1>3, <1>4, <1>5 DEF GovStrong
LEMMA SanitizeKeeps ==
    ASSUME GovStrong, NEW p \in Payload,
           Sanitize(p) \/ \E e \in Effects, ok \in BOOLEAN : SanitizeEffect(p, e, ok)
    PROVE  sanitation' \in [Payload -> SanitationSet] /\ \A q \in Payload : Stopped(q, sanitation'[q])
<1> DEFINE x == sanitation[p]
<1>1. /\ x \in SanitationSet /\ Stopped(p, x) /\ x.effects \in [Effects -> EffectStates]
      /\ sanitation \in [Payload -> SanitationSet]
  BY DEF GovStrong, SanitationSet
<1>2. /\ \A q \in Payload \ {p} : sanitation'[q] = sanitation[q]
      /\ sanitation' = [q \in Payload |-> sanitation'[q]]
  BY <1>1 DEF Sanitize, SanitizeEffect
<1>3. ASSUME Sanitize(p) PROVE sanitation'[p] \in SanitationSet /\ Stopped(p, sanitation'[p])
  <2>1. CASE DetectPatterns(p) = {}
    <3>1. sanitation'[p] = [phase |-> "safe", released |-> TRUE, effects |-> NoEffects]
      BY <1>1, <1>3, <2>1 DEF Sanitize
    <3>2. p = {}
      BY <2>1, GovAssumption DEF DetectPatterns
    <3> QED
      BY <3>1, <3>2 DEF Stopped, SanitationSet, NoEffects, EffectStates
  <2>2. CASE DetectPatterns(p) # {}
    <3> DEFINE started == [e \in Effects |-> IF e \in {"ledger", "notify"} THEN "pending" ELSE "none"]
    <3>1. sanitation'[p] = [phase |-> "recording", released |-> FALSE, effects |-> started]
      BY <1>1, <1>3, <2>2 DEF Sanitize
    <3>2. started \in [Effects -> EffectStates]
      BY DEF EffectStates
    <3> HIDE DEF started
    <3> QED
      BY <3>1, <3>2 DEF Stopped, SanitationSet
  <2> QED
    BY <2>1, <2>2
<1>4. ASSUME NEW e \in Effects, NEW ok \in BOOLEAN, SanitizeEffect(p, e, ok)
      PROVE  sanitation'[p] \in SanitationSet /\ Stopped(p, sanitation'[p])
  <2> DEFINE after == [x.effects EXCEPT ![e] = IF ok THEN "done" ELSE "rejected"]
             phase == IF ~ok THEN "failed"
                      ELSE IF x.phase = "recording" /\ AllDone(after, {"ledger", "notify"})
                           THEN "rejected" ELSE x.phase
  <2>1. sanitation'[p] = [phase |-> phase, released |-> FALSE, effects |-> after] /\ x.effects[e] = "pending"
    BY <1>1, <1>4 DEF SanitizeEffect
  <2>2. /\ after \in [Effects -> EffectStates]
        /\ \A d \in Effects : x.effects[d] = "done" => after[d] = "done"
    BY <1>1, <2>1 DEF EffectStates
  <2>3. /\ phase \in {"idle", "safe", "recording", "rejected", "failed"}
        /\ phase = "idle" => x.phase = "idle"
        /\ phase = "rejected" => x.phase = "rejected" \/ (after["ledger"] = "done" /\ after["notify"] = "done")
    BY <1>1 DEF SanitationSet, AllDone
  <2>4. x.phase # "idle"
    BY <1>1, <2>1 DEF Stopped
  <2> HIDE DEF after, phase
  <2>5. phase = "rejected" => after["ledger"] = "done" /\ after["notify"] = "done"
    BY <1>1, <2>2, <2>3 DEF Stopped, Effects
  <2>6. Stopped(p, [phase |-> phase, released |-> FALSE, effects |-> after])
    BY <2>3, <2>4, <2>5 DEF Stopped
  <2> QED
    BY <2>1, <2>2, <2>3, <2>6 DEF SanitationSet
<1> QED
  BY <1>1, <1>2, <1>3, <1>4 DEF GovStrong

\* What validateBatch() lets through has a value for every required tag.
LEMMA ValidateKeeps ==
    ASSUME ValidateBatch
    PROVE  /\ executed' \subseteq resources
           /\ \A x \in executed', t \in RequiredTags : t \in DOMAIN x.tags /\ x.tags[t] # ""
<1>1. executed' = resources \ {x.resource : x \in BatchErrors(resources, RequiredTags)}
  BY DEF ValidateBatch
<1>2. ASSUME NEW r \in executed' PROVE EnforcedValid(r.tags, RequiredTags)
  <2> SUFFICES ASSUME ~EnforcedValid(r.tags, RequiredTags) PROVE FALSE
    OBVIOUS
  <2> DEFINE error == [resource |-> r, missing_tags |-> EnforcedMissing(r.tags, RequiredTags)]
  <2>1. r \in resources
    BY <1>1, <1>2
  <2>2. error \in BatchErrors(resources, RequiredTags)
    BY <2>1 DEF BatchErrors
  <2>3. error.resource = r
    OBVIOUS
  <2> QED
    BY <1>1, <1>2, <2>2, <2>3
<1> QED
  BY <1>1, <1>2 DEF EnforcedValid, EnforcedMissing

LEMMA GovStep == GovStrong /\ [GovNext]_govVars => GovStrong'
<1> SUFFICES ASSUME GovStrong, [GovNext]_govVars PROVE GovStrong'
  OBVIOUS
<1>1. ASSUME UNCHANGED <<day, samples, disordered, lastFlag, sanitation, resources, executed>>,
             isolation' \in [GovAgents -> IsolationSet],
             \A a \in GovAgents : InPhase(isolation'[a])
      PROVE  GovStrong'
  <2>1. SeenRateIsNoAnomaly'
    BY <1>1 DEF GovStrong, SeenRateIsNoAnomaly
  <2> QED
    BY <1>1, <2>1 DEF GovStrong
<1>2. ASSUME UNCHANGED <<day, samples, disordered, lastFlag, isolation, resources, executed>>,
             sanitation' \in [Payload -> SanitationSet],
             \A p \in Payload : Stopped(p, sanitation'[p])
      PROVE  GovStrong'
  <2>1. SeenRateIsNoAnomaly'
    BY <1>2 DEF GovStrong, SeenRateIsNoAnomaly
  <2> QED
    BY <1>2, <2>1 DEF GovStrong
<1>3. ASSUME UNCHANGED <<day, samples, disordered, lastFlag, isolation, sanitation>>, executed' \subseteq resources',
             \A x \in executed', t \in RequiredTags : t \in DOMAIN x.tags /\ x.tags[t] # ""
      PROVE  GovStrong'
  <2>1. SeenRateIsNoAnomaly'
    BY <1>3 DEF GovStrong, SeenRateIsNoAnomaly
  <2> QED
    BY <1>3, <2>1 DEF GovStrong
<1>4. ASSUME NEW a \in GovAgents, NEW rate \in Rates, Monitor(a, rate) PROVE GovStrong'
  BY <1>4, MonitorKeeps
<1>5. ASSUME NEW a \in GovAgents, NEW timestamp \in HistoryDays, NEW rate \in Rates, SeedSamples(a, timestamp, rate)
      PROVE  GovStrong'
  BY <1>5, SeedKeeps
<1>6. ASSUME NEW a \in GovAgents, NEW e \in Effects, EffectDone(a, e) \/ EffectRejects(a, e) PROVE GovStrong'
  <2>1. UNCHANGED <<day, samples, disordered, lastFlag, sanitation, resources, executed>>
    BY <1>6 DEF EffectDone, EffectRejects
  <2>2. isolation' \in [GovAgents -> IsolationSet] /\ \A b \in GovAgents : InPhase(isolation'[b])
    BY <1>6, EffectKeeps
  <2> QED
    BY <1>1, <2>1, <2>2
<1>7. ASSUME NEW a \in GovAgents, IsolationTimeout(a) PROVE GovStrong'
  <2>1. UNCHANGED <<day, samples, disordered, lastFlag, sanitation, resources, executed>>
    BY <1>7 DEF IsolationTimeout
  <2>2. isolation \in [GovAgents -> IsolationSet] /\ isolation[a] \in IsolationSet
        /\ isolation[a].phase = "containing" /\ InPhase(isolation[a])
    BY <1>7 DEF GovStrong, IsolationTimeout
  <2>3. isolation'[a] = [phase |-> "failed", effects |-> isolation[a].effects]
    BY <1>7, <2>2 DEF IsolationTimeout, IsolationSet
  <2>4. isolation'[a] \in IsolationSet /\ InPhase(isolation'[a])
    BY <2>2, <2>3 DEF InPhase, IsolationSet
  <2>5. /\ \A b \in GovAgents \ {a} : isolation'[b] = isolation[b]
        /\ isolation' = [b \in GovAgents |-> isolation'[b]]
    BY <1>7, <2>2 DEF IsolationTimeout
  <2>6. isolation' \in [GovAgents -> IsolationSet] /\ \A b \in GovAgents : InPhase(isolation'[b])
    BY <2>2, <2>4, <2>5 DEF GovStrong
  <2> QED
    BY <1>1, <2>1, <2>6
<1>8. ASSUME NextDay PROVE GovStrong'
  <2>1. /\ day' = day + 1 /\ day < LastDay
        /\ UNCHANGED <<samples, disordered, lastFlag, isolation, sanitation, resources, executed>>
    BY <1>8 DEF NextDay
  <2>2. day \in SEVEN_DAYS..LastDay /\ day \in Nat
    BY DayIsNat DEF GovStrong
  <2>3. day' \in SEVEN_DAYS..LastDay
    BY <2>1, <2>2, GovAssumption DEF SEVEN_DAYS
  <2>4. ASSUME NEW a \in GovAgents, a \notin disordered PROVE Ordered(samples[a], day')
    <3>1. samples[a] \in Seq(SampleSet) /\ Ordered(samples[a], day)
      BY <2>4 DEF GovStrong
    <3>2. \A i \in DOMAIN samples[a] : samples[a][i].timestamp \in Nat
      <4>1. \A i \in DOMAIN samples[a] : samples[a][i] \in SampleSet
        BY <3>1, LenProperties, ElementOfSeq
      <4> QED
        BY <4>1 DEF SampleSet
    <3> QED
      BY <2>1, <2>2, <3>1, <3>2 DEF Ordered
  <2>5. SeenRateIsNoAnomaly'
    BY <2>1 DEF GovStrong, SeenRateIsNoAnomaly
  <2> QED
    BY <2>1, <2>3, <2>4, <2>5 DEF GovStrong
<1>9. ASSUME NEW p \in Payload, Sanitize(p) \/ \E e \in Effects, ok \in BOOLEAN : SanitizeEffect(p, e, ok)
      PROVE  GovStrong'
  <2>1. UNCHANGED <<day, samples, disordered, lastFlag, isolation, resources, executed>>
    BY <1>9 DEF Sanitize, SanitizeEffect
  <2>2. sanitation' \in [Payload -> SanitationSet] /\ \A q \in Payload : Stopped(q, sanitation'[q])
    BY <1>9, SanitizeKeeps
  <2> QED
    BY <1>2, <2>1, <2>2
<1>10. ASSUME ValidateBatch PROVE GovStrong'
  <2>1. UNCHANGED <<day, samples, disordered, lastFlag, isolation, sanitation, resources>>
    BY <1>10 DEF ValidateBatch
  <2> QED
    BY <1>3, <1>10, <2>1, ValidateKeeps
<1>11. ASSUME NEW tags, PutUp(tags) PROVE GovStrong'
  <2>1. UNCHANGED <<day, samples, disordered, lastFlag, isolation, sanitation, executed>> /\ resources \subseteq resources'
    BY <1>11 DEF PutUp
  <2>2. /\ executed \subseteq resources
        /\ \A x \in executed, t \in RequiredTags : t \in DOMAIN x.tags /\ x.tags[t] # ""
    BY DEF GovStrong
  <2> QED
    BY <1>3, <2>1, <2>2
<1>12. CASE UNCHANGED govVars
  <2>1. UNCHANGED <<day, samples, disordered, lastFlag, isolation, sanitation, resources, executed>>
    BY <1>12 DEF govVars
  <2> QED
    BY <1>1, <2>1 DEF GovStrong
<1> QED
  BY <1>4, <1>5, <1>6, <1>7, <1>8, <1>9, <1>10, <1>11, <1>12
     DEF GovNext, GovMonitorNext, GovSanitizeNext, GovTagNext

(* Samples, containment and sanitation in whatever order their effects      *)
(* complete, reject or time out.                                           *)
THEOREM GovernorInvariance == GovSpec => []GovStrong
<1>1. GovStrong /\ [GovNext]_govVars => GovStrong'
  BY GovStep
<1> QED
  BY <1>1, GovInitial, PTL DEF GovSpec

LEMMA GovStrongImplies == GovStrong => GovernorInv
<1> SUFFICES ASSUME GovStrong PROVE GovernorInv
  OBVIOUS
<1>1. \A a \in GovAgents : isolation[a].phase \in {"idle", "containing", "recording", "contained", "failed"}
  BY DEF GovStrong, IsolationSet
<1>2. \A p \in Payload : sanitation[p].phase \in {"idle", "safe", "recording", "rejected", "failed"}
  BY DEF GovStrong, SanitationSet
<1>3. GovTypeOK
  BY <1>1, <1>2 DEF GovStrong, GovTypeOK
<1>4. ContainedIsComplete
  BY DEF GovStrong, InPhase, ContainedIsComplete
<1>5. InjectionIsStopped
  BY DEF GovStrong, Stopped, InjectionIsStopped
<1>6. \A x \in resources : IngestValid(x.tags, RequiredTags) => EnforcedValid(x.tags, RequiredTags)
  BY DEF IngestValid, IngestMissing, EnforcedValid, EnforcedMissing
<1>7. IngestedMayExecute
  BY <1>6 DEF GovStrong, IngestedMayExecute
<1> QED
  BY <1>3, <1>4, <1>5, <1>7 DEF GovernorInv, GovStrong

(* A rate seen in an agent's own window of at most ten samples is no anomaly*)
(* (one of eleven can be), a containment that is reported complete is       *)
(* complete, a payload with an injection is never released, and what       *)
(* executes has a value for every required tag: for every agent, payload,  *)
(* rate and length of the window.                                          *)
THEOREM GovernorInvHolds == GovSpec => []GovernorInv
<1>1. GovSpec => []GovStrong
  BY GovernorInvariance
<1> QED
  BY <1>1, GovStrongImplies, PTL

-----------------------------------------------------------------------------
(* The green agent.                                                        *)

ReadingSet == [intensity : Intensities, timestamp : Nat]

(* A failure that is remembered lies after the last answer.                 *)
CarbonStrong ==
    /\ minute \in 0..LastMinute /\ polls \subseteq 0..minute
    /\ latestReading = cachedReading
    /\ latestReading # NoReading => latestReading \in ReadingSet
    /\ lastAnswer \in 0..minute
    /\ unavailableSince # NoReading => unavailableSince \in 0..minute /\ lastAnswer <= unavailableSince
    /\ WarningIsTrue
    /\ MovingSaves

LEMMA CarbonInitial == CarbonInit => CarbonStrong
  BY CarbonAssumption DEF CarbonInit, CarbonStrong, WarningIsTrue, MovingSaves

\* The best of the windows that save a fifth saves more than any that is in time.
LEMMA ScheduleKeeps ==
    ASSUME NEW windows \in SUBSET Windows, NEW deadline, NEW shiftable, NEW current \in Intensities,
           Schedule(windows, deadline, shiftable, current)
    PROVE  MovingSaves'
<1> DEFINE candidates == IF shiftable THEN Candidates(windows, deadline, current) ELSE {}
<1>1. current \in Nat
  BY CarbonAssumption
<1>2. CASE decision' = [decision |-> "EXECUTE_NOW", deadline |-> deadline]
  BY <1>2 DEF MovingSaves
<1>3. ASSUME NEW best \in candidates, \A w \in candidates : best.intensity <= w.intensity,
             decision' = [decision |-> "SCHEDULE", deadline |-> deadline, window |-> best,
                          savings |-> IF current > best.intensity THEN current - best.intensity ELSE 0,
                          current |-> current, windows |-> windows]
      PROVE  MovingSaves'
  <2> DEFINE savings == IF current > best.intensity THEN current - best.intensity ELSE 0
  <2>1. candidates = Candidates(windows, deadline, current)
    BY <1>3
  <2>2. \A w \in windows : w.intensity \in Nat
    BY CarbonAssumption DEF Windows
  <2>3. best \in windows /\ best.start <= deadline /\ 10 * best.intensity <= 8 * current
    BY <2>1 DEF Candidates
  <2>4. best.intensity \in Nat
    BY <2>2, <2>3
  <2>5. savings = current - best.intensity /\ 5 * savings >= current
    BY <1>1, <2>3, <2>4
  <2>6. ASSUME NEW w \in windows, w.start <= deadline PROVE current - w.intensity <= savings
    <3>1. CASE 10 * w.intensity <= 8 * current
      <4>1. w \in candidates
        BY <2>1, <2>6, <3>1 DEF Candidates
      <4>2. best.intensity <= w.intensity
        BY <1>3, <4>1
      <4> QED
        BY <1>1, <2>2, <2>4, <2>5, <4>2
    <3>2. CASE ~(10 * w.intensity <= 8 * current)
      <4>1. w.intensity \in Nat
        BY <2>2
      <4> QED
        BY <1>1, <2>3, <2>4, <2>5, <3>2, <4>1
    <3> QED
      BY <3>1, <3>2
  <2>7. /\ decision'.window = best /\ decision'.deadline = deadline /\ decision'.savings = savings
        /\ decision'.current = current /\ decision'.windows = windows
    BY <1>3
  <2> HIDE DEF savings
  <2> QED
    BY <2>3, <2>5, <2>6, <2>7 DEF MovingSaves
<1> QED
  BY <1>2, <1>3 DEF Schedule

LEMMA CarbonStep == CarbonStrong /\ [CarbonNext]_carbonVars => CarbonStrong'
<1> SUFFICES ASSUME CarbonStrong, [CarbonNext]_carbonVars PROVE CarbonStrong'
  OBVIOUS
<1>0. minute \in Nat /\ LastMinute \in Nat /\ Tick \in Nat \ {0} /\ StaleThreshold \in Nat \ {0}
  BY CarbonAssumption DEF CarbonStrong
<1>1. ASSUME UNCHANGED decision PROVE MovingSaves'
  BY <1>1 DEF CarbonStrong, MovingSaves
<1>2. ASSUME UNCHANGED warning PROVE WarningIsTrue'
  BY <1>2 DEF CarbonStrong, WarningIsTrue
<1>3. CASE BeginPoll
  BY <1>0, <1>1, <1>2, <1>3 DEF BeginPoll, CarbonStrong
<1>4. CASE PassMinutes
  BY <1>0, <1>1, <1>2, <1>4 DEF PassMinutes, CarbonStrong
<1>5. ASSUME NEW t \in polls, NEW i \in Intensities, PollAnswered(t, i) PROVE CarbonStrong'
  <2>1. t \in Nat
    BY <1>0 DEF CarbonStrong
  <2>2. latestReading' \in ReadingSet /\ cachedReading' = latestReading'
    BY <1>5, <2>1 DEF PollAnswered, ReadingSet
  <2>3. /\ UNCHANGED <<minute, warning, decision>> /\ polls' \subseteq polls /\ lastAnswer' = minute
        /\ unavailableSince' = NoReading
    BY <1>5 DEF PollAnswered, AvailableAgain
  <2> QED
    BY <1>0, <1>1, <1>2, <2>2, <2>3 DEF CarbonStrong
<1>6. ASSUME NEW t \in polls, PollFails(t) PROVE CarbonStrong'
  <2>1. /\ UNCHANGED <<minute, latestReading, cachedReading, lastAnswer, decision>> /\ polls' \subseteq polls
        /\ unavailableSince' = FirstFailure
    BY <1>6 DEF PollFails
  <2>2. FirstFailure \in 0..minute /\ lastAnswer <= FirstFailure
    BY <1>0 DEF FirstFailure, CarbonStrong
  <2>3. WarningIsTrue'
    <3>1. CASE warning' = warning
      BY <1>2, <3>1
    <3>2. CASE /\ minute - FirstFailure >= StaleThreshold
               /\ warning' = [stale_since |-> FirstFailure, timestamp |-> minute,
                              last_known |-> cachedReading.intensity, answered |-> lastAnswer]
      BY <2>2, <3>2 DEF WarningIsTrue
    <3> QED
      BY <1>6, <3>1, <3>2 DEF PollFails
  <2> QED
    BY <1>0, <1>1, <2>1, <2>2, <2>3 DEF CarbonStrong
<1>7. ASSUME NEW windows \in {{v, w} : v, w \in Windows}, NEW deadline, NEW shiftable,
             NEW current \in Intensities, Schedule(windows, deadline, shiftable, current)
      PROVE  CarbonStrong'
  <2>1. windows \in SUBSET Windows
    OBVIOUS
  <2>2. MovingSaves'
    BY <1>7, <2>1, ScheduleKeeps
  <2>3. UNCHANGED <<minute, polls, latestReading, cachedReading, unavailableSince, lastAnswer, warning>>
    BY <1>7 DEF Schedule
  <2> QED
    BY <1>2, <2>2, <2>3 DEF CarbonStrong
<1>8. CASE UNCHANGED carbonVars
  BY <1>1, <1>2, <1>8 DEF carbonVars, CarbonStrong
<1> QED
  BY <1>3, <1>4, <1>5, <1>6, <1>7, <1>8 DEF CarbonNext, CarbonFeedNext, CarbonScheduleNext

(* Whatever polls fail, answer late or overtake one another, a staleness    *)
(* warning is true, and a workload is moved only to a window in time that  *)
(* saves a fifth of the present intensity and more than any other would.   *)
THEOREM CarbonInvHolds == CarbonSpec => []CarbonInv
<1>1. CarbonStrong => CarbonInv
  BY DEF CarbonStrong, CarbonInv, CarbonTypeOK
<1> QED
  BY <1>1, CarbonInitial, CarbonStep, PTL DEF CarbonSpec

-----------------------------------------------------------------------------
(* The finance agents.                                                     *)

(* The schedule of the reconciliation: it runs once a day or more often.    *)
DailyReconciliation == Period <= RECONCILIATION_WINDOW

ActionSet == [action_id : ExecutedActions, projected : Projected, executed_at : Nat]
BillSet == [action_id : ExecutedActions, actual : Billed]
SessionSet == [cost : Billed, correct : BOOLEAN, own : BOOLEAN]

(* What was executed before the last run is covered, and the last run is no *)
(* longer ago than the period: what was executed since lies in the window. *)
FinStrong ==
    /\ hour \in 0..LastHour /\ lastRun \in 0..hour /\ hour <= lastRun + Period
    /\ actions \subseteq ActionSet /\ \A a \in actions : a.executed_at <= hour
    /\ bills \in Seq(BillSet)
    /\ sessions \in Seq(SessionSet)
    /\ covered \subseteq actions
    /\ report.unmatched \subseteq actions /\ {x.action : x \in report.matched} \subseteq actions
    /\ EveryActionIsReconciled
    /\ OverrunIsExplained

LEMMA FinInitial == FinInit => FinStrong
<1> SUFFICES ASSUME FinInit PROVE FinStrong
  OBVIOUS
<1>1. bills \in Seq(BillSet) /\ sessions \in Seq(SessionSet)
  BY EmptySeq DEF FinInit
<1>2. EveryActionIsReconciled
  BY DEF FinInit, EveryActionIsReconciled
<1>3. OverrunIsExplained
  BY DEF FinInit, EmptyReport, OverrunIsExplained
<1>4. hour \in 0..LastHour /\ lastRun \in 0..hour /\ hour <= lastRun + Period
  BY FinanceAssumption DEF FinInit
<1> QED
  BY <1>1, <1>2, <1>3, <1>4 DEF FinInit, FinStrong, EmptyReport

\* More than ten percent over the projection is more than five percent off.
LEMMA OverrunIsFlagged ==
    ASSUME NEW a, a.projected \in Nat, NEW actual \in Nat, 10 * actual > 11 * a.projected
    PROVE  /\ VarianceExceeds(a, actual, 5)
           /\ RootCause(a, actual) \in {"infrastructure_change", "external_factor"}
<1>1. CASE a.projected = 0
  <2>1. actual > 0
    BY <1>1
  <2>2. VarianceExceeds(a, actual, 5) /\ VarianceExceeds(a, actual, 50)
    BY <1>1, <2>1 DEF VarianceExceeds
  <2> QED
    BY <2>2 DEF RootCause
<1>2. CASE a.projected # 0
  <2>1. Abs(actual - a.projected) = actual - a.projected
    BY DEF Abs
  <2>2. VarianceExceeds(a, actual, 5)
    BY <1>2, <2>1 DEF VarianceExceeds
  <2> QED
    BY <2>2 DEF RootCause
<1> QED
  BY <1>1, <1>2

LEMMA ReconcileKeeps ==
    ASSUME DailyReconciliation, FinStrong, Reconcile
    PROVE  /\ covered' \subseteq actions
           /\ report'.unmatched \subseteq actions /\ {x.action : x \in report'.matched} \subseteq actions
           /\ EveryActionIsReconciled'
           /\ OverrunIsExplained'
<1> DEFINE billed == {a \in Recent : BillsOf(a.action_id) # {}}
           matched == {[action |-> a, actual |-> Billing(a.action_id)] : a \in billed}
           flagged == {x \in matched : VarianceExceeds(x.action, x.actual, 5)}
           explained == {[of |-> x, cause |-> RootCause(x.action, x.actual)] : x \in flagged}
<1>1. /\ report' = [matched |-> matched, unmatched |-> Recent \ billed, discrepancies |-> explained]
      /\ covered' = covered \cup Recent /\ lastRun' = hour
      /\ UNCHANGED <<hour, actions, bills, sessions>>
  BY DEF Reconcile
<1>2. Recent \subseteq actions /\ covered \subseteq actions
  BY DEF Recent, FinStrong
<1>3. ASSUME NEW a \in billed
      PROVE  a \in actions /\ a.projected \in Nat /\ Billing(a.action_id) \in Nat
  <2> DEFINE mine == BillsOf(a.action_id)
  <2>1. a \in actions /\ a.projected \in Nat /\ mine # {}
    BY <1>2, FinanceAssumption DEF FinStrong, ActionSet
  <2>2. /\ Len(bills) \in Nat /\ DOMAIN bills = 1..Len(bills)
        /\ \A i \in DOMAIN bills : bills[i] \in BillSet
    BY LenProperties, ElementOfSeq DEF FinStrong
  <2>3. IsFiniteSet(1..Len(bills)) /\ mine \subseteq 1..Len(bills)
    BY <2>2, FS_Interval DEF BillsOf
  <2>4. IsFiniteSet(mine) /\ mine \subseteq Int
    BY <2>2, <2>3, FS_Subset
  <2>5. Max(mine) \in mine
    BY <2>1, <2>4, MaxIs
  <2>6. bills[Max(mine)] \in BillSet
    BY <2>2, <2>3, <2>5
  <2> QED
    BY <2>1, <2>6, FinanceAssumption DEF Billing, BillSet
<1>4. {x.action : x \in matched} \subseteq actions
  BY <1>3
<1>5. EveryActionIsReconciled'
  <2> SUFFICES ASSUME NEW a \in actions, a.executed_at < hour PROVE a \in covered \cup Recent
    BY <1>1 DEF EveryActionIsReconciled
  <2>1. CASE a.executed_at < lastRun
    BY <2>1 DEF FinStrong, EveryActionIsReconciled
  <2>2. CASE ~(a.executed_at < lastRun)
    <3>1. a.executed_at \in Nat /\ hour \in Nat /\ lastRun \in Nat /\ hour <= lastRun + Period /\ Period \in Nat
      BY FinanceAssumption DEF FinStrong, ActionSet
    <3>2. a.executed_at >= hour - RECONCILIATION_WINDOW
      BY <2>2, <3>1 DEF DailyReconciliation, RECONCILIATION_WINDOW
    <3> QED
      BY <3>2 DEF Recent
  <2> QED
    BY <2>1, <2>2
<1>6. ASSUME NEW x \in matched, 10 * x.actual > 11 * x.action.projected
      PROVE  \E d \in explained : d.of = x /\ d.cause \in {"infrastructure_change", "external_factor"}
  <2>1. x.action.projected \in Nat /\ x.actual \in Nat
    BY <1>3
  <2>2. /\ VarianceExceeds(x.action, x.actual, 5)
        /\ RootCause(x.action, x.actual) \in {"infrastructure_change", "external_factor"}
    BY <1>6, <2>1, OverrunIsFlagged
  <2>3. x \in flagged
    BY <2>2
  <2> DEFINE d == [of |-> x, cause |-> RootCause(x.action, x.actual)]
  <2>4. d \in explained /\ d.of = x /\ d.cause = RootCause(x.action, x.actual)
    BY <2>3
  <2> HIDE DEF d, explained
  <2> QED
    BY <2>2, <2>4
<1>7. report'.matched = matched /\ report'.discrepancies = explained /\ report'.unmatched = Recent \ billed
  BY <1>1
<1> HIDE DEF matched, explained
<1>8. OverrunIsExplained'
  BY <1>6, <1>7 DEF OverrunIsExplained
<1> QED
  BY <1>1, <1>2, <1>4, <1>5, <1>7, <1>8

LEMMA FinStep == ASSUME DailyReconciliation PROVE FinStrong /\ [FinNext]_finVars => FinStrong'
<1> SUFFICES ASSUME FinStrong, [FinNext]_finVars PROVE FinStrong'
  OBVIOUS
<1>0. hour \in Nat /\ lastRun \in Nat /\ Period \in Nat /\ Step \in Nat \ {0} /\ LastHour \in Nat
  BY FinanceAssumption DEF FinStrong
<1>1. ASSUME UNCHANGED <<actions, covered, lastRun, report>>
      PROVE  EveryActionIsReconciled' /\ OverrunIsExplained'
  BY <1>1 DEF FinStrong, EveryActionIsReconciled, OverrunIsExplained
<1>2. ASSUME NEW id \in ExecutedActions, NEW projected \in Projected, Execute(id, projected) PROVE FinStrong'
  <2> DEFINE a == [action_id |-> id, projected |-> projected, executed_at |-> hour]
  <2>1. actions' = actions \cup {a} /\ UNCHANGED <<hour, bills, lastRun, report, covered, sessions>>
    BY <1>2 DEF Execute
  <2>2. a \in ActionSet /\ a.executed_at = hour
    BY <1>0 DEF ActionSet
  <2> HIDE DEF a
  <2>3. ~(a.executed_at < lastRun)
    BY <1>0, <2>2 DEF FinStrong
  <2>4. EveryActionIsReconciled'
    BY <2>1, <2>3 DEF FinStrong, EveryActionIsReconciled
  <2>5. OverrunIsExplained'
    BY <2>1 DEF FinStrong, OverrunIsExplained
  <2> QED
    BY <1>0, <2>1, <2>2, <2>4, <2>5 DEF FinStrong
<1>3. ASSUME NEW a \in actions, NEW actual \in Billed, Bill(a, actual) PROVE FinStrong'
  <2> DEFINE b == [action_id |-> a.action_id, actual |-> actual]
  <2>1. bills' = Append(bills, b) /\ UNCHANGED <<hour, actions, lastRun, report, covered, sessions>>
    BY <1>3 DEF Bill
  <2>2. b \in BillSet
    BY DEF BillSet, FinStrong, ActionSet
  <2>3. bills' \in Seq(BillSet)
    BY <2>1, <2>2, AppendProperties DEF FinStrong
  <2> QED
    BY <1>1, <2>1, <2>3 DEF FinStrong
<1>4. CASE PassHours
  <2>1. /\ hour' = hour + Step /\ hour + Step <= LastHour /\ hour + Step <= lastRun + Period
        /\ UNCHANGED <<actions, bills, lastRun, report, covered, sessions>>
    BY <1>4 DEF PassHours
  <2>2. hour' \in 0..LastHour /\ lastRun' \in 0..hour' /\ hour' <= lastRun' + Period
    BY <1>0, <2>1 DEF FinStrong
  <2>3. \A a \in actions : a.executed_at <= hour'
    BY <1>0, <2>1 DEF FinStrong, ActionSet
  <2> QED
    BY <1>1, <2>1, <2>2, <2>3 DEF FinStrong
<1>5. CASE Reconcile
  <2>1. UNCHANGED <<hour, actions, bills, sessions>> /\ lastRun' = hour
    BY <1>5 DEF Reconcile
  <2>2. lastRun' \in 0..hour' /\ hour' <= lastRun' + Period
    BY <1>0, <2>1
  <2> QED
    BY <1>5, <2>1, <2>2, ReconcileKeeps DEF FinStrong
<1>6. ASSUME NEW cost \in Billed, NEW correct \in BOOLEAN, NEW own \in BOOLEAN,
             RecordSession(cost, correct, own)
      PROVE  FinStrong'
  <2> DEFINE x == [cost |-> cost, correct |-> correct, own |-> own]
  <2>1. sessions' = Append(sessions, x) /\ UNCHANGED <<hour, actions, bills, lastRun, report, covered>>
    BY <1>6 DEF RecordSession
  <2>2. x \in SessionSet
    BY DEF SessionSet
  <2>3. sessions' \in Seq(SessionSet)
    BY <2>1, <2>2, AppendProperties DEF FinStrong
  <2> QED
    BY <1>1, <2>1, <2>3 DEF FinStrong
<1>7. CASE UNCHANGED finVars
  <2>1. UNCHANGED <<hour, actions, bills, lastRun, report, covered, sessions>>
    BY <1>7 DEF finVars
  <2> QED
    BY <1>1, <2>1 DEF FinStrong
<1> QED
  BY <1>2, <1>3, <1>4, <1>5, <1>6, <1>7 DEF FinNext, FinReconcileNext, FinROINext

\* What the tenant's sessions cost is what its correct and its failed ones cost.
LEMMA FailuresAreCounted ==
    ASSUME sessions \in Seq(SessionSet)
    PROVE  FailuresArePaidFor
<1> DEFINE cost == [i \in DOMAIN sessions |-> sessions[i].cost]
           correct == {i \in DOMAIN sessions : sessions[i].own /\ sessions[i].correct}
           wrong == {i \in DOMAIN sessions : sessions[i].own /\ ~sessions[i].correct}
<1>1. /\ Len(sessions) \in Nat /\ DOMAIN sessions = 1..Len(sessions)
      /\ \A i \in DOMAIN sessions : sessions[i] \in SessionSet
  BY LenProperties, ElementOfSeq
<1>2. IsFiniteSet(correct) /\ IsFiniteSet(wrong)
  <2>1. IsFiniteSet(1..Len(sessions))
    BY <1>1, FS_Interval
  <2>2. correct \subseteq 1..Len(sessions) /\ wrong \subseteq 1..Len(sessions)
    BY <1>1
  <2> QED
    BY <2>1, <2>2, FS_Subset
<1>3. OwnSessions = correct \cup wrong /\ correct \cap wrong = {}
  BY DEF OwnSessions
<1>4. \A i \in correct \cup wrong : cost[i] \in Int
  <2>1. \A i \in DOMAIN sessions : sessions[i].cost \in Billed
    BY <1>1 DEF SessionSet
  <2>2. Billed \subseteq Int
    BY FinanceAssumption
  <2> QED
    BY <2>1, <2>2
<1>5. \A of : TotalCost(of) = SumOver(cost, of)
  BY DEF TotalCost, SumOver, FoldFunctionOnSet, MapThenSumSet
<1> HIDE DEF cost
<1>6. TotalCost(OwnSessions) = TotalCost(correct) + TotalCost(wrong)
  BY <1>2, <1>3, <1>4, <1>5, SumUnion
<1>7. {i \in OwnSessions : sessions[i].correct} = correct
  BY DEF OwnSessions
<1>8. correct # {} => /\ CostPerCorrectResult.results = Cardinality(correct)
                      /\ CostPerCorrectResult.cost = TotalCost(OwnSessions)
  BY <1>7 DEF CostPerCorrectResult
<1> QED
  BY <1>6, <1>8 DEF FailuresArePaidFor

(* With a reconciliation at least once a day no executed action escapes it, *)
(* a cost more than a tenth over its projection is flagged and explained,  *)
(* and failed sessions are part of what a correct result costs.            *)
THEOREM FinanceInvHolds == ASSUME DailyReconciliation PROVE FinSpec => []FinanceInv
<1>1. FinStrong /\ [FinNext]_finVars => FinStrong'
  BY FinStep
<1>2. FinStrong => FinanceInv
  <2> SUFFICES ASSUME FinStrong PROVE FinanceInv
    OBVIOUS
  <2>1. FinTypeOK
    BY DEF FinStrong, FinTypeOK
  <2>2. FailuresArePaidFor
    BY FailuresAreCounted DEF FinStrong
  <2> QED
    BY <2>1, <2>2 DEF FinStrong, FinanceInv
<1> QED
  BY <1>1, <1>2, FinInitial, PTL DEF FinSpec

-----------------------------------------------------------------------------
(* The auditor.                                                            *)

CostSet == [cost : Costs, timestamp : Days]

ImportSet == [batch : Batches \cup {<<>>}, at : Nat, against : Nat,
              phase : {"idle", "compare", "reporting_duplicate", "reporting_rate", "done", "failed"}]

DuplicateReportedOf(m, at) == \E f \in reported : f.by = m /\ f.at = at /\ f.reason = "duplicate_charge"

\* The record in hand was compared with the first `against` of those stored.
ComparedWith(m, against) ==
    \/ DuplicateReportedOf(m, importing[m].at)
    \/ \A i \in DOMAIN stored : i <= against => ~SameCharge(stored[i], Current(m))

ImportOK(m) ==
    LET n == Len(importing[m].batch)
    IN  /\ n \in Nat /\ importing[m].at \in 1..(n + 1) /\ importing[m].against <= Len(stored)
        /\ importing[m].phase \in {"compare", "reporting_duplicate", "reporting_rate"} => importing[m].at <= n
        /\ importing[m].phase = "reporting_duplicate" => DuplicateReportedOf(m, importing[m].at)
        /\ importing[m].phase = "reporting_rate" => ComparedWith(m, importing[m].against)

(* What is in hand has been compared with all that was stored when its turn *)
(* began, or the finding is with onLeakage().                              *)
AudStrong ==
    /\ window \in Seq(CostSet) /\ Len(window) <= MaxWindow
    /\ \/ playbooks = {}
       \/ \E p : playbooks = {p} /\ 0 < p.savings /\ p.savings <= 10 * p.size * p.cost
    /\ Len(stored) \in Nat /\ stored \in Seq(ToSet(stored))
    /\ importing \in [Imports -> ImportSet]
    /\ \A m \in Imports : ImportOK(m)
    /\ MissedOnlyByOverlap

LEMMA AudInitial == AudInit => AudStrong
<1> SUFFICES ASSUME AudInit PROVE AudStrong
  OBVIOUS
<1>1. window \in Seq(CostSet) /\ Len(window) <= MaxWindow
  BY EmptySeq, AuditorAssumption DEF AudInit
<1>2. Len(stored) \in Nat /\ stored \in Seq(ToSet(stored)) /\ DOMAIN stored = {}
  BY EmptySeq DEF AudInit
<1>3. ASSUME NEW m \in Imports PROVE ImportOK(m)
  <2>1. importing[m] = [batch |-> <<>>, at |-> 1, phase |-> "idle", against |-> 0]
    BY DEF AudInit
  <2>2. /\ importing[m].at = 1 /\ importing[m].phase = "idle" /\ importing[m].against = 0
        /\ Len(importing[m].batch) = 0
    BY <2>1
  <2>3. Len(stored) = 0
    BY DEF AudInit
  <2> QED
    BY <2>2, <2>3 DEF ImportOK
<1>4. MissedOnlyByOverlap
  BY <1>2 DEF MissedOnlyByOverlap
<1>5. importing \in [Imports -> ImportSet]
  BY DEF AudInit, ImportSet
<1>6. playbooks = {}
  BY DEF AudInit
<1> QED
  BY <1>1, <1>2, <1>3, <1>4, <1>5, <1>6 DEF AudStrong

\* What an action claims to save lies between nothing and all of the cost.
LEMMA ClaimIsWithinCost ==
    ASSUME NEW w \in Seq(CostSet), NEW cost \in Nat, Triggered(w, cost),
           NEW category \in {"ORPHANED", "IDLE", "USAGE_SPIKE", "OVER_PROVISIONED"}
    PROVE  0 < ActionSavings(category, w, cost) /\ ActionSavings(category, w, cost) <= 10 * Len(w) * cost
<1> DEFINE n == Len(w)
           D == DOMAIN w
           f == [j \in D |-> w[j].cost]
           sum == SumOver(f, D)
<1>1. n \in Nat /\ D = 1..n /\ \A j \in D : w[j] \in CostSet
  BY LenProperties, ElementOfSeq
<1>2. IsFiniteSet(D)
  <2>1. IsFiniteSet(1..n)
    BY <1>1, FS_Interval
  <2> QED
    BY <1>1, <2>1
<1>3. \A j \in D : f[j] \in Nat
  <2>1. \A j \in D : w[j].cost \in Nat
    BY <1>1, AuditorAssumption DEF CostSet
  <2> QED
    BY <2>1
<1>4. CostSum(w) = sum
  BY DEF CostSum, SumOver, FoldFunction, FoldFunctionOnSet, MapThenSumSet
<1>5. sum \in Nat
  BY <1>2, <1>3, SumNat
<1> HIDE DEF n, D, f, sum
<1>6. Above(w, cost) = n * cost - sum /\ Above(w, cost) > 0
  BY <1>4 DEF Above, Triggered, n
<1>7. n * cost \in Nat
  BY <1>1
<1>8. n * cost > 0 /\ Above(w, cost) <= n * cost
  BY <1>5, <1>6, <1>7
<1>9. 10 * n * cost = 10 * (n * cost) /\ 4 * n * cost = 4 * (n * cost)
  BY <1>1
<1>10. ActionSavings(category, w, cost) \in {10 * n * cost, 4 * n * cost, 10 * Above(w, cost)}
  BY DEF ActionSavings, n
<1>11. Above(w, cost) \in Nat
  BY <1>5, <1>6, <1>7
<1> HIDE DEF Above
<1>12. \A all, above \in Nat : 0 < all /\ 0 < above /\ above <= all =>
           /\ 0 < 10 * all /\ 0 < 4 * all /\ 0 < 10 * above
           /\ 4 * all <= 10 * all /\ 10 * above <= 10 * all
  OBVIOUS
<1>13. /\ 0 < 10 * n * cost /\ 0 < 4 * n * cost /\ 0 < 10 * Above(w, cost)
       /\ 4 * n * cost <= 10 * n * cost /\ 10 * Above(w, cost) <= 10 * n * cost
  BY <1>6, <1>7, <1>8, <1>9, <1>11, <1>12
<1>14. 10 * n * cost <= 10 * n * cost
  BY <1>7, <1>9
<1> QED
  BY <1>10, <1>13, <1>14 DEF n

LEMMA PrunedIsWindow ==
    ASSUME NEW w \in Seq(CostSet), NEW t
    PROVE  PrunedAt(w, t) \in Seq(CostSet)
<1> DEFINE young == {i \in DOMAIN w : w[i].timestamp >= t - 7}
           n == Len(w)
           m == Min(young)
<1>1. n \in Nat /\ DOMAIN w = 1..n /\ \A i \in 1..n : w[i] \in CostSet
  BY LenProperties, ElementOfSeq
<1>2. CASE young = {}
  BY <1>2, EmptySeq DEF PrunedAt
<1>3. CASE young # {}
  <2>1. PrunedAt(w, t) = SubSeq(w, m, n)
    BY <1>3 DEF PrunedAt
  <2>2. IsFiniteSet(1..n) /\ young \subseteq 1..n
    BY <1>1, FS_Interval
  <2>3. IsFiniteSet(young) /\ young \subseteq Int
    BY <1>1, <2>2, FS_Subset
  <2>4. m \in young
    BY <1>3, <2>3, MinIs
  <2>5. m \in 1..n
    BY <2>2, <2>4
  <2> HIDE DEF young, m, n
  <2>6. \A i \in m..n : w[i] \in CostSet
    BY <1>1, <2>5
  <2> QED
    BY <1>1, <2>1, <2>5, <2>6, SubSeqProperties
<1> QED
  BY <1>2, <1>3

LEMMA BillingKeeps ==
    ASSUME AudStrong, NEW cost \in Costs, NEW avg \in Costs, NEW t \in Days,
           NEW active \in BOOLEAN, NEW utilization,
           IngestBilling(cost, t, active, utilization, avg)
    PROVE  AudStrong'
<1> DEFINE w == PrunedAt(window, t)
           category == Classify(active, utilization, cost, avg)
           p == [category |-> category, cost |-> cost, size |-> Len(w),
                 savings |-> ActionSavings(category, w, cost), estimated |-> 5 * Len(w) * cost]
           x == [cost |-> cost, timestamp |-> t]
<1>1. w \in Seq(CostSet) /\ Len(w) \in Nat
  BY PrunedIsWindow, LenProperties DEF AudStrong
<1>2. /\ Len(w) < MaxWindow /\ window' = Append(w, x)
      /\ playbooks' = IF ~Triggered(w, cost) THEN {} ELSE {p}
      /\ UNCHANGED <<stored, importing, reported>>
  BY DEF IngestBilling
<1>3. category \in {"ORPHANED", "IDLE", "USAGE_SPIKE", "OVER_PROVISIONED"}
  BY DEF Classify
<1>4. cost \in Nat /\ MaxWindow \in Nat
  BY AuditorAssumption
<1>5. Triggered(w, cost) => 0 < p.savings /\ p.savings <= 10 * p.size * p.cost
  <2> HIDE DEF w, category
  <2> QED
    BY <1>1, <1>3, <1>4, ClaimIsWithinCost
<1>6. \/ playbooks' = {}
      \/ \E q : playbooks' = {q} /\ 0 < q.savings /\ q.savings <= 10 * q.size * q.cost
  <2> HIDE DEF p, w
  <2> QED
    BY <1>2, <1>5
<1>7. window' \in Seq(CostSet) /\ Len(window') <= MaxWindow
  <2>1. x \in CostSet
    BY DEF CostSet
  <2> HIDE DEF w, x
  <2>2. window' \in Seq(CostSet) /\ Len(window') = Len(w) + 1
    BY <1>1, <1>2, <2>1, AppendProperties
  <2> QED
    BY <1>1, <1>2, <1>4, <2>2
<1>8. MissedOnlyByOverlap'
  BY <1>2 DEF AudStrong, MissedOnlyByOverlap
<1>9. \A m \in Imports : ImportOK(m)'
  BY <1>2 DEF AudStrong, ImportOK, ComparedWith, DuplicateReportedOf, Current
<1> QED
  BY <1>2, <1>6, <1>7, <1>8, <1>9 DEF AudStrong

\* A record more among those stored.
LEMMA RecordStored ==
    ASSUME NEW s, s \in Seq(ToSet(s)), NEW x
    PROVE  /\ Len(s) \in Nat /\ DOMAIN s = 1..Len(s)
           /\ Append(s, x) \in Seq(ToSet(Append(s, x)))
           /\ Len(Append(s, x)) = Len(s) + 1
           /\ DOMAIN Append(s, x) = 1..(Len(s) + 1)
           /\ \A i \in 1..Len(s) : Append(s, x)[i] = s[i]
           /\ Append(s, x)[Len(s) + 1] = x
<1> DEFINE S == ToSet(s) \cup {x}
           a == Append(s, x)
<1>1. s \in Seq(S)
  BY SeqMonotonic
<1>2. Len(s) \in Nat /\ DOMAIN s = 1..Len(s)
  BY <1>1, LenProperties
<1>3. x \in S
  OBVIOUS
<1> HIDE DEF S
<1>4. /\ a \in Seq(S) /\ Len(a) = Len(s) + 1
      /\ \A i \in 1..Len(s) : a[i] = s[i]
      /\ a[Len(s) + 1] = x
  BY <1>1, <1>3, AppendProperties
<1> HIDE DEF a
<1>5. DOMAIN a = 1..Len(a) /\ Len(a) \in Nat /\ a \in [1..Len(a) -> S]
  BY <1>4, LenProperties
<1>6. a \in Seq(ToSet(a))
  <2> DEFINE T == ToSet(a)
             l == Len(a)
  <2>1. \A i \in 1..l : a[i] \in T
    BY <1>5 DEF ToSet
  <2>2. a = [i \in 1..l |-> a[i]]
    BY <1>5
  <2>3. l \in Nat
    BY <1>5
  <2> HIDE DEF T, l
  <2>4. [i \in 1..l |-> a[i]] \in Seq(T)
    BY <2>1, <2>3, IsASeq
  <2>5. a \in Seq(T)
    BY <2>2, <2>4
  <2> QED
    BY <2>5 DEF T
<1>7. DOMAIN a = 1..(Len(s) + 1)
  BY <1>4, <1>5
<1> QED
  BY <1>2, <1>4, <1>6, <1>7 DEF a

\* Storing the record in hand leaves the other imports where they are.
LEMMA StoreKeeps ==
    ASSUME AudStrong, NEW m \in Imports, NEW against \in Nat,
           importing[m].phase \in {"compare", "reporting_duplicate", "reporting_rate"},
           ComparedWith(m, against),
           StoreRecord(m, against)
    PROVE  AudStrong'
<1> DEFINE r == Current(m)
           l == Len(stored)
           x == [key |-> r.key, amount |-> r.amount, day |-> r.day, rate |-> r.rate,
                 by |-> m, at |-> importing[m].at, against |-> against]
<1>1. stored \in Seq(ToSet(stored))
  BY DEF AudStrong
<1>2. stored' = Append(stored, x) /\ UNCHANGED <<window, playbooks, reported>>
  BY DEF StoreRecord
<1>3. x.key = r.key /\ x.amount = r.amount /\ x.day = r.day /\ x.by = m /\ x.at = importing[m].at /\ x.against = against
  OBVIOUS
<1> HIDE DEF x, r
<1>4. l \in Nat /\ DOMAIN stored = 1..l
  BY <1>1, RecordStored
<1>5. /\ stored' \in Seq(ToSet(stored')) /\ Len(stored') = l + 1 /\ DOMAIN stored' = 1..(l + 1)
      /\ \A i \in 1..l : stored'[i] = stored[i]
      /\ stored'[l + 1] = x
  BY <1>1, <1>2, RecordStored
<1> HIDE DEF l
<1>6. \A i \in 1..(l + 1) : i \in 1..l \/ i = l + 1
  BY <1>4
<1>7. Len(stored') \in Nat
  BY <1>4, <1>5
<1>8. MissedOnlyByOverlap'
  <2> SUFFICES ASSUME NEW i \in DOMAIN stored', NEW j \in DOMAIN stored', i < j,
                      SameCharge(stored'[i], stored'[j])
               PROVE  stored'[j].against < i \/ DuplicateReportedOf(stored'[j].by, stored'[j].at)
    BY <1>2 DEF MissedOnlyByOverlap, DuplicateReportedOf
  <2>0. i \in 1..(l + 1) /\ j \in 1..(l + 1)
    BY <1>5
  <2>1. i \in 1..l
    BY <1>4, <2>0
  <2>2. stored'[i] = stored[i] /\ i \in DOMAIN stored
    BY <1>4, <1>5, <2>1
  <2>3. CASE j \in 1..l
    <3>1. stored'[j] = stored[j] /\ j \in DOMAIN stored
      BY <1>4, <1>5, <2>3
    <3>2. SameCharge(stored[i], stored[j])
      BY <2>2, <3>1
    <3>3. stored[j].against < i \/ DuplicateReportedOf(stored[j].by, stored[j].at)
      BY <2>2, <3>1, <3>2 DEF AudStrong, MissedOnlyByOverlap, DuplicateReportedOf
    <3> QED
      BY <3>1, <3>3
  <2>4. CASE j = l + 1
    <3>1. stored'[j] = x
      BY <1>5, <2>4
    <3>2. SameCharge(stored[i], r)
      BY <1>3, <2>2, <3>1 DEF SameCharge
    <3>3. DuplicateReportedOf(m, importing[m].at) \/ ~(i <= against)
      BY <2>2, <3>2 DEF r, ComparedWith
    <3>4. DuplicateReportedOf(m, importing[m].at) \/ against < i
      BY <2>1, <3>3
    <3> QED
      BY <1>3, <3>1, <3>4
  <2> QED
    BY <1>6, <2>0, <2>3, <2>4
<1> DEFINE n == Len(importing[m].batch)
<1>9. /\ importing' = [importing EXCEPT ![m].at = @ + 1,
             ![m].phase = IF importing[m].at = n THEN "done" ELSE "compare"]
      /\ importing \in [Imports -> ImportSet] /\ importing[m] \in ImportSet
  BY DEF StoreRecord, AudStrong
<1>10. importing'[m] = [batch |-> importing[m].batch, at |-> importing[m].at + 1, against |-> importing[m].against,
                        phase |-> IF importing[m].at = n THEN "done" ELSE "compare"]
  BY <1>9 DEF ImportSet
<1>11. importing' \in [Imports -> ImportSet] /\ \A k \in Imports \ {m} : importing'[k] = importing[k]
  <2>1. importing'[m] \in ImportSet
    <3>1. /\ importing[m].batch \in Batches \cup {<<>>} /\ importing[m].at \in Nat
          /\ importing[m].against \in Nat
      BY <1>9 DEF ImportSet
    <3>2. importing[m].at + 1 \in Nat
      BY <3>1
    <3>3. (IF importing[m].at = n THEN "done" ELSE "compare") \in {"compare", "done"}
      OBVIOUS
    <3> HIDE DEF n
    <3> QED
      BY <1>10, <3>1, <3>2, <3>3 DEF ImportSet
  <2>2. /\ \A k \in Imports \ {m} : importing'[k] = importing[k]
        /\ importing' = [k \in Imports |-> importing'[k]]
    BY <1>9
  <2> QED
    BY <1>9, <2>1, <2>2
<1>12. ImportOK(m)'
  <2>1. /\ importing'[m].at = importing[m].at + 1 /\ importing'[m].batch = importing[m].batch
        /\ importing'[m].phase = (IF importing[m].at = n THEN "done" ELSE "compare")
        /\ importing'[m].against = importing[m].against
    BY <1>10
  <2>2. n \in Nat /\ importing[m].at \in 1..n /\ importing[m].against <= l
    BY DEF AudStrong, ImportOK, l
  <2>3. Len(importing'[m].batch) = n
    BY <2>1
  <2>4. importing[m].against \in Nat
    BY <1>9 DEF ImportSet
  <2> HIDE DEF n
  <2>5. importing[m].against <= Len(stored')
    BY <1>4, <1>5, <2>2, <2>4
  <2>6. /\ importing'[m].at \in 1..(n + 1)
        /\ importing'[m].phase \in {"compare", "done"}
        /\ importing'[m].phase = "compare" => importing'[m].at <= n
    BY <2>1, <2>2
  <2> QED
    BY <2>1, <2>2, <2>3, <2>5, <2>6 DEF ImportOK
<1>13. ASSUME NEW k \in Imports \ {m} PROVE ImportOK(k)'
  <2>1. ImportOK(k) /\ importing'[k] = importing[k]
    BY <1>11 DEF AudStrong
  <2>2. importing[k].phase = "reporting_rate" => ComparedWith(k, importing[k].against)'
    <3> SUFFICES ASSUME ComparedWith(k, importing[k].against), importing[k].phase = "reporting_rate" PROVE ComparedWith(k, importing[k].against)'
      BY <2>1 DEF ImportOK
    <3>1. importing[k].against \in Nat /\ importing[k].against <= l
      BY <1>9, <2>1 DEF ImportOK, ImportSet, l
    <3>2. \A i \in DOMAIN stored' : i <= importing[k].against => i \in DOMAIN stored /\ stored'[i] = stored[i]
      <4> SUFFICES ASSUME NEW i \in 1..(l + 1), i <= importing[k].against
                   PROVE  i \in 1..l
        BY <1>4, <1>5
      <4> QED
        BY <1>4, <3>1
    <3>3. CASE DuplicateReportedOf(k, importing[k].at)
      BY <1>2, <2>1, <3>3 DEF ComparedWith, DuplicateReportedOf
    <3>4. CASE \A i \in DOMAIN stored : i <= importing[k].against => ~SameCharge(stored[i], Current(k))
      <4>1. Current(k)' = Current(k)
        BY <2>1 DEF Current
      <4> QED
        BY <2>1, <3>2, <3>4, <4>1 DEF ComparedWith
    <3> QED
      BY <3>3, <3>4 DEF ComparedWith
  <2>3. importing[k].against <= Len(stored')
    <3>1. importing[k].against \in Nat /\ importing[k].against <= l
      BY <1>9, <2>1 DEF ImportOK, ImportSet, l
    <3> QED
      BY <1>4, <1>5, <3>1
  <2> QED
    BY <1>2, <2>1, <2>2, <2>3 DEF ImportOK, DuplicateReportedOf
<1> QED
  BY <1>2, <1>5, <1>7, <1>8, <1>11, <1>12, <1>13 DEF AudStrong

\* Every other step of an import leaves what is stored, and only adds findings.
LEMMA ImportKeeps ==
    ASSUME AudStrong, NEW m \in Imports,
           UNCHANGED <<window, playbooks, stored>>, reported \subseteq reported',
           importing' \in [Imports -> ImportSet],
           \A k \in Imports \ {m} : importing'[k] = importing[k],
           ImportOK(m)'
    PROVE  AudStrong'
<1>1. \A k \in Imports, at \in Nat : DuplicateReportedOf(k, at) => DuplicateReportedOf(k, at)'
  BY DEF DuplicateReportedOf
<1>2. ASSUME NEW k \in Imports \ {m} PROVE ImportOK(k)'
  <2>1. importing'[k] = importing[k] /\ importing[k].at \in Nat /\ ImportOK(k)
    BY DEF AudStrong, ImportSet
  <2>2. DuplicateReportedOf(k, importing[k].at) => DuplicateReportedOf(k, importing[k].at)'
    BY DEF DuplicateReportedOf
  <2>3. Current(k)' = Current(k)
    BY <2>1 DEF Current
  <2>4. ComparedWith(k, importing[k].against) => ComparedWith(k, importing[k].against)'
    BY <2>1, <2>2, <2>3 DEF ComparedWith, DuplicateReportedOf
  <2> QED
    BY <2>1, <2>2, <2>4 DEF ImportOK, ComparedWith, DuplicateReportedOf
<1>3. MissedOnlyByOverlap'
  BY DEF AudStrong, MissedOnlyByOverlap
<1>4. \A k \in Imports : ImportOK(k)'
  BY <1>2
<1> QED
  BY <1>3, <1>4 DEF AudStrong

\* A finding is handed over, and its record compared with as many as before.
LEMMA WaitsKeeps ==
    ASSUME AudStrong, NEW m \in Imports, NEW reason,
           NEW phase \in {"reporting_duplicate", "reporting_rate"}, NEW against \in Nat,
           against <= Len(stored),
           importing[m].phase \in {"compare", "reporting_duplicate", "reporting_rate"},
           phase = "reporting_duplicate" => reason = "duplicate_charge",
           phase = "reporting_rate" => ComparedWith(m, against),
           Waits(m, reason, phase, against)
    PROVE  AudStrong'
<1> DEFINE n == Len(importing[m].batch)
           finding == Finding(m, reason)
<1>1. /\ reported' = reported \cup {finding} /\ UNCHANGED <<window, playbooks, stored>>
      /\ importing' = [importing EXCEPT ![m].phase = phase, ![m].against = against]
      /\ importing \in [Imports -> ImportSet] /\ importing[m] \in ImportSet
  BY DEF Waits, AudStrong
<1>2. importing'[m] = [batch |-> importing[m].batch, at |-> importing[m].at, against |-> against, phase |-> phase]
  BY <1>1 DEF ImportSet
<1>3. importing' \in [Imports -> ImportSet] /\ \A k \in Imports \ {m} : importing'[k] = importing[k]
  <2>1. importing'[m] \in ImportSet
    <3>1. importing[m].batch \in Batches \cup {<<>>} /\ importing[m].at \in Nat
      BY <1>1 DEF ImportSet
    <3> QED
      BY <1>2, <3>1 DEF ImportSet
  <2>2. /\ \A k \in Imports \ {m} : importing'[k] = importing[k]
        /\ importing' = [k \in Imports |-> importing'[k]]
    BY <1>1
  <2> QED
    BY <1>1, <2>1, <2>2
<1>4. /\ importing'[m].batch = importing[m].batch /\ importing'[m].at = importing[m].at
      /\ importing'[m].against = against /\ importing'[m].phase = phase
  BY <1>2
<1>5. n \in Nat /\ importing[m].at \in 1..(n + 1) /\ importing[m].at <= n
  BY DEF AudStrong, ImportOK
<1>6. finding.by = m /\ finding.at = importing[m].at /\ finding.reason = reason
  BY DEF Finding
<1> HIDE DEF finding
<1>7. phase = "reporting_duplicate" => DuplicateReportedOf(m, importing[m].at)'
  <2> SUFFICES ASSUME phase = "reporting_duplicate"
               PROVE  \E f \in reported' : f.by = m /\ f.at = importing'[m].at /\ f.reason = "duplicate_charge"
    BY DEF DuplicateReportedOf
  <2> QED
    BY <1>1, <1>4, <1>6
<1>8. phase = "reporting_rate" => ComparedWith(m, importing[m].against)'
  <2> SUFFICES ASSUME phase = "reporting_rate"
               PROVE  ComparedWith(m, importing[m].against)'
    OBVIOUS
  <2>1. Current(m)' = Current(m)
    BY <1>4 DEF Current
  <2>2. CASE DuplicateReportedOf(m, importing[m].at)
    <3>1. DuplicateReportedOf(m, importing[m].at)'
      BY <1>1, <1>4, <2>2 DEF DuplicateReportedOf
    <3> QED
      BY <3>1 DEF ComparedWith
  <2>3. CASE \A i \in DOMAIN stored : i <= against => ~SameCharge(stored[i], Current(m))
    BY <1>1, <1>4, <2>1, <2>3 DEF ComparedWith
  <2> QED
    BY <2>2, <2>3 DEF ComparedWith
<1>9. ImportOK(m)'
  BY <1>1, <1>4, <1>5, <1>7, <1>8 DEF ImportOK
<1>10. reported \subseteq reported'
  BY <1>1
<1> QED
  BY <1>1, <1>3, <1>9, <1>10, ImportKeeps

LEMMA FinishKeeps ==
    ASSUME AudStrong, NEW m \in Imports, NEW against \in Nat, against <= Len(stored),
           importing[m].phase \in {"compare", "reporting_duplicate", "reporting_rate"},
           ComparedWith(m, against), FinishRecord(m, against)
    PROVE  AudStrong'
<1>1. CASE Waits(m, "rate_optimization", "reporting_rate", against)
  BY <1>1, WaitsKeeps
<1>2. CASE StoreRecord(m, against)
  BY <1>2, StoreKeeps
<1> QED
  BY <1>1, <1>2 DEF FinishRecord

LEMMA CompareKeeps ==
    ASSUME AudStrong, NEW m \in Imports, CompareRecord(m)
    PROVE  AudStrong'
<1>1. importing[m].phase = "compare" /\ Len(stored) \in Nat
  BY DEF CompareRecord, AudStrong
<1>2. CASE Waits(m, "duplicate_charge", "reporting_duplicate", Len(stored))
  BY <1>1, <1>2, WaitsKeeps
<1>3. CASE DuplicatesOf(Current(m)) = {} /\ FinishRecord(m, Len(stored))
  <2>1. \A i \in DOMAIN stored : ~SameCharge(stored[i], Current(m))
    BY <1>3 DEF DuplicatesOf, ToSet
  <2>2. ComparedWith(m, Len(stored))
    BY <2>1 DEF ComparedWith
  <2> QED
    BY <1>1, <1>3, <2>2, FinishKeeps
<1> QED
  BY <1>2, <1>3 DEF CompareRecord

LEMMA ReportedKeeps ==
    ASSUME AudStrong, NEW m \in Imports, DuplicateReported(m) \/ RateReported(m)
    PROVE  AudStrong'
<1>1. importing[m].against \in Nat /\ importing[m].against <= Len(stored) /\ ImportOK(m)
  BY DEF AudStrong, ImportSet, ImportOK
<1>2. CASE DuplicateReported(m)
  <2>1. importing[m].phase = "reporting_duplicate" /\ FinishRecord(m, importing[m].against)
    BY <1>2 DEF DuplicateReported
  <2>2. ComparedWith(m, importing[m].against)
    BY <1>1, <2>1 DEF ImportOK, ComparedWith
  <2> QED
    BY <1>1, <2>1, <2>2, FinishKeeps
<1>3. CASE RateReported(m)
  <2>1. importing[m].phase = "reporting_rate" /\ StoreRecord(m, importing[m].against)
    BY <1>3 DEF RateReported
  <2>2. ComparedWith(m, importing[m].against)
    BY <1>1, <2>1 DEF ImportOK
  <2> QED
    BY <1>1, <2>1, <2>2, StoreKeeps
<1> QED
  BY <1>2, <1>3

LEMMA BeginKeeps ==
    ASSUME AudStrong, NEW m \in Imports, NEW batch \in Batches, Begin(m, batch)
    PROVE  AudStrong'
<1> DEFINE x == [batch |-> batch, at |-> 1, phase |-> "compare", against |-> 0]
<1>1. importing' = [importing EXCEPT ![m] = x] /\ importing \in [Imports -> ImportSet]
      /\ UNCHANGED <<window, playbooks, stored, reported>>
  BY DEF Begin, AudStrong
<1>2. x \in ImportSet
  BY DEF ImportSet
<1>3. x.batch = batch /\ x.at = 1 /\ x.phase = "compare" /\ x.against = 0
  OBVIOUS
<1> HIDE DEF x
<1>4. /\ importing' \in [Imports -> ImportSet] /\ importing'[m] = x
      /\ \A k \in Imports \ {m} : importing'[k] = importing[k]
  BY <1>1, <1>2
<1>5. Len(batch) \in Nat \ {0} /\ Len(stored) \in Nat
  BY AuditorAssumption DEF AudStrong
<1>6. ImportOK(m)'
  <2>1. Len(importing'[m].batch) = Len(batch) /\ Len(stored') = Len(stored)
    BY <1>1, <1>3, <1>4
  <2>2. /\ importing'[m].at = 1 /\ importing'[m].phase = "compare" /\ importing'[m].against = 0
    BY <1>3, <1>4
  <2> QED
    BY <1>5, <2>1, <2>2 DEF ImportOK
<1> QED
  BY <1>1, <1>4, <1>6, ImportKeeps

LEMMA RejectKeeps ==
    ASSUME AudStrong, NEW m \in Imports, ReportRejects(m)
    PROVE  AudStrong'
<1>1. /\ importing' = [importing EXCEPT ![m].phase = "failed"]
      /\ importing \in [Imports -> ImportSet] /\ importing[m] \in ImportSet
      /\ UNCHANGED <<window, playbooks, stored, reported>>
  BY DEF ReportRejects, AudStrong
<1>2. importing'[m] = [batch |-> importing[m].batch, at |-> importing[m].at,
                       against |-> importing[m].against, phase |-> "failed"]
  BY <1>1 DEF ImportSet
<1>3. importing' \in [Imports -> ImportSet] /\ \A k \in Imports \ {m} : importing'[k] = importing[k]
  <2>1. importing'[m] \in ImportSet
    <3>1. /\ importing[m].batch \in Batches \cup {<<>>} /\ importing[m].at \in Nat
          /\ importing[m].against \in Nat
      BY <1>1 DEF ImportSet
    <3> QED
      BY <1>2, <3>1 DEF ImportSet
  <2>2. /\ \A k \in Imports \ {m} : importing'[k] = importing[k]
        /\ importing' = [k \in Imports |-> importing'[k]]
    BY <1>1
  <2> QED
    BY <1>1, <2>1, <2>2
<1>4. /\ importing'[m].batch = importing[m].batch /\ importing'[m].at = importing[m].at
      /\ importing'[m].against = importing[m].against /\ importing'[m].phase = "failed"
  BY <1>2
<1>5. ImportOK(m)'
  BY <1>1, <1>4 DEF AudStrong, ImportOK
<1> QED
  BY <1>1, <1>3, <1>5, ImportKeeps

LEMMA SeedHistoryKeeps ==
    ASSUME AudStrong, NEW cost \in Costs, NEW t \in Days, SeedHistory(cost, t)
    PROVE  AudStrong'
<1> DEFINE x == [cost |-> cost, timestamp |-> t]
<1>1. /\ Len(window) < MaxWindow /\ window' = Append(window, x)
      /\ UNCHANGED <<playbooks, stored, importing, reported>>
  BY DEF SeedHistory
<1>2. window \in Seq(CostSet) /\ Len(window) \in Nat /\ MaxWindow \in Nat
  BY LenProperties, AuditorAssumption DEF AudStrong
<1>3. x \in CostSet
  BY DEF CostSet
<1> HIDE DEF x
<1>4. window' \in Seq(CostSet) /\ Len(window') = Len(window) + 1
  BY <1>1, <1>2, <1>3, AppendProperties
<1>5. Len(window') <= MaxWindow
  BY <1>1, <1>2, <1>4
<1>6. MissedOnlyByOverlap'
  BY <1>1 DEF AudStrong, MissedOnlyByOverlap
<1>7. \A m \in Imports : ImportOK(m)'
  BY <1>1 DEF AudStrong, ImportOK, ComparedWith, DuplicateReportedOf, Current
<1> QED
  BY <1>1, <1>4, <1>5, <1>6, <1>7 DEF AudStrong

LEMMA AudStep == AudStrong /\ [AudNext]_audVars => AudStrong'
<1> SUFFICES ASSUME AudStrong, [AudNext]_audVars PROVE AudStrong'
  OBVIOUS
<1>1. CASE AudDetectNext
  <2>1. CASE \E cost, avg \in Costs, t \in Days, active \in BOOLEAN, utilization \in Utilizations :
                 IngestBilling(cost, t, active, utilization, avg)
    <3>1. PICK cost \in Costs, avg \in Costs, t \in Days, active \in BOOLEAN, utilization \in Utilizations :
                   IngestBilling(cost, t, active, utilization, avg)
      BY <2>1
    <3> QED
      BY <3>1, BillingKeeps
  <2>2. CASE \E cost \in Costs, t \in Days : SeedHistory(cost, t)
    BY <2>2, SeedHistoryKeeps
  <2> QED
    BY <1>1, <2>1, <2>2 DEF AudDetectNext
<1>2. CASE AudImportNext
  BY <1>2, BeginKeeps, CompareKeeps, ReportedKeeps, RejectKeeps DEF AudImportNext
<1>3. CASE UNCHANGED audVars
  <2>1. UNCHANGED <<window, playbooks, stored, importing, reported>>
    BY <1>3 DEF audVars
  <2>2. MissedOnlyByOverlap'
    BY <2>1 DEF AudStrong, MissedOnlyByOverlap
  <2>3. \A m \in Imports : ImportOK(m)'
    BY <2>1 DEF AudStrong, ImportOK, ComparedWith, DuplicateReportedOf, Current
  <2> QED
    BY <2>1, <2>2, <2>3 DEF AudStrong
<1> QED
  BY <1>1, <1>2, <1>3 DEF AudNext

(* The records in hand stay compared through every interleaving of the     *)
(* imports in vendor-ingestion.ts and every order of the billing events    *)
(* that anomaly-detector.ts is given.                                      *)
THEOREM AuditorInvariance == AudSpec => []AudStrong
  BY AudInitial, AudStep, PTL DEF AudSpec

(* What a playbook claims to save is more than nothing and never more than  *)
(* the cost, and a duplicate slips by only where imports overlap: for every *)
(* window, number of imports, batch and tolerance.                         *)
THEOREM AuditorInvHolds == AudSpec => []AuditorInv
<1>1. AudStrong => AuditorInv
  <2> SUFFICES ASSUME AudStrong PROVE AuditorInv
    OBVIOUS
  <2>1. Cardinality(playbooks) <= 1
    <3>1. CASE playbooks = {}
      BY <3>1, FS_EmptySet
    <3>2. CASE \E p : playbooks = {p}
      <4>1. PICK p : playbooks = {p}
        BY <3>2
      <4>2. Cardinality({p}) = 1
        BY FS_Singleton
      <4> QED
        BY <4>1, <4>2
    <3> QED
      BY <3>1, <3>2 DEF AudStrong
  <2>2. \A m \in Imports : importing[m].at \in 1..(Len(importing[m].batch) + 1)
    BY DEF AudStrong, ImportOK
  <2>3. ClaimsAreWithinCost
    BY DEF AudStrong, ClaimsAreWithinCost
  <2> QED
    BY <2>1, <2>2, <2>3 DEF AudStrong, AuditorInv, AudTypeOK
<1> QED
  BY <1>1, AuditorInvariance, PTL
=============================================================================
