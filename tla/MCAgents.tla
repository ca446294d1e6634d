------------------------------- MODULE MCAgents -------------------------------
(* Small instances of the agents. They share no state, and neither do the  *)
(* parts of some of them, so a behaviour explores one part, which `part`   *)
(* names: the state space is the sum of theirs and not the product.        *)
EXTENDS Orchestrator, Governor, SlaTwin, Auditor, Finance, Carbon

VARIABLE part

orchHandles == {[agentId |-> "a", agentType |-> "AUDITOR", tenantId |-> "t1"],
                [agentId |-> "s", agentType |-> "STANDBY", tenantId |-> "t1"],
                [agentId |-> "s", agentType |-> "AUDITOR", tenantId |-> "t2"]}
orchEvents == {[type |-> "CostLeakageEvent", tenant_id |-> "t1"]}
contracts == {[terms |-> <<[metric_name |-> "l", threshold |-> 10],
                           [metric_name |-> "e", threshold |-> 10]>>,
               fee |-> 100, minor |-> 5, major |-> 10],
              [terms |-> <<[metric_name |-> "e", threshold |-> 9]>>,
               fee |-> 100, minor |-> 5, major |-> 5]}
vendorRecords == {[key |-> "k", amount |-> 1, day |-> 1, rate |-> 1],
                  [key |-> "k", amount |-> 1, day |-> 2, rate |-> 2],
                  [key |-> "l", amount |-> 1, day |-> 1, rate |-> 1]}
batches == {<<x, y>> : x, y \in vendorRecords}

allVars == <<part, orchVars, govVars, slaVars, audVars, finVars, carbonVars>>

AgentsInit ==
    /\ OrchInit /\ GovInit /\ SlaInit /\ AudInit /\ FinInit /\ CarbonInit
    /\ part \in {"health", "requests", "monitor", "sanitize", "tags", "sla", "detect", "import",
                 "reconcile", "roi", "feed", "schedule"}

Orchestrate == \/ part = "health" /\ OrchHealthNext
               \/ part = "requests" /\ OrchA2ANext
Govern == \/ part = "monitor" /\ GovMonitorNext
          \/ part = "sanitize" /\ GovSanitizeNext
          \/ part = "tags" /\ GovTagNext
Audit == \/ part = "detect" /\ AudDetectNext
         \/ part = "import" /\ AudImportNext
Reckon == \/ part = "reconcile" /\ FinReconcileNext
          \/ part = "roi" /\ FinROINext
Shift == \/ part = "feed" /\ CarbonFeedNext
         \/ part = "schedule" /\ CarbonScheduleNext

AgentsNext ==
    /\ part' = part
    /\ \/ Orchestrate /\ UNCHANGED <<govVars, slaVars, audVars, finVars, carbonVars>>
       \/ Govern /\ UNCHANGED <<orchVars, slaVars, audVars, finVars, carbonVars>>
       \/ part = "sla" /\ SlaNext /\ UNCHANGED <<orchVars, govVars, audVars, finVars, carbonVars>>
       \/ Audit /\ UNCHANGED <<orchVars, govVars, slaVars, finVars, carbonVars>>
       \/ Reckon /\ UNCHANGED <<orchVars, govVars, slaVars, audVars, carbonVars>>
       \/ Shift /\ UNCHANGED <<orchVars, govVars, slaVars, audVars, finVars>>

AgentsSpec == AgentsInit /\ [][AgentsNext]_allVars /\ OrchFairness

\* The part that polls the agents' health alone.
HealthSpec == AgentsInit /\ part = "health" /\ [][AgentsNext]_allVars /\ OrchFairness

=============================================================================
