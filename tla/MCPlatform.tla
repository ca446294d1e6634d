------------------------------ MODULE MCPlatform ------------------------------
(* The components around the agents: their protocols; ingestion and messaging; *)
(* the stores, the databases and the provisioner; reasoning and security. They  *)
(* share no state in the code, so one part of one component moves at a time,    *)
(* and each invariant joins those of components that serve one purpose.         *)
EXTENDS AP2, A2A, MCP, Ingestion, Messaging, Stores, Databases, Provisioner, Reasoning, Security
VARIABLE part

\* A row of the cost export, with and without the owner it must carry.
row == [id |-> "g", labels |-> [owner |-> "value"], cost_amount |-> 10, rate |-> "unknown",
        period |-> 0, type |-> [exact |-> "none", similar |-> <<>>]]
unlabelled == [row EXCEPT !.labels = [owner |-> "blank"]]
providers == <<"AWS", "AZURE", "GCP">>
answers == {<<>>, <<unlabelled, row>>}

cacheResource == [k1 |-> "r1", k2 |-> "r1", k3 |-> "r2"]

\* Conclusions by the words that decide whether two contradict each other.
conclusions ==
    {[text |-> "a", words |-> {"safe"}], [text |-> "b", words |-> {"safe", "unsafe"}],
     [text |-> "c", words |-> {"increase"}], [text |-> "d", words |-> {"decrease"}],
     [text |-> "e", words |-> {"safe", "unsafe"}]}
claimOutcomes == {<<>>, <<TRUE>>, <<FALSE, TRUE>>, <<FALSE, FALSE>>}

a2aHandlers == {[agent_id |-> "a", tenant_id |-> "t1", secret |-> "k1"],
                [agent_id |-> "b", tenant_id |-> "t1", secret |-> "k2"],
                [agent_id |-> "b", tenant_id |-> "t2", secret |-> "k1"]}
a2aCards == {[agent_id |-> "a", tenant_id |-> "t1", trust_level |-> "internal"],
             [agent_id |-> "b", tenant_id |-> "t2", trust_level |-> "platform-trusted"],
             [agent_id |-> "b", tenant_id |-> "t2", trust_level |-> "untrusted"]}

keyTenants == [k1 |-> "t1", k2 |-> "t2"]

protocolVars == <<vars, a2aVars, mcpVars>>
deliveryVars == <<ingestVars, messagingVars>>
storageVars == <<storesVars, databasesVars, provisionVars>>
decisionVars == <<reasoningVars, securityVars>>
platformVars == <<part, protocolVars, deliveryVars, storageVars, decisionVars>>

PlatformInit ==
    /\ Init /\ A2AInit
    /\ IngestInit /\ MessagingInit /\ StoresInit /\ DatabasesInit
    /\ ProvisionInit /\ ReasoningInit /\ SecurityInit
    /\ part \in {"transactions", "messages", "trust", "coordination", "stream", "requests",
                 "polls", "records", "producer", "kill-switch consumer", "consumer", "topics",
                 "spend", "health", "plans", "twins", "clients", "pool", "bootstrap",
                 "provision", "budget", "chains", "claims", "keys"}
    /\ MCPInit /\ (part # "stream" => payload = <<>>) /\ (part # "bootstrap" => objects = {})

Exchange == \/ part = "messages" /\ A2AMessageNext
            \/ part = "trust" /\ A2ATrustNext
            \/ part = "coordination" /\ A2ACoordinationNext
Submit == \/ part = "stream" /\ MCPStreamNext
          \/ part = "requests" /\ MCPHandleNext
Ingest == \/ part = "polls" /\ IngestPollNext
          \/ part = "records" /\ IngestRecordNext
Deliver == \/ part = "producer" /\ ProducerNext
           \/ part = "kill-switch consumer" /\ KsConsumerNext
           \/ part = "consumer" /\ RecordNext
           \/ part = "topics" /\ TopicNext
Store == \/ part = "spend" /\ DowStoreNext
         \/ part = "health" /\ HealthNext
         \/ part = "plans" /\ PlanNext
         \/ part = "twins" /\ TwinNext
         \/ part = "clients" /\ SingletonNext
Query == \/ part = "pool" /\ PoolNext
         \/ part = "bootstrap" /\ BootstrapNext
Reason == \/ part = "budget" /\ CostNext
          \/ part = "chains" /\ ChainArrives
          \/ part = "claims" /\ ValidateClaims

PlatformNext ==
    /\ part' = part
    /\ \/ part = "transactions" /\ Next /\ UNCHANGED <<a2aVars, mcpVars, deliveryVars, storageVars, decisionVars>>
       \/ Exchange /\ UNCHANGED <<vars, mcpVars, deliveryVars, storageVars, decisionVars>>
       \/ Submit /\ UNCHANGED <<vars, a2aVars, deliveryVars, storageVars, decisionVars>>
       \/ Ingest /\ UNCHANGED <<protocolVars, messagingVars, storageVars, decisionVars>>
       \/ Deliver /\ UNCHANGED <<protocolVars, ingestVars, storageVars, decisionVars>>
       \/ Store /\ UNCHANGED <<protocolVars, deliveryVars, databasesVars, provisionVars, decisionVars>>
       \/ Query /\ UNCHANGED <<protocolVars, deliveryVars, storesVars, provisionVars, decisionVars>>
       \/ part = "provision" /\ ProvisionNext /\ UNCHANGED <<protocolVars, deliveryVars, storesVars, databasesVars, decisionVars>>
       \/ Reason /\ UNCHANGED <<protocolVars, deliveryVars, storageVars, securityVars>>
       \/ part = "keys" /\ SecurityNext /\ UNCHANGED <<protocolVars, deliveryVars, storageVars, reasoningVars>>

PlatformSpec == PlatformInit /\ [][PlatformNext]_platformVars

\* Transactions are only compared.
Symmetry == Permutations(Transactions)

-----------------------------------------------------------------------------
\* A protocol keeps what it promises the other end, one message or one chunk at a time.
ProtocolsInv == TypeOK /\ A2AInv /\ MCPInv

\* From the row of a provider to the topics and the agents that consume them, nothing is
\* lost without being reported, and nothing is told of a halt that was not ordered.
PipelineInv == IngestInv /\ MessagingInv

\* Clients that overlap in a shared store, a pool or a cluster leave it as each of them
\* was told they did.
StorageInv == StoresInv /\ DatabaseInv /\ ProvisionInv

\* Spending, verdicts and permissions are decided on what holds when they are decided.
DecisionInv == ReasoningInv /\ SecurityInv
=============================================================================
