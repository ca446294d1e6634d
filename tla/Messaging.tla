-------------------------------- MODULE Messaging --------------------------------
(***************************************************************************)
(* The Kafka clients of src/src/infrastructure/kafka: EchoProducer           *)
(* (producer.ts), whose connection is made on first use, KillSwitchConsumer  *)
(* (kill-switch-consumer.ts), and EchoKafkaAdmin with the names of topics    *)
(* and the access lists (admin.ts, topics.ts, acl.ts). EchoConsumer          *)
(* (consumer.ts) and EchoKafkaAdmin connect as the producer does, and        *)
(* EchoConsumer delivers as the kill-switch consumer does.                  *)
(* Brokers and kafkajs are external: a client that is closed refuses, a      *)
(* record is stored, refused, or stored and reported as refused, and a       *)
(* record whose handler rejects, or whose offset is not committed, comes     *)
(* again, if there is an offset to come back to.                            *)
(***************************************************************************)
EXTENDS Integers, Sequences, FiniteSets, SequencesExt

CONSTANTS
    Publications,   \* the calls of publishGovernanceEvent()
    KillEvents,     \* those whose event is of type KILL_SWITCH_ACTIVATED
    StartCalls,     \* the calls of start() of one kill-switch consumer
    StopCalls,      \* the calls of its stop()
    MaxRecords,     \* bound on the records of governance.kill_switch
    TopicTenants,   \* the tenants whose topics are administered, by any name tenantTopic() takes
    EventTypes,     \* the last parts of topic names
    MaxClients      \* bound on the producers created

ASSUME MessagingAssumption ==
    KillEvents \subseteq Publications /\ MaxRecords \in Nat /\ MaxClients \in Nat

VARIABLES
    producer,       \* this.producer: the client, or none
    clients,        \* of each client made: connecting, connected, failed or closed
    publication,    \* of each call: [phase, topic, client]
    disconnects,    \* the calls of disconnect() that await
    stored,         \* the events stored, as [topic, of]
    ksConsumer,     \* this.consumer: the client, or none
    running,        \* this.running
    ksClients,      \* of each client made: open, subscribed, consuming, or closed
    starts, stops,  \* of each call: [phase, client]
    disturbed,      \* a start() failed, or calls overlapped (history)
    records,        \* of a partition of governance.kill_switch: whether each can be read
    expired,        \* those that retention has removed
    offset,         \* the committed offset of the consumer group, or none
    position,       \* where its consumer reads, or none
    handled,        \* the records the handler was called with, in order
    subscribedAt,   \* where the group's first consumer began (history)
    resumedAt,      \* where the last one began that had no offset to resume from (history)
    topics,         \* the topics that exist, as [first, rest]
    systemCreated,  \* createSystemTopics() has returned (history)
    deletion        \* the call of deleteTenantTopics(): [busy, listed]

producerVars == <<producer, clients, publication, disconnects, stored>>
ksVars == <<ksConsumer, running, ksClients, starts, stops, disturbed>>
recordVars == <<records, expired, offset, position, handled, subscribedAt, resumedAt>>
topicVars == <<topics, systemCreated, deletion>>
messagingVars == <<producerVars, ksVars, recordVars, topicVars>>

NoClient == 0
Idle == [phase |-> "idle", client |-> NoClient]
NoOffset == -1
NoDeletion == [busy |-> FALSE, listed |-> {}]

MessagingInit ==
    /\ producer = NoClient /\ clients = <<>> /\ disconnects = 0 /\ stored = {}
    /\ publication = [c \in Publications |-> [phase |-> "idle", topic |-> "none", client |-> NoClient]]
    /\ ksConsumer = NoClient /\ running = FALSE /\ ksClients = <<>> /\ disturbed = FALSE
    /\ starts = [c \in StartCalls |-> Idle] /\ stops = [c \in StopCalls |-> Idle]
    /\ records = <<>> /\ expired = 0 /\ handled = <<>> /\ offset = NoOffset /\ position = NoOffset
    /\ subscribedAt = NoOffset /\ resumedAt = 0
    /\ topics = {} /\ systemCreated = FALSE /\ deletion = NoDeletion

-----------------------------------------------------------------------------
(* The producer.                                                           *)
\* publish() up to its first await. getProducer() sets the field before the connection
\* is awaited: a call that comes meanwhile goes on with the client as it is.
BeginPublish(c, topic) ==
    \/ /\ producer # NoClient
       /\ publication' = [publication EXCEPT ![c] = [phase |-> "sending", topic |-> topic, client |-> producer]]
       /\ UNCHANGED <<producer, clients>>
    \/ /\ producer = NoClient /\ Len(clients) < MaxClients
       /\ clients' = Append(clients, "connecting")
       /\ producer' = Len(clients')
       /\ publication' = [publication EXCEPT ![c] = [phase |-> "connecting", topic |-> topic, client |-> producer']]

Publish(c) ==
    /\ publication[c].phase = "idle"
    /\ BeginPublish(c, "governance")
    /\ UNCHANGED <<disconnects, stored, ksVars, recordVars, topicVars>>

\* getProducer() returns this.producer, which may be none by now. A client that failed
\* to connect stays in the field.
ConnectReturns(c, ok) ==
    /\ publication[c].phase = "connecting"
    /\ clients' = [clients EXCEPT ![publication[c].client] =
           IF @ = "closed" THEN @ ELSE IF ok THEN "connected" ELSE "failed"]
    /\ publication' = [publication EXCEPT ![c].client = producer,
           ![c].phase = IF ok /\ producer # NoClient THEN "sending" ELSE "rejected"]
    /\ UNCHANGED <<producer, disconnects, stored, ksVars, recordVars, topicVars>>

\* publishGovernanceEvent(): the topic after `topic`.
TopicAfter(c, topic) == IF topic = "governance" /\ c \in KillEvents THEN "kill_switch" ELSE "none"

MayAccept(c) == publication[c].client # NoClient /\ clients[publication[c].client] \in {"connecting", "connected"}
InTopic(c) == [topic |-> publication[c].topic, of |-> c]

SendReturns(c) ==
    /\ publication[c].phase = "sending" /\ MayAccept(c)
    /\ stored' = stored \cup {InTopic(c)}
    /\ LET next == TopicAfter(c, publication[c].topic)
       IN  \/ /\ next # "none"
              /\ BeginPublish(c, next)
           \/ /\ next = "none"
              /\ publication' = [publication EXCEPT ![c].phase = "done"]
              /\ UNCHANGED <<producer, clients>>
    /\ UNCHANGED <<disconnects, ksVars, recordVars, topicVars>>

SendRejects(c) ==
    /\ publication[c].phase = "sending"
    /\ publication' = [publication EXCEPT ![c].phase = "rejected"]
    /\ stored' \in {stored} \cup (IF MayAccept(c) THEN {stored \cup {InTopic(c)}} ELSE {})
    /\ UNCHANGED <<producer, clients, disconnects, ksVars, recordVars, topicVars>>

\* disconnect(): the field is cleared only afterwards, whatever it names by then.
Disconnect ==
    /\ producer # NoClient /\ disconnects < 2
    /\ clients' = [clients EXCEPT ![producer] = "closed"]
    /\ disconnects' = disconnects + 1
    /\ UNCHANGED <<producer, publication, stored, ksVars, recordVars, topicVars>>

DisconnectReturns ==
    /\ disconnects > 0
    /\ producer' = NoClient
    /\ disconnects' = disconnects - 1
    /\ UNCHANGED <<clients, publication, stored, ksVars, recordVars, topicVars>>

-----------------------------------------------------------------------------
(* Start and stop of the kill-switch consumer. Each step of start() is a    *)
(* call on what this.consumer names at that moment; of none it throws.      *)
Waiting(calls) == {c \in DOMAIN calls : calls[c].client # NoClient}
Quiet == Waiting(starts) = {} /\ Waiting(stops) = {}

Start(c) ==
    /\ starts[c].phase = "idle"
    /\ \/ /\ running
          /\ starts' = [starts EXCEPT ![c].phase = "done"]
          /\ UNCHANGED <<ksConsumer, ksClients, disturbed>>
       \/ /\ ~running
          /\ ksClients' = Append(ksClients, "open")
          /\ ksConsumer' = Len(ksClients')
          /\ starts' = [starts EXCEPT ![c] = [phase |-> "connect", client |-> ksConsumer']]
          /\ disturbed' = (disturbed \/ ~Quiet)
    /\ UNCHANGED <<running, stops, producerVars, recordVars, topicVars>>

Calls(c, phase) ==
    IF ksConsumer = NoClient THEN [phase |-> "failed", client |-> NoClient]
    ELSE [phase |-> phase, client |-> ksConsumer]

ConnectedConsumer(c) ==
    /\ starts[c].phase = "connect"
    /\ starts' = [starts EXCEPT ![c] = Calls(c, "subscribe")]
    /\ UNCHANGED <<ksConsumer, running, ksClients, stops, disturbed, producerVars, recordVars, topicVars>>

\* The flag is set before run() is called.
Subscribed(c) ==
    /\ starts[c].phase = "subscribe"
    /\ ksClients' = [ksClients EXCEPT ![starts[c].client] = IF @ = "open" THEN "subscribed" ELSE @]
    /\ running' = TRUE
    /\ starts' = [starts EXCEPT ![c] = Calls(c, "run")]
    /\ UNCHANGED <<ksConsumer, stops, disturbed, producerVars, recordVars, topicVars>>

\* A client that was closed meanwhile may come to life again.
RunReturns(c) ==
    /\ starts[c].phase = "run"
    /\ \E revived \in BOOLEAN :
           ksClients' = [ksClients EXCEPT ![starts[c].client] =
               IF @ = "subscribed" \/ (@ = "closed" /\ revived) THEN "consuming" ELSE @]
    /\ starts' = [starts EXCEPT ![c] = [phase |-> "done", client |-> NoClient]]
    /\ UNCHANGED <<ksConsumer, running, stops, disturbed, producerVars, recordVars, topicVars>>

StartRejects(c) ==
    /\ starts[c].client # NoClient
    /\ starts' = [starts EXCEPT ![c] = [phase |-> "failed", client |-> NoClient]]
    /\ disturbed' = TRUE
    /\ UNCHANGED <<ksConsumer, running, ksClients, stops, producerVars, recordVars, topicVars>>

\* Mutant: the flag is left as it is.
StillRunning == running
RunningAfterStop == FALSE

Stop(c) ==
    /\ stops[c].phase = "idle"
    /\ \/ /\ ksConsumer = NoClient
          /\ stops' = [stops EXCEPT ![c].phase = "done"]
          /\ UNCHANGED <<running, ksClients, disturbed>>
       \/ /\ ksConsumer # NoClient
          /\ running' = RunningAfterStop
          /\ ksClients' = [ksClients EXCEPT ![ksConsumer] = "closed"]
          /\ stops' = [stops EXCEPT ![c] = [phase |-> "disconnect", client |-> ksConsumer]]
          /\ disturbed' = (disturbed \/ ~Quiet)
    /\ UNCHANGED <<ksConsumer, starts, producerVars, recordVars, topicVars>>

StopReturns(c) ==
    /\ stops[c].phase = "disconnect"
    /\ ksConsumer' = NoClient
    /\ stops' = [stops EXCEPT ![c] = [phase |-> "done", client |-> NoClient]]
    /\ UNCHANGED <<running, ksClients, starts, disturbed, producerVars, recordVars, topicVars>>

\* disconnect() rejects: this.consumer stays, and its client may have gone on.
StopRejects(c) ==
    /\ stops[c].phase = "disconnect"
    /\ \E alive \in BOOLEAN :
           ksClients' = [ksClients EXCEPT ![stops[c].client] = IF alive THEN "consuming" ELSE @]
    /\ stops' = [stops EXCEPT ![c] = [phase |-> "failed", client |-> NoClient]]
    /\ disturbed' = TRUE
    /\ UNCHANGED <<ksConsumer, running, starts, producerVars, recordVars, topicVars>>

-----------------------------------------------------------------------------
(* Delivery. subscribe() asks for fromBeginning: false: a consumer resumes   *)
(* from the group's offset, and where there is none, or retention (an hour)  *)
(* has passed it, at the end of the topic.                                  *)
AppendRecord(valid) ==
    /\ Len(records) < MaxRecords
    /\ records' = Append(records, valid)
    /\ UNCHANGED <<expired, offset, position, handled, subscribedAt, resumedAt, producerVars, ksVars, topicVars>>

Expire ==
    /\ expired < Len(records)
    /\ expired' = expired + 1
    /\ UNCHANGED <<records, offset, position, handled, subscribedAt, resumedAt, producerVars, ksVars, topicVars>>

Resumable == offset # NoOffset /\ offset >= expired

\* A consumer joins the group: for the first time, after a stop, a crash or an error of
\* its handler, or because its position has expired.
Join ==
    /\ position' = IF Resumable THEN offset ELSE Len(records)
    /\ resumedAt' = IF Resumable THEN resumedAt ELSE Len(records)
    /\ subscribedAt' = IF subscribedAt = NoOffset THEN Len(records) ELSE subscribedAt
    /\ UNCHANGED <<records, expired, offset, handled, producerVars, ksVars, topicVars>>

\* Mutant: the handler's rejection is caught, and the position moves on.
SwallowsRejection ==
    /\ position # NoOffset /\ position >= expired /\ position < Len(records)
    /\ position' = position + 1
    /\ handled' \in {handled} \cup
           (IF records[position + 1] /\ Len(handled) < 2 * MaxRecords THEN {Append(handled, position')} ELSE {})
    /\ UNCHANGED <<records, expired, offset, subscribedAt, resumedAt, producerVars, ksVars, topicVars>>

\* eachMessage: what is no JSON, or has no value, is skipped. The handler may act and
\* then reject; the position moves when it has returned.
EachMessage ==
    /\ position # NoOffset /\ position >= expired /\ position < Len(records)
    /\ \/ /\ ~records[position + 1]
          /\ position' = position + 1
          /\ UNCHANGED handled
       \/ /\ records[position + 1] /\ Len(handled) < 2 * MaxRecords
          /\ handled' = Append(handled, position + 1)
          /\ position' \in {position, position + 1}
    /\ UNCHANGED <<records, expired, offset, subscribedAt, resumedAt, producerVars, ksVars, topicVars>>

\* The client commits what it has read, some time later.
CommitOffset ==
    /\ position > resumedAt
    /\ offset' = position
    /\ UNCHANGED <<records, expired, position, handled, subscribedAt, resumedAt, producerVars, ksVars, topicVars>>

-----------------------------------------------------------------------------
(* Topics and access lists. A name is its part up to the first dot and the  *)
(* rest. PREFIXED entries of a tenant name "{tenant_id}." as the prefix.     *)
SystemTopics ==
    {[first |-> "raw", rest |-> "billing.events"], [first |-> "governance", rest |-> "kill_switch"]}
        \cup [first : {"events"}, rest : {"cost_leakage", "governance", "carbon", "financial",
                                          "agent_health", "ledger_writes", "a2a_messages"}]
TenantTopic(tenant, type) == [first |-> tenant, rest |-> type]
HasPrefix(topic, tenant) == topic.first = tenant
\* Of no tenant, the empty set.
ExtractTenantId(topic) == IF topic \in SystemTopics THEN {} ELSE {topic.first}

\* allTenantAcls(): what a principal of the tenant may do with a topic.
TenantMay(tenant, role, topic) ==
    IF ~HasPrefix(topic, tenant) THEN {}
    ELSE IF role = "producer" THEN {"WRITE", "DESCRIBE"} ELSE {"READ", "DESCRIBE"}
\* systemServiceAcls(): LITERAL entries for the topics listed.
ServiceMay(listed, operations, topic) == IF topic \in listed THEN operations ELSE {}

CreateSystemTopics ==
    /\ topics' = topics \cup SystemTopics
    /\ systemCreated' = TRUE
    /\ UNCHANGED <<deletion, producerVars, ksVars, recordVars>>

CreateTenantTopics(tenant) ==
    /\ topics' = topics \cup {TenantTopic(tenant, type) : type \in EventTypes}
    /\ UNCHANGED <<systemCreated, deletion, producerVars, ksVars, recordVars>>

\* deleteTenantTopics(): what was listed is deleted, if it is anything.
ListTopics(tenant) ==
    /\ ~deletion.busy
    /\ deletion' = [busy |-> TRUE, listed |-> {topic \in topics : HasPrefix(topic, tenant)}]
    /\ UNCHANGED <<topics, systemCreated, producerVars, ksVars, recordVars>>

DeleteListed ==
    /\ deletion.busy
    /\ topics' = topics \ deletion.listed
    /\ deletion' = NoDeletion
    /\ UNCHANGED <<systemCreated, producerVars, ksVars, recordVars>>

-----------------------------------------------------------------------------
ProducerNext ==
    \/ \E c \in Publications : \/ Publish(c) \/ SendReturns(c) \/ SendRejects(c)
                               \/ \E ok \in BOOLEAN : ConnectReturns(c, ok)
    \/ Disconnect \/ DisconnectReturns
KsConsumerNext ==
    \/ \E c \in StartCalls : \/ Start(c) \/ ConnectedConsumer(c) \/ Subscribed(c)
                             \/ RunReturns(c) \/ StartRejects(c)
    \/ \E c \in StopCalls : Stop(c) \/ StopReturns(c) \/ StopRejects(c)
RecordNext == Expire \/ Join \/ EachMessage \/ CommitOffset \/ \E valid \in BOOLEAN : AppendRecord(valid)
TopicNext ==
    \/ CreateSystemTopics \/ DeleteListed
    \/ \E tenant \in TopicTenants : CreateTenantTopics(tenant) \/ ListTopics(tenant)

MessagingNext == ProducerNext \/ KsConsumerNext \/ RecordNext \/ TopicNext
MessagingSpec == MessagingInit /\ [][MessagingNext]_messagingVars

-----------------------------------------------------------------------------
MessagingTypeOK ==
    /\ producer \in 0..Len(clients) /\ ToSet(clients) \subseteq {"connecting", "connected", "failed", "closed"}
    /\ \A c \in Publications : publication[c].phase \in {"idle", "connecting", "sending", "done", "rejected"}
    /\ ksConsumer \in 0..Len(ksClients) /\ expired \in 0..Len(records) /\ resumedAt \in 0..Len(records)
    /\ {offset, position, subscribedAt} \subseteq NoOffset..Len(records)

(* Whatever connections fail or are closed meanwhile, an activation is never *)
(* on the kill-switch topic without being on the governance topic; a call    *)
(* that resolves has written both, one that rejects perhaps the first only.  *)
ActivationIsGoverned ==
    /\ \A e \in stored : e.topic = "kill_switch" =>
           e.of \in KillEvents /\ [topic |-> "governance", of |-> e.of] \in stored
    /\ \A c \in Publications : publication[c].phase = "done" =>
           /\ [topic |-> "governance", of |-> c] \in stored
           /\ c \in KillEvents => [topic |-> "kill_switch", of |-> c] \in stored

(* Between calls of start() and stop() that do not overlap or fail, the      *)
(* consumer says it is running exactly when its client consumes, and no      *)
(* client it has forgotten does.                                            *)
RunningIsConsuming ==
    Quiet /\ ~disturbed =>
        /\ running <=> ksConsumer # NoClient
        /\ \A k \in DOMAIN ksClients : ksClients[k] = "consuming" <=> (running /\ k = ksConsumer)

(* From where the group last began without an offset to resume from, no      *)
(* event that could be read is passed over: all before the position and the  *)
(* committed offset were handled, and each first after those before it,      *)
(* however often the handler fails or the agent comes back.                 *)
HandledInOrder ==
    /\ \A i \in (resumedAt + 1)..Len(records) :
           records[i] /\ (i <= position \/ i <= offset) => i \in ToSet(handled)
    /\ \A k \in DOMAIN handled : \A i \in (resumedAt + 1)..(handled[k] - 1) :
           records[i] => \E j \in 1..(k - 1) : handled[j] = i

(* What the comments say of the groups (kill-switch-consumer.ts:27-28, 43):  *)
(* every event since an agent first subscribed is received, once the agent   *)
(* reads behind it. It does not hold: an agent that comes back before its    *)
(* first commit, or an hour after its last, begins at the end.              *)
EveryEventIsReceived ==
    subscribedAt # NoOffset =>
        \A i \in (subscribedAt + 1)..position : records[i] => i \in ToSet(handled)

(* Creation and deletion overlap, and deletion lists first: yet a system     *)
(* topic, once created, is never deleted, nor open to a tenant's principals, *)
(* unless the tenant's name is the first part of the topic's. Of the other   *)
(* topics the access lists give a tenant those extractTenantId() ascribes to *)
(* it.                                                                      *)
TopicsAreOfTenants ==
    /\ \A topic \in SystemTopics : topic.first \notin TopicTenants =>
           /\ systemCreated => topic \in topics
           /\ topic \notin deletion.listed
    /\ \A topic \in topics, tenant \in TopicTenants, role \in {"producer", "consumer"} :
           TenantMay(tenant, role, topic) # {} <=>
               IF ServiceMay(SystemTopics, {"WRITE"}, topic) = {} THEN ExtractTenantId(topic) = {tenant}
               ELSE topic.first = tenant

(* What always holds of the Kafka clients.                                  *)
MessagingInv ==
    /\ MessagingTypeOK /\ ActivationIsGoverned /\ RunningIsConsuming
    /\ HandledInOrder /\ TopicsAreOfTenants
=============================================================================
