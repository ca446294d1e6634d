-------------------------------- MODULE Ingestion --------------------------------
(***************************************************************************)
(* DataNormalizationPipeline of                                             *)
(* src/src/ingestion/pipeline/normalization-pipeline.ts with the connectors *)
(* it polls (connectors/aws-connector.ts, azure-connector.ts and            *)
(* gcp-connector.ts, which keep the same status), for one tenant. Runs      *)
(* overlap. The clouds and the producer are external: a poll answers with   *)
(* any records or fails, a publication is stored, refused, or stored and    *)
(* reported as refused.                                                     *)
(***************************************************************************)
EXTENDS Integers, Sequences, FiniteSets, SequencesExt, Tags

CONSTANTS
    Providers,      \* the configured connectors, in the order they are polled
    Runs,           \* the calls of run()
    Answers,        \* what a cloud may answer: sequences of [id, cost_amount, rate, period, type, labels]
    IngestTags,     \* requiredTags
    Minutes,        \* bound on the clock
    MaxFailures,    \* bound on consecutiveFailures
    UnreachableAfter\* 120 000 ms, in ticks of the clock

ASSUME IngestionAssumption ==
    /\ Minutes \in Nat /\ MaxFailures \in Nat /\ UnreachableAfter \in Nat \ {0}
    /\ Runs # {}
    /\ Len(Providers) \in Nat \ {0} /\ DOMAIN Providers = 1..Len(Providers)
    /\ ToSet(Providers) \subseteq {"AWS", "AZURE", "GCP"}
    /\ \A answer \in Answers :
           /\ Len(answer) \in Nat /\ DOMAIN answer = 1..Len(answer)
           /\ \A i \in DOMAIN answer : \A t \in DOMAIN answer[i].labels : answer[i].labels[t] \in Values

VARIABLES
    tick,           \* the clock
    connector,      \* of each provider: [status, failures, unreachableSince]
    answeredAt,     \* when a poll of the provider last succeeded (history)
    failureEvent,   \* the last ConnectivityFailureEvent emitted, with answeredAt
    run,            \* of each run: [phase, polled, raw, at, published]
    deadLetterQueue,\* the entries, as [of, at], in order
    drained,        \* those taken out by drainDeadLetterQueue()
    billingTopic    \* the events in raw.billing.events, as [of, at, event]

ingestVars == <<tick, connector, answeredAt, failureEvent, run, deadLetterQueue, drained, billingTopic>>

Never == -1
NoEvent == [timestamp |-> Never]
Working == [status |-> "HEALTHY", failures |-> 0, unreachableSince |-> Never]

IngestInit ==
    /\ tick = 0 /\ failureEvent = NoEvent /\ deadLetterQueue = <<>> /\ drained = {} /\ billingTopic = {}
    /\ connector = [p \in ToSet(Providers) |-> Working]
    /\ answeredAt = [p \in ToSet(Providers) |-> 0]
    /\ run = [r \in Runs |-> [phase |-> "idle", polled |-> 0, raw |-> <<>>, at |-> 0, published |-> <<>>]]

-----------------------------------------------------------------------------
(* Normalization of a record.                                              *)
\* CostNormalizer: an unknown currency has rate 1; the period is `|| 1`.
ExchangeRate(rate) == IF rate = "unknown" THEN 100 ELSE rate
PeriodHours(period) == IF period \in {0, "invalid"} THEN 1 ELSE period
ToHourlyUsd(raw) == (raw.cost_amount * ExchangeRate(raw.rate)) \div PeriodHours(raw.period)

\* ResourceClassifier: the entry of the table, or the first whose name contains
\* the raw name or is contained in it. A raw type is given by those entries.
ClassifyType(type) ==
    IF type.exact # "none" THEN type.exact
    ELSE IF type.similar # <<>> THEN type.similar[1] ELSE "UNKNOWN"

Normalizes(raw) == IngestValid(raw.tags, IngestTags)
Normalized(raw) ==
    [resource_id |-> raw.id, resource_type |-> ClassifyType(raw.type),
     hourly_cost_usd |-> ToHourlyUsd(raw), tags |-> raw.tags]

-----------------------------------------------------------------------------
(* Connectors. What each makes of a row: two give it tags of their own, the *)
(* third keeps the labels and sets the tenant.                             *)
ConnectorTags == [tenant_id |-> "value", environment |-> "value", owner |-> "value"]
Labelled(row, tags) ==
    [id |-> row.id, cost_amount |-> row.cost_amount, rate |-> row.rate, period |-> row.period,
     type |-> row.type, tags |-> tags]
AwsRecord(row) == Labelled(row, ConnectorTags)
AzureRecord(row) == Labelled(row, ConnectorTags)
GcpRecord(row) ==
    Labelled(row, [t \in DOMAIN row.labels \cup {"tenant_id"} |->
                      IF t = "tenant_id" THEN "value" ELSE row.labels[t]])

RawRecord(p, row) ==
    CASE p = "AWS" -> AwsRecord(row) [] p = "AZURE" -> AzureRecord(row) [] p = "GCP" -> GcpRecord(row)

\* onPollSuccess()
PollSuccess(p) ==
    /\ connector' = [connector EXCEPT ![p] = Working]
    /\ answeredAt' = [answeredAt EXCEPT ![p] = tick]
    /\ UNCHANGED failureEvent

\* onPollFailure()
PollFailure(p) ==
    LET since == IF connector[p].unreachableSince = Never THEN tick ELSE connector[p].unreachableSince
        unreachable == tick - since >= UnreachableAfter
    IN  /\ connector[p].failures < MaxFailures
        /\ connector' = [connector EXCEPT ![p] =
               [status |-> IF unreachable THEN "UNREACHABLE" ELSE "DEGRADED",
                failures |-> connector[p].failures + 1, unreachableSince |-> since]]
        /\ failureEvent' = IF unreachable
                           THEN [provider |-> p, unreachable_since |-> since,
                                 timestamp |-> tick, answered |-> answeredAt[p]]
                           ELSE failureEvent
        /\ UNCHANGED answeredAt

-----------------------------------------------------------------------------
(* The pipeline.                                                           *)
\* processRecord() on the records from `from` on, up to the next await: those that
\* do not normalize are put in the queue, the first that does is being published.
\* Mutant: the first that does not normalize ends the run.
FirstBadEnds(raw, from) ==
    IF from <= Len(raw) /\ Normalizes(raw[from]) THEN from ELSE Len(raw) + 1
NextToPublish(raw, from) ==
    CHOOSE i \in from..(Len(raw) + 1) :
        /\ i = Len(raw) + 1 \/ Normalizes(raw[i])
        /\ \A j \in from..(i - 1) : ~Normalizes(raw[j])

Proceed(r, raw, from, published) ==
    LET next == NextToPublish(raw, from)
        refused == [i \in 1..(next - from) |-> [of |-> r, at |-> from + i - 1]]
    IN  /\ run' = [run EXCEPT ![r] = [phase |-> IF next > Len(raw) THEN "done" ELSE "publishing",
                       polled |-> Len(Providers), raw |-> raw, at |-> next, published |-> published]]
        /\ deadLetterQueue' = deadLetterQueue \o refused

BeginRun(r) ==
    /\ run[r].phase = "idle"
    /\ run' = [run EXCEPT ![r].phase = "polling"]
    /\ UNCHANGED <<tick, connector, answeredAt, failureEvent, deadLetterQueue, drained, billingTopic>>

\* A poll never rejects: a failure counts as no records.
PollReturns(r, answers) ==
    /\ run[r].phase = "polling"
    /\ LET p == Providers[run[r].polled + 1]
       IN  \E answer \in answers, ok \in BOOLEAN :
               LET raw == IF ok THEN run[r].raw \o [i \in DOMAIN answer |-> RawRecord(p, answer[i])]
                                ELSE run[r].raw
               IN  /\ ok \/ answer = <<>>
                   /\ IF ok THEN PollSuccess(p) ELSE PollFailure(p)
                   /\ \/ /\ run[r].polled + 1 = Len(Providers)
                         /\ Proceed(r, raw, 1, <<>>)
                      \/ /\ run[r].polled + 1 < Len(Providers)
                         /\ run' = [run EXCEPT ![r].polled = @ + 1, ![r].raw = raw]
                         /\ UNCHANGED deadLetterQueue
    /\ UNCHANGED <<tick, drained, billingTopic>>

Stored(r) ==
    [of |-> r, at |-> run[r].at, event |-> Normalized(run[r].raw[run[r].at])]

PublishReturns(r) ==
    /\ run[r].phase = "publishing"
    /\ billingTopic' = billingTopic \cup {Stored(r)}
    /\ Proceed(r, run[r].raw, run[r].at + 1, Append(run[r].published, run[r].at))
    /\ UNCHANGED <<tick, connector, answeredAt, failureEvent, drained>>

\* The rejection ends the run: what was published is not returned, the rest is lost.
PublishRejects(r) ==
    /\ run[r].phase = "publishing"
    /\ billingTopic' \in {billingTopic, billingTopic \cup {Stored(r)}}
    /\ run' = [run EXCEPT ![r].phase = "failed"]
    /\ UNCHANGED <<tick, connector, answeredAt, failureEvent, deadLetterQueue, drained>>

DrainDeadLetterQueue ==
    /\ deadLetterQueue # <<>>
    /\ drained' = drained \cup ToSet(deadLetterQueue)
    /\ deadLetterQueue' = <<>>
    /\ UNCHANGED <<tick, connector, answeredAt, failureEvent, run, billingTopic>>

PassTick ==
    /\ tick < Minutes
    /\ tick' = tick + 1
    /\ UNCHANGED <<connector, answeredAt, failureEvent, run, deadLetterQueue, drained, billingTopic>>

\* A caller that runs the pipeline again.
RunAgain(r) ==
    /\ run[r].phase \in {"done", "failed"} /\ run[r].raw = <<>>
    /\ run' = [run EXCEPT ![r] = [phase |-> "polling", polled |-> 0, raw |-> <<>>, at |-> 0, published |-> <<>>]]
    /\ UNCHANGED <<tick, connector, answeredAt, failureEvent, deadLetterQueue, drained, billingTopic>>

\* The connectors do not depend on what is polled, nor the records on the clock.
IngestPollNext ==
    \/ \E r \in Runs : BeginRun(r) \/ RunAgain(r) \/ PollReturns(r, {<<>>})
    \/ PassTick
IngestRecordNext ==
    \/ \E r \in Runs : \/ BeginRun(r) \/ PollReturns(r, Answers)
                        \/ PublishReturns(r) \/ PublishRejects(r)
    \/ DrainDeadLetterQueue

IngestNext == IngestPollNext \/ IngestRecordNext

IngestSpec == IngestInit /\ [][IngestNext]_ingestVars

-----------------------------------------------------------------------------
IngestTypeOK ==
    /\ tick \in 0..Minutes
    /\ \A p \in ToSet(Providers) :
           (connector[p].status = "HEALTHY") <=> (connector[p].unreachableSince = Never)
    /\ \A r \in Runs : run[r].phase \in {"idle", "polling", "publishing", "done", "failed"}

(* A run that returns has dealt with every record it polled exactly once:   *)
(* each is in the topic, and among the events returned, or is a dead letter, *)
(* queued or drained, because it does not normalize; of overlapping runs    *)
(* each has its own. A run that a publication rejects loses the records     *)
(* after it and no other.                                                   *)
EveryRecordIsAccounted ==
    \A r \in Runs : run[r].phase \in {"publishing", "done", "failed"} =>
        \A i \in DOMAIN run[r].raw :
            LET letters == {k \in DOMAIN deadLetterQueue :
                                deadLetterQueue[k].of = r /\ deadLetterQueue[k].at = i}
                dead == letters # {} \/ [of |-> r, at |-> i] \in drained
            IN  i < run[r].at =>
                    /\ Cardinality(letters) <= 1 /\ (letters # {} => [of |-> r, at |-> i] \notin drained)
                    /\ dead <=> ~Normalizes(run[r].raw[i])
                    /\ dead <=> i \notin ToSet(run[r].published)
                    /\ ~dead <=> \E e \in billingTopic : e.of = r /\ e.at = i

(* What reaches the topic carries a value for every required tag that is    *)
(* not white space: no run publishes a record it did not check.            *)
TopicIsTagged ==
    \A e \in billingTopic : \A t \in IngestTags : t \in DOMAIN e.event.tags /\ e.event.tags[t] = "value"

(* A connector is reported unreachable only if no poll has answered for the *)
(* whole time it names, whatever overlapping runs polled it.                *)
UnreachableIsTrue ==
    failureEvent # NoEvent =>
        /\ failureEvent.timestamp - failureEvent.unreachable_since >= UnreachableAfter
        /\ failureEvent.answered <= failureEvent.unreachable_since

(* What always holds of the ingestion.                                      *)
IngestInv == IngestTypeOK /\ EveryRecordIsAccounted /\ TopicIsTagged /\ UnreachableIsTrue
=============================================================================
