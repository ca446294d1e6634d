--------------------------------- MODULE Stores ---------------------------------
(***************************************************************************)
(* The Redis stores of src/src/infrastructure/redis, of one tenant, used    *)
(* by concurrent clients: DoWAccumulator, AgentHealthRegistry,              *)
(* AgenticPlanCache and DigitalTwinStore; and the client singletons of      *)
(* redis/client.ts and cassandra/client.ts. A command of the server is      *)
(* atomic; every await of the code between two commands is a step boundary. *)
(***************************************************************************)
EXTENDS Integers, FiniteSets, FiniteSetsExt

CONSTANTS
    Adders,         \* the calls of DoWAccumulator.add()
    AddAmounts,     \* the amounts they add
    LimitUsd,       \* limitUsd
    MaxHour,        \* bound on the clock
    WindowHours,    \* 24, the hourly buckets a sum reads
    Markers,        \* the calls of markUnavailable()
    MaxBeats,       \* bound on the heartbeats
    HealthTtl,      \* HEALTH_TTL_SECONDS, in ticks
    CacheResource,  \* of each key of the plan cache, the resource its plan is for
    TwinKeys,       \* the resources that may have a snapshot
    Closers,        \* the calls of closeRedisClient() or shutdownClient()
    MaxOpened       \* bound on the clients created

ASSUME StoresAssumption ==
    /\ AddAmounts \subseteq Nat \ {0} /\ LimitUsd \in Nat /\ MaxHour \in Nat
    /\ WindowHours \in Nat \ {0} /\ MaxBeats \in Nat /\ HealthTtl \in Nat \ {0} /\ MaxOpened \in Nat

Absent == [status |-> "absent"]
AtRest == [phase |-> "idle"]
CacheKeys == DOMAIN CacheResource
Modules == {"redis", "cassandra"}

VARIABLES
    storeTick,  \* the clock, in hours (buckets) or seconds (health records)
    bucket,     \* dow:{tenant}:{hour}, of the hours since the start
    adder,      \* of each call: [phase, newTotal, limitExceeded]
    record,     \* health:{tenant}:{agent}: Absent or [status, figures, expires]
    marker,     \* of each call: [phase, existing]
    beats,      \* heartbeats so far; their figures are numbered from 1
    overtaken,  \* a heartbeat fell between the read and the write of a mark (history)
    plans,      \* the keys present under plan_cache:{tenant}:
    invalidator,\* the call of invalidate(): [phase, resource, keys]
    restored,   \* the keys stored since it began (history)
    twins,      \* the keys present under twin:{tenant}:
    reader,     \* the call of getAllSnapshots(): [phase, keys]
    steady,     \* the twins present ever since it began (history)
    client,     \* _client of each module: 0 for null, or the number of the client
    opened,     \* the clients created by each, numbered from 1
    open,       \* those not closed
    closer,     \* of each call: [phase, module, of]
    overlapped  \* two calls that close a client of the module overlapped (history)

dowStoreVars == <<bucket, adder>>
healthVars == <<record, marker, beats, overtaken>>
planVars == <<plans, invalidator, restored>>
twinVars == <<twins, reader, steady>>
singletonVars == <<client, opened, open, closer, overlapped>>
storesVars == <<storeTick, dowStoreVars, healthVars, planVars, twinVars, singletonVars>>

StoresInit ==
    /\ storeTick = 0 /\ bucket = [h \in 0..MaxHour |-> 0] /\ adder = [c \in Adders |-> AtRest]
    /\ record = Absent /\ beats = 0 /\ overtaken = FALSE /\ marker = [c \in Markers |-> AtRest]
    /\ plans = {} /\ restored = {} /\ invalidator = AtRest
    /\ twins = {} /\ steady = {} /\ reader = AtRest
    /\ client = [k \in Modules |-> 0] /\ opened = client /\ open = [k \in Modules |-> {}]
    /\ closer = [c \in Closers |-> AtRest] /\ overlapped = [k \in Modules |-> FALSE]

StoreTick ==
    /\ storeTick < MaxHour /\ storeTick' = storeTick + 1
    /\ UNCHANGED <<dowStoreVars, healthVars, planVars, twinVars, singletonVars>>

-----------------------------------------------------------------------------
(* DoWAccumulator.                                                         *)
\* The window ends with the current hour and is shorter than the bucket's TTL.
\* Mutant: the current hour is taken to be a whole one.
PastHours(now) == {h \in 0..now : h >= now - WindowHours /\ h < now}
SummedHours(now) == {h \in 0..now : h > now - WindowHours}
\* getRollingSum()
RollingSum(now) == MapThenSumSet(LAMBDA h : bucket[h], SummedHours(now))

\* add() up to its first await: the pipeline also resolves when the increment failed.
AddIncrements(c) ==
    /\ adder[c].phase = "idle"
    /\ adder' = [adder EXCEPT ![c] = [phase |-> "summing"]]
    /\ \E amount \in AddAmounts :
        bucket' \in {bucket, [bucket EXCEPT ![storeTick] = @ + amount]}
    /\ UNCHANGED <<storeTick, healthVars, planVars, twinVars, singletonVars>>

AddAnswers(c) ==
    /\ adder[c].phase = "summing"
    /\ \/ LET newTotal == RollingSum(storeTick)
          IN  adder' = [adder EXCEPT ![c] =
                  [phase |-> "done", newTotal |-> newTotal, limitExceeded |-> newTotal > LimitUsd]]
       \/ adder' = [adder EXCEPT ![c] = [phase |-> "rejected"]]
    /\ UNCHANGED <<storeTick, bucket, healthVars, planVars, twinVars, singletonVars>>

\* reset(): the buckets of the window are deleted.
ResetSpend ==
    /\ bucket' = [h \in 0..MaxHour |-> IF h \in SummedHours(storeTick) THEN 0 ELSE bucket[h]]
    /\ UNCHANGED <<storeTick, adder, healthVars, planVars, twinVars, singletonVars>>

DowStoreNext ==
    \/ \E c \in Adders : AddIncrements(c) \/ AddAnswers(c)
    \/ ResetSpend \/ StoreTick

-----------------------------------------------------------------------------
(* AgentHealthRegistry. The figures are those of a heartbeat: 0 the defaults. *)
\* getHealth(): an expired key reads as null.
GetHealth == IF record = Absent \/ record.expires <= storeTick THEN Absent ELSE record
SetHealth(status, figures) ==
    record' = [status |-> status, figures |-> figures, expires |-> storeTick + HealthTtl]

Heartbeat ==
    /\ beats < MaxBeats
    /\ beats' = beats + 1
    /\ \E status \in {"HEALTHY", "DEGRADED"} : SetHealth(status, beats')
    /\ overtaken' = (overtaken \/ \E c \in Markers : marker[c].phase = "read")
    /\ UNCHANGED <<storeTick, marker, dowStoreVars, planVars, twinVars, singletonVars>>

MarkReads(c) ==
    /\ marker[c].phase = "idle"
    /\ marker' = [marker EXCEPT ![c] = [phase |-> "read", existing |-> GetHealth]]
    /\ UNCHANGED <<storeTick, record, beats, overtaken, dowStoreVars, planVars, twinVars, singletonVars>>

\* The record written is the one read with another status, or the defaults.
MarkWrites(c) ==
    /\ marker[c].phase = "read"
    /\ SetHealth("UNAVAILABLE", IF marker[c].existing = Absent THEN 0 ELSE marker[c].existing.figures)
    /\ marker' = [marker EXCEPT ![c] = [phase |-> "done"]]
    /\ UNCHANGED <<storeTick, beats, overtaken, dowStoreVars, planVars, twinVars, singletonVars>>

HealthNext ==
    \/ Heartbeat \/ StoreTick
    \/ \E c \in Markers : MarkReads(c) \/ MarkWrites(c)

-----------------------------------------------------------------------------
(* AgenticPlanCache and DigitalTwinStore. SCAN returns every key present from  *)
(* its start to its end; what is stored or deleted meanwhile it may miss or    *)
(* return. MGET answers null for a key that has gone.                          *)
Lookup(key) == key \in plans

StorePlan(key) ==
    /\ plans' = plans \cup {key} /\ restored' = restored \cup {key}
    /\ UNCHANGED <<storeTick, invalidator, dowStoreVars, healthVars, twinVars, singletonVars>>

\* invalidate(): the scan, the filter by resource of what is read, the deletion.
InvalidateScans(resource) ==
    /\ invalidator.phase = "idle"
    /\ invalidator' = [phase |-> "scanned", resource |-> resource, keys |-> plans]
    /\ restored' = {}
    /\ UNCHANGED <<storeTick, plans, dowStoreVars, healthVars, twinVars, singletonVars>>

InvalidateReads ==
    /\ invalidator.phase = "scanned"
    /\ invalidator' = [invalidator EXCEPT !.phase = "read",
           !.keys = {k \in @ : Lookup(k) /\ CacheResource[k] = invalidator.resource}]
    /\ UNCHANGED <<storeTick, plans, restored, dowStoreVars, healthVars, twinVars, singletonVars>>

InvalidateDeletes ==
    /\ invalidator.phase = "read"
    /\ plans' = plans \ invalidator.keys
    /\ invalidator' = [invalidator EXCEPT !.phase = "done"]
    /\ UNCHANGED <<storeTick, restored, dowStoreVars, healthVars, twinVars, singletonVars>>

PlanNext ==
    \/ \E k \in CacheKeys : StorePlan(k) \/ InvalidateScans(CacheResource[k])
    \/ InvalidateReads \/ InvalidateDeletes

SetOrDeleteSnapshot(key) ==
    /\ twins' \in {twins \cup {key}, twins \ {key}}
    /\ steady' = steady \cap twins'
    /\ UNCHANGED <<storeTick, reader, dowStoreVars, healthVars, planVars, singletonVars>>

SnapshotsScanned ==
    /\ reader.phase = "idle"
    /\ reader' = [phase |-> "scanned", keys |-> twins] /\ steady' = twins
    /\ UNCHANGED <<storeTick, twins, dowStoreVars, healthVars, planVars, singletonVars>>

SnapshotsRead ==
    /\ reader.phase = "scanned"
    /\ reader' = [phase |-> "done", keys |-> reader.keys \cap twins]
    /\ UNCHANGED <<storeTick, twins, steady, dowStoreVars, healthVars, planVars, singletonVars>>

TwinNext == SnapshotsScanned \/ SnapshotsRead \/ \E k \in TwinKeys : SetOrDeleteSnapshot(k)

-----------------------------------------------------------------------------
(* The singletons.                                                         *)
\* getRedisClient() and getClient(): also while the client is being closed.
Obtain(k) ==
    /\ client[k] = 0 /\ opened[k] < MaxOpened
    /\ opened' = [opened EXCEPT ![k] = @ + 1]
    /\ client' = [client EXCEPT ![k] = opened'[k]]
    /\ open' = [open EXCEPT ![k] = @ \cup {opened'[k]}]
    /\ UNCHANGED <<storeTick, closer, overlapped, dowStoreVars, healthVars, planVars, twinVars>>

Closing(k) == {c \in Closers : closer[c].phase = "closing" /\ closer[c].module = k}

\* closeRedisClient() and shutdownClient(): the variable is reset after the await.
CloseBegins(c, k) ==
    /\ closer[c].phase = "idle" /\ client[k] # 0
    /\ closer' = [closer EXCEPT ![c] = [phase |-> "closing", module |-> k, of |-> client[k]]]
    /\ overlapped' = [overlapped EXCEPT ![k] = @ \/ Closing(k) # {}]
    /\ UNCHANGED <<storeTick, client, opened, open, dowStoreVars, healthVars, planVars, twinVars>>

CloseReturns(c) ==
    /\ closer[c].phase = "closing"
    /\ LET k == closer[c].module
       IN  \/ /\ client' = [client EXCEPT ![k] = 0]
              /\ open' = [open EXCEPT ![k] = @ \ {closer[c].of}]
           \/ UNCHANGED <<client, open>>
    /\ closer' = [closer EXCEPT ![c] = AtRest]
    /\ UNCHANGED <<storeTick, opened, overlapped, dowStoreVars, healthVars, planVars, twinVars>>

SingletonNext ==
    \/ \E k \in Modules : Obtain(k) \/ \E c \in Closers : CloseBegins(c, k)
    \/ \E c \in Closers : CloseReturns(c)

-----------------------------------------------------------------------------
(* Properties.                                                              *)
StoresTypeOK ==
    /\ storeTick \in 0..MaxHour /\ beats \in 0..MaxBeats
    /\ \A h \in 0..MaxHour : bucket[h] \in Nat
    /\ \A c \in Adders : adder[c].phase \in {"idle", "summing", "done", "rejected"}
    /\ GetHealth # Absent => GetHealth.figures \in 0..beats
    /\ plans \subseteq CacheKeys /\ twins \subseteq TwinKeys
    /\ \A k \in Modules : client[k] \in 0..opened[k] /\ open[k] \subseteq 1..opened[k]

Spend == MapThenSumSet(LAMBDA h : IF h <= storeTick /\ h > storeTick - WindowHours THEN bucket[h] ELSE 0,
                       0..MaxHour)

\* Whatever the order in which concurrent adds increment and sum, once all that began
\* have answered one of them has been told of a window that is over its limit.
OverLimitIsAnswered ==
    (/\ \A c \in Adders : adder[c].phase \in {"idle", "done"}
     /\ Spend > LimitUsd)
        => \E c \in Adders : adder[c].phase = "done" /\ adder[c].limitExceeded

\* A record carries the figures of the last heartbeat or, after it expired, the defaults,
\* unless a mark read it before the heartbeat and wrote it after.
FiguresAreLatest ==
    (record # Absent /\ ~overtaken) => record.figures \in {beats, 0}

\* When invalidate() is done, a plan of the resource that is still cached was stored
\* after it began.
InvalidatedIsGone ==
    invalidator.phase = "done"
        => \A k \in plans : CacheResource[k] = invalidator.resource => k \in restored

\* getAllSnapshots() returns every snapshot that was there from its scan to its read.
SteadyIsReturned == reader.phase = "done" => steady \subseteq reader.keys

\* A module has one open client, which is the one it hands out, unless closes overlapped.
SingleClient ==
    \A k \in Modules : ~overlapped[k] => Cardinality(open[k]) <= 1 /\ (client[k] = 0 => open[k] = {})

\* The stores: what concurrent clients read, write and delete in several commands is not
\* lost, and what may be lost is lost only in the interleavings named.
StoresInv ==
    /\ StoresTypeOK /\ OverLimitIsAnswered /\ FiguresAreLatest
    /\ InvalidatedIsGone /\ SteadyIsReturned /\ SingleClient

=============================================================================
