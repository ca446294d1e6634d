# A TLA+ model of ECHO

ECHO (`src/`) is a platform on which software agents watch and change the cloud
spending of many tenants. What makes it trustworthy is a small set of guard
rails: a kill-switch, spending limits, an audit ledger nobody can rewrite,
approvals, rollbacks. Around them are the agents, their protocols, the ingestion
of costs, the stores, and a console. This directory specifies all of these in
TLA+, checks them with TLC on small instances and proves the central results with
TLAPS for all instances.

Paths below are relative to `src/src/`; `design.md` and `requirements.md` are those of
`src/.kiro/specs/echo-autonomous-economic-os/`.

## Inventory

| Component | State | Operations | What is hard | What makes it correct |
|---|---|---|---|---|
| Kill-switch `agents/governor/kill-switch.ts` | circuit and last activation per tenant | `activate`, `confirmHalt`, `reset`, `close` | overlapping activations, five-second deadline, rejecting or hanging dependencies | it fails safe, and what it reports was done |
| Denial-of-wallet protection `agents/governor/dow-protection.ts` | USD per tenant and hour | `add`, `rollingSum`, `reset` | overlapping spends, window of whole hours, failing kill-switch | a tenant over the limit is stopped |
| Behaviour monitor, isolator `agents/governor/*.ts` | samples per agent; isolations | `monitor`, `isolate` | a timeout against a late suspension, one step of several failing | an agent reported as contained is |
| Sanitizer, tag enforcement `agents/governor/*.ts` | none of their own | `sanitize`, `validateBatch` | refusal with effects that may reject | nothing injected is released, nothing untagged executed |
| Liquid_Ledger in memory `ledger/liquid-ledger.ts` | entries and counter per tenant | `append`, `verifyIntegrity`, `query` | stored objects are shared with callers | a verdict holds as far as a hash chain allows |
| Liquid_Ledger of the backend `backend/src/engine.ts` (not modelled) | the same | the same | a copy that diverged | an untouched log should verify, and does not |
| Ledger repository `infrastructure/cassandra/ledger-repository.ts` | a table partitioned by month | `append`, `getLatestEntry`, `verifyIntegrity`, `query` | read-then-insert without a condition, months, lost acknowledgements | an immutable chain |
| Cassandra client `infrastructure/cassandra/client.ts` | one client | `getClient`, `initKeyspace` | a script cut into statements, failure between two | the keyspace is there |
| Orchestrator `agents/orchestrator/agent-orchestrator.ts` | registered handles, health | `registerAgent`, `route`, `healthCheck`, `coordinateA2A` | overlapping rounds of pings, answers against a timer | tenants stay apart, the dead are found |
| Auditor `agents/auditor/*.ts` | detection window, vendor records | `ingest` (two), `classify`, `generate` | late events, overlapping imports | savings within costs, duplicates found |
| SLA twin `agents/sla/*.ts` | state of the contract | `evaluateContract`, `monitorLoop` | state set before an awaited write | each breach is recorded once, with enough penalty |
| Green agent, carbon feed `agents/green`, `ingestion/connectors/carbon-connector.ts` | readings, staleness | `poll`, `schedule` | late and failing answers | stale is stale, moving saves |
| Finance `agents/finance/*.ts` | sessions | `reconcile`, `trackSession` | boundaries of a window, zeros | everything is reconciled and paid for |
| Execution `execution/*.ts` | plan cache, snapshots | simulate, score, approve, roll back | plans that expire while one waits; partial restores; 300-second limit | real savings, true verdicts |
| Redis stores `infrastructure/redis/*.ts` | keys with expiry | pipelines, scan-read-delete, read-modify-write | concurrent clients between two commands | what a caller was told is in the store |
| Kafka `infrastructure/kafka/*.ts` | producer, consumers, topics | `publish`, `start`, `stop`, `createTenantTopics` | connection on first use, overlapping start and stop, redelivery, groups without an offset | no order is lost unreported, events are handled in order |
| Database `infrastructure/database/*.ts` | pooled connections | `withTenantClient` | a failure at any statement | the tenant's own rows, or none |
| Provisioner `infrastructure/kubernetes/tenant-provisioner.ts` | objects of a cluster | `provision` | failure half-way, called again | pods are isolated, success is complete |
| Ingestion `ingestion/**` | connector status, dead letters | `poll`, `run` | rejection in the middle of a batch | every record is accounted for |
| Protocols `protocols/{a2a,ap2,mcp}` | trust, copies of transactions, chunks | handlers | changed, repeated or reordered messages; copies used again | accepted was signed; order and limits hold; a stream is the payload |
| Reasoning `reasoning/*.ts` | cost per tenant, claims per agent | `runWithBudget`, `process`, `validate` | concurrent budget checks | the budget holds |
| Security `security/*.ts` | keys, roles | `generate`, `revoke`, `validate`, `check`, `logUsage` | revocation during a request | only who may is served, and it is logged |
| Server and interface `backend/src/server.ts`, `web/command-center` | sockets, shared state; store of a tab | broadcast, commands, heartbeat; reconnect, sign-in | reconnection, several copies of a state | one socket, showing what the server holds |

How they interact. Every component of the guard rails receives its collaborators as
promise-returning functions (its `Dependencies` interface), so what the code relies on
is exactly that a call settles or does not. The accumulator calls the kill-switch
through `activateKillSwitch`, the kill-switch publishes to Kafka and appends to the
ledger, agents learn of a halt from the topic and are polled, the behaviour monitor
calls the isolator, the pipeline polls the connectors and publishes, the server
broadcasts to its sockets what a console shows. Between two awaits the code runs
alone: TypeScript has one thread. So **one action is one stretch of code between two
awaits**, and interleavings happen only there. For Redis, Cassandra, PostgreSQL and
Kubernetes one action is one command or statement, because processes share them. A
synchronous component (AP2, the detector, the scheduler) has one action per method.

## Modules

| Module | Models | Checked by | Proved in |
|---|---|---|---|
| `KillSwitch` | `KillSwitchCircuitBreaker` | `MCKillSwitch` | `ControlProofs` |
| `DowProtection` (extends `KillSwitch`) | `DoWAccumulator` composed with the kill-switch | `MCDowProtection` | `ControlProofs` |
| `AuditLog` | the promise: an immutable log per tenant | `MCLedgers`, as a property of the repository | `LedgerProofs`, of both ledgers |
| `LiquidLedger` | `LiquidLedger` of `ledger/` | `MCLedgers` | `LedgerProofs` |
| `CassandraLedger` | `LedgerRepository` | `MCLedgers`, `MCCassandraLedger` | `LedgerProofs` |
| `Execution` | `DigitalTwin`, `RiskScorer`, `ApprovalRouter`, `AgenticPlanCache` | `MCExecution` | `ActionsProofs` |
| `Rollback` | `RollbackManager` | `MCExecution` | `ActionsProofs` |
| `Orchestrator` | `AgentOrchestrator` | `MCAgents` | `AgentsProofs` |
| `Governor` (with `Tags`) | `BehaviorAnomalyMonitor`, `RogueAgentIsolator`, `InjectionSanitizer`, `ResourceTagEnforcer` | `MCAgents` | `AgentsProofs` |
| `SlaTwin` | `ContractDigitalTwin`, `PenaltyCalculator` | `MCAgents` | `AgentsProofs` |
| `Auditor` | `AnomalyDetector`, `AnomalyClassifier`, playbooks, `VendorDataIngestion` | `MCAgents` | `AgentsProofs` |
| `Finance` | `TransactionReconciler`, causes of variance, cost of a result | `MCAgents` | `AgentsProofs` |
| `Carbon` | `CarbonIntensityFeed`, `CarbonAwareScheduler` | `MCAgents` | `AgentsProofs` |
| `AP2` | `AP2Handler` | `MCPlatform` | `ProtocolProofs` |
| `A2A`, `MCP` | the other two protocol handlers | `MCPlatform` | `ProtocolProofs` |
| `Ingestion` (with `Tags`) | `DataNormalizationPipeline` and its connectors | `MCPlatform` | `ProtocolProofs` |
| `Messaging` | producer, consumers, admin, topic names and access lists | `MCPlatform` | `ProtocolProofs` |
| `Stores` | the Redis stores; the shared clients | `MCPlatform` | `PlatformProofs` |
| `Databases` | `withTenantClient`, `initKeyspace` | `MCPlatform`, itself | `PlatformProofs` |
| `Provisioner` | `TenantProvisioningWorkflow` | `MCPlatform` | `PlatformProofs` |
| `Reasoning` | routers, `CostTracker`, dual chains, claims | `MCPlatform` | `PlatformProofs` |
| `Security` | `APIKeyManager`, `RBACMiddleware` | `MCPlatform` | `PlatformProofs` |
| `Center` | `server.ts` | `MCConsole` | `ConsoleProofs` |
| `Console` (extends `Center`) | one tab of the command center | `MCConsole` | `ConsoleProofs` |

Modules extend one another where the code composes what they model: `DowProtection`
and `KillSwitch`, `Governor`'s monitor and isolator, `Ingestion` and its connectors
and `Tags`, `Console` and `Center`. `MCLedgers`, `MCExecution`, `MCAgents` and
`MCPlatform` join components which share no state in the code. A variable `part`,
chosen in the initial state, says which of them moves: the states explored are the
sum of theirs and not the product, and nothing is lost, because no action of one is
enabled or changed by the state of another. Their invariants are conjunctions of the
components' named parts (`OrchInv`, `StoresInv`, ...), which hold of the components
that rest as of the one that moves.

`SetSums` models nothing: it has the lemmas about finite sets and sums that the proofs
share.

Operators marked "Mutant" in the comments are faulty variants of the operator below
them; no action uses them. They show that the property they belong to can fail.

### KillSwitch

`state` and `activation` are the maps `states` and `activations`. A call of
`activate()` is a member of `Calls`; `at[c]` is the await it is suspended at, and
`agentsOf`, `polling`, `confirmed` and `expired` are its local variables
(`confirmed` is what was deleted from `unconfirmed`, `expired` says that
`Date.now()` has reached the deadline). `published`, `ledger` and `reported` are
what the dependencies have done. `Activate` is the synchronous prefix; then one
action per awaited call, plus one for its rejection (`Reject`), which abandons the
rest. A dependency that rejects may have taken effect. `polling` holds the polls
of a round that are pending, in any order; a poll that rejects abandons the round.
`Wake` is the timer of 200 ms: another round before the deadline, the escalation
after it. `Reset` and `Close` are guarded as the methods are; their callers are
not in the repository and are modelled after the comments: an administrator
resets, verifies the agents' health, and closes or gives up. `verifying` and
`acknowledged` are history: the activation the reset saw.

### DowProtection

`add()` calls `activateKillSwitch` before it awaits anything, and that opens the
circuit before it awaits anything, so `Add` is one step with `Activate`. The
remaining steps of the activation are those of `KillSwitch`, and
`ActivationSettles` resumes `add()`. Hours are groups of `TicksPerHour` moments:
what the buckets forget is what differs between two moments of an hour. The
window is scaled from 24 to `Window`.

### AuditLog, LiquidLedger, CassandraLedger

In both ledgers SHA-256 is free of collisions: the hash of an input is the input.
In `LiquidLedger`, `written` remembers what `append()` stored, and `Alter` assigns
to one field of a stored object, which `append`, `query` and `getAll` hand out: its
body, `resource_id`, number, `prev_hash`, or its hash, to nonsense or to what hashing
the altered fields again gives. A chain of hashes cannot make every alteration visible,
and this one makes fewer visible than it could: `resource_id` is not hashed, the
`prev_hash` of an entry that is not the first of the range is not compared, and a last
entry hashed again has no successor to contradict it. `VerdictIsSound` says what
remains. `BlameIsJustified`: an entry is blamed only if it, the hash of the one before
it, or the numbering was altered. `HashVouches`: whoever keeps one hash that `append()`
returned is told of every change to what was hashed up to it. `design.md:1052` says more:
"Any modification to a historical entry must cause hash verification to fail for all
subsequent entries". The first mismatch ends the check, and the three alterations named
pass it.

In `CassandraLedger` an entry is one call of `append()`: `select` until
`getLatestEntry()` has found a row or looked into `Probes` partitions, then
`insert`. An INSERT with an existing primary key replaces the row (`Upsert`). A
statement can fail after it was applied. `month` is the clock. Four constants
name the environment: `Overlap` (calls of `append()` overlap), `MaxLate` (how old
`input.ts` may be), `ZoneSkew` (the process runs east of Greenwich, where
`new Date(y, m, 1)` lies in the month before in UTC), `MaxQuiet` (longest
silence). `tampering`, chosen in the initial state, says whether somebody changes payloads
in the table past the repository. `MonthIsVerified` is about both cases. The refinement maps
a row to its id, payload and month, so that a row changed or replaced is a step `AuditLog`
does not have: the repository implements it if nobody else writes to the table, and
nothing is claimed of a table to which others write.

The backend has a copy of the ledger in memory whose `verifyIntegrity()` hashes the
entry with its own hash (`backend/src/engine.ts:54`), and so blames the first untouched
entry, where `agents/core.test.ts:739` has "verifyIntegrity returns valid for untampered
entries" of the original. It is not modelled: one append shows it.

### Execution

A request is one proposed action: the caller simulates it on a twin, scores the
result and routes it. `route()` awaits nothing but the lookup in the plan cache,
so a request is `Simulate`, then `Route`, then `Resume` after the lookup, and
others may store, expire or invalidate plans in between. Scores are kept in
hundredths of a point and rounded where the code rounds. Three things a reader
may not expect, all in the code: the indicators of a simulation never give a
score above 52, hence the rule that asks a human above 70 never decides about a
simulated action; a consolidation of a resource onto itself counts as a saving;
`updateState()` changes a timestamp and nothing else.

### Rollback

A call of `rollback()` takes its snapshot, writes to the ledger, restores the
resources one by one and escalates when it did not succeed; each await has its
action and its rejection. Each of the three dependencies is optional (`supplied`):
without `writeLedger` nothing is recorded before the restore, without `restoreResource`
a call within its time succeeds and restores nothing, without `escalateToGovernor` a
failure is only answered. Each property is about managers that were given what it
speaks of. The order of the resources in the array is any order.
`late` says that the 300 seconds have passed, `disturbed` is history: the
resources that something else changed after they were restored. `captureSnapshot`
may replace the snapshot of an action while it is being restored. What the code
does not escalate, although `requirements.md:93` speaks of every failed rollback:
a last resource whose restore itself takes longer than 300 seconds (the time is
read before each resource only), and a rejected write to the ledger (the call
rejects before anything was restored). `VerdictMatchesEscalation` states what is
escalated.

### Orchestrator

`routingTable` is a sequence because `findAgent()` takes the first handle of a tenant
and type, and `Map.set()` of a known id keeps its place. A ping is outstanding from
the round that sent it until it settles with what the agent was when it answered, so
rounds overlap and a late answer can set the flag of an agent that has died since;
`DeadIsDetected` says the polling finds it nevertheless, if from some time on that
agent's pings do not reject (`PingsResolve`). A ping that rejects ends its check and
leaves the flag as it was: an agent whose pings always reject stays available, which
`DeadAgent` shows. `coordinateA2A()` races its dispatch against a timer; what the caller
hears is the outcome of a `Promise.race`, about which there is nothing to prove.
`alive` is external.

### Governor and Tags

`Monitor` judges a rate against the window before adding it, with the three-sigma
test in whole numbers (multiplied out, no root is needed). `SeedSamples` adds history at
any time and in any order; pruning stops at the first young sample, and `disordered`
keeps the agents whose window may therefore hold old ones. An isolation is four
external effects in three phases: suspension and revocation together against five
seconds, then the ledger, then the administrators. Each effect may complete after the
timeout was reported. `ContainedIsComplete` says that only a complete isolation is
reported as one. `Sanitize` treats a payload as the families of patterns found in it: an injection that
none of the regular expressions finds is, in the model, no injection, so nothing is
said of how good they are.
`Tags` has the two rules on required tags, that of ingestion (blank values count as
missing) and that of execution (only the empty one does), and `IngestedMayExecute`
that the first implies the second.

### SlaTwin

`EvaluateContract` is the synchronous part, which sets the state, and
`WriteReturns` the ledger write or warning it awaits, which may reject. `entered`
counts the transitions: `BreachesAreAttempted` says one write was begun for each,
whatever overlaps. The penalty written is always the major one; `ExposureCoversPenalty`
compares it with what the calculator would charge.

### Auditor, Finance, Carbon

Averages and deviations are multiplied out to whole numbers as in `Governor`. In
`Auditor`, `IngestBilling` is an event of any timestamp, so the window is not sorted
and pruning stops at the first young entry, as in the code; imports overlap at the
await of `onLeakage()`, and `against` is history: how many records were stored when
the import compared its record. `Finance` reconciles the executed actions of the last
24 hours with bills and names a cause for each overrun; `CostPerCorrectResult` counts
failed sessions. `Carbon` has one region: answers of polls overtake one another. The
scheduler compares with the `current_window.intensity` its caller hands it, which is any
intensity and need not be that of the feed.

### A2A and MCP

The HMAC is the pair of the secret and what is hashed. `JSON.stringify` with a list
of the message's own fields drops the fields of the payload, so the signature does
not cover the payload: `Canonical` has no payload, and `AcceptedWasSigned` claims the
rest of the message only. In what is received any field may differ from what was sent,
the signature included: it is only assumed to be one that a holder of the secret made. In `MCP`
a payload of every length around a multiple of the chunk is cut and any subset of
the chunks arrives in any order; `AnswersMatch` covers every shape of request.

### AP2

`AP2Handler` stores nothing: each operation returns a changed copy of a
transaction, and the earlier copies stay with their holders. `copies` is the set
of all copies, and every operation applies to any of them. `clock` is the clock
of whoever calls and may be set back. The handler only reads
`cumulative_spent_usd`; who keeps it is outside the repository and is modelled as
`Charge`. `Serial` says that the next transaction waits for the charge of the one
before: without it two transactions are checked against the same total.
Three remarks. A mandate that does not ask for the governor makes a transaction
SUBMITTED at once, without validation, where `design.md:964` says "No AP2
transaction may be submitted without prior validation.": the property is about
mandates that do ask. A rejected or already submitted copy can be approved and
submitted again. A transaction that exceeds only the cumulative limit ends in
`SchemaValidationError`, because `protocols/ap2/handler.ts:89` looks for "exceeds" and the
reason reads "would exceed".

### Ingestion

A run polls the providers one after the other and then takes the records one by one:
normalization, the tag check, the publication, with an await at each. An answer is a
sequence of rows with and without the tags asked for. A poll never rejects:
its failure counts as no records and changes the connector's status. A rejected
publication does reject the run. `EveryRecordIsAccounted` says that each record a run
has come past is either on the topic and among the events returned or a dead letter,
queued or drained, because it does not normalize, so that a rejection loses the records after it and no other; the
broker may store what it reports as refused.

### Messaging

`EchoProducer` connects on first use, and sets its field before the connection is
awaited. A client whose connection failed stays in the field: every later
publication is then refused until `disconnect()`. `KillSwitchConsumer` keeps a flag
`running`, set before `run()` is awaited: a `start()` that overlaps a `stop()`, or whose
`run()` rejects, can leave it set without a client that consumes, and a `disconnect()`
that rejects (`StopRejects`) leaves it cleared with one. `RunningIsConsuming` therefore
speaks of calls that did not overlap and did not fail. After a `run()` that rejected, the
next `start()` resolves at once and nothing consumes.

A consumer subscribes with `fromBeginning: false`. `Join` is its entry into the group:
it resumes from the committed offset, and where there is none, or retention
(`Expire`, an hour for this topic) has passed it, at the end of the topic. Offsets are
committed some time after their records were read. A record comes again when its
handler rejected or its offset was not committed. `HandledInOrder` says that from the
last such beginning on no event that could be read is passed over, and each is handled
after those before it. What was appended before it may be lost (`MissedEvents`).

A tenant may have any name that `tenantTopic()` accepts, also `raw`, `events` or
`governance`, whose prefix is that of system topics. `TopicsAreOfTenants` says of all
other tenants that no deletion, however long delayed, takes a system topic and that no
access rule opens one to them; and of every topic that is not the system's, that a
tenant reaches it exactly if it is the tenant's. For a tenant of such a name the prefix
rule does open system topics, where `acl.ts:4-6` keeps them for internal accounts, and
its deletion deletes them (`admin.ts:110`), where the comment of `deleteTenantTopics()`
speaks of "per-tenant topics".

### Stores

Five parts with a clock. The accumulator's `add()` is an increment and then a sum of
24 keys; the health registry's mark is a read and then a write, which can undo a
heartbeat in between (`overtaken`); `invalidate()` scans, reads and deletes; the twin
store scans and reads; the shared clients of Redis and Cassandra are closed by calls
that may overlap. Each property names the interleaving in which the code loses
something, and says that it loses nothing otherwise.

### Databases

`withTenantClient()` is one action per statement, each of which may fail or lose the
connection; `Work` may swallow the error of one of its queries, after which COMMIT
resolves although the server rolled back. The statement `SET LOCAL ... = $1` takes no
parameter in PostgreSQL; the model follows the code's intention and notes here that
the server would refuse it. `release()` gets no error, so a connection on which only
the ROLLBACK failed goes back to the pool with its transaction open (`unended`); the
next call's BEGIN is then a warning and its COMMIT commits both, where `pool.ts:66` has
"Commits on success, rolls back on error." `NothingIsHalfDone` says that nothing else lets
anything be committed for a call that did not ask for it.

`initKeyspace()` runs the pieces `split(";")` makes of the three scripts, in order, and
skips those that begin with a comment. It never resolves, although it should "Initialise
keyspace and schema from .cql files, then connect" (`client.ts:63`). Without a keyspace,
CREATE KEYSPACE is among the skipped, because the file begins with a comment, and the USE
after it is refused. With the keyspace there, the `;` in the comment of `schema.cql:35`
cuts CREATE TABLE in two, and neither half is a statement. The one in the header of
`cold-tier.cql` would be the next to stop it, but is never reached. `BootstrapStopsShort`,
a part of `StorageInv`, says that no table is ever created. The bootstrap client stays open
when the call rejects.

### Provisioner, Reasoning, Security

`Provisioner` creates the objects of five steps one call at a time, and has no clean-up and
no step that tolerates an existing object: a call that failed half-way cannot be
repeated (`OneAttemptProvisions`). In `Reasoning` runs of a tenant overlap, and each
gets the budget that was left when it began, so together they may exceed it. Nothing
holds the work to what it is given either: `CostTracker` adds any cost it is handed
(`excess` counts what went beyond). `BudgetHolds` is about both: what a tenant spends
exceeds the budget by no more than that where no runs overlapped, the budget for each
successful run otherwise, and a run begins only with something left. The tracker
sums over all sessions of a tenant, where `design.md:596` has a budget per session. A run whose work rejects answers
"exhausted" although it is not. `Security` is a request in its four calls with
revocations in between: a use of a key revoked before `logUsage()` is not logged.
`keyIndex` is written by `generate()`, read by nothing and never cleaned.

### Center and Console

`Center` is the server: `shared` is the state of all tenants, `wire[s]` what was sent
on a socket and has not arrived. A message is a function from the items it sets to
their values; a snapshot sets all. `Console` is one tab: `page` says whether the
console is mounted, `timer` whether a reconnection is due, `shown` is the store.
`missed` and `edited` are history: items changed for another tenant, and items
changed by the tab itself. `CenterInv` has five parts besides the types:
the server's clients are the open sockets; the console's flag is backed by an open
switch of the engine, if there was an engine; the tab has exactly one socket or a
reconnection due while the console is shown; what it shows, once everything has
arrived, is the server's state, but for what it missed or edited; and a sign-out is
not undone by a sign-in begun before, unless two were under way at once.
`ConnectAs` leaves out the `catch` around `new WebSocket()`: the address is a constant of
the build with the slug behind it, so the constructor throws always or never.

Remarks, all visible in the model. A command of one tenant changes the state of all
and is broadcast to that tenant only. The slug a console sends (`acme-corp`) never
is the tenant of `broadcastAll()` (`tenant-acme`), so a connected console gets no
live events, while being connected stops its own simulation. No view uses `send`:
its buttons change the tab alone (`ConsoleKillSwitch`). `killSwitch.activate(..., [])`
of the engine opens the switch and then fails, because the server hands it no ledger;
deactivation never closes it. After a reconnection a snapshot's events are put in
front of those already there. `POST /api/anomaly/detect` without a cost pushes `NaN`
into the history (`Number(undefined) ?? 1.0`, `backend/src/server.ts:259`).

## Runs

Passing runs, and what their bounds are for:

| Run | Shows | Bounds |
|---|---|---|
| `KillSwitch` | the circuit leaves OPEN only for a reset that saw the latest activation (`FailSafe`), a resolved activation published, recorded and accounted for every agent, the ledger never claims an unpublished halt, nobody who confirmed is reported, a circuit closes only on a fresh verification, every activation ends | 2 tenants, 2 agents, 2 calls, 1 administrator, all four dependencies may reject: two calls of one tenant overlap, two agents answer differently |
| `DowSafety` | a tenant above its limit is stopped unless an administrator intervened after its last spend; an exceeded limit is reported when `add()` resolves; the buckets count between 23 and 24 hours | 3 calls, 6 moments, window of 2 hours so that spends leave it |
| `Ledgers` | in memory, `verifyIntegrity()` over any range blames no entry without a cause, and a range valid up to a hash somebody kept is what was appended (`VerdictIsSound`); in Cassandra, when appends do not overlap, acknowledged entries stay, the rows are one gapless chain across months, verification of the month is exact also when payloads were changed, and `AuditLog` is implemented if nobody else writes | in memory 3 entries, 2 resources and 3 assignments to any field: enough to change an entry, hash it again and repair the next, or to renumber; 3 rows over 6 months, with and without tampering: silences up to 2 months use all 3 probes |
| `Execution` | a saving is one the after-state shows, worse indicators never lower the risk, the cache decides exactly when a plan is stored and valid at the lookup; a success restored one snapshot, nothing is restored without a ledger entry, a failure is escalated and a success is not | twins of 2 resources, every action; plans expire within the run; 2 overlapping rollbacks of 2 resources; managers with all dependencies and without each of them, every one of which may reject |
| `Agents` | `OrchInv`, `GovernorInv`, `SlaInv`, `AuditorInv`, `FinanceInv`, `CarbonInv` as described above; a dead agent whose pings do not reject is found (`DeadIsDetected`) | 2 outstanding pings per agent (two rounds overlap), 2 tenants with one id each and a shared one; windows of 4 samples with rates far enough apart to exceed three sigmas; 3 evaluations of 2 contracts; 2 imports of 2 records; bills at the edges of 10 % and 50 %; the clock passes each window |
| `Platform` | the limit and the order of AP2; signatures, trust, streams and answers (`ProtocolsInv`); ingestion and messaging (`PipelineInv`); stores, database, provisioning (`StorageInv`); reasoning and keys (`DecisionInv`) | 2 transactions of 4 copies, amounts below, at and above the limit; 2 messages and 3 handlers, payloads of up to 5 bytes in chunks of 2; 2 runs over 3 providers; 3 publications, 2 starts and 2 stops, tenants `t1` and `events`, 3 records that may expire before they are read; 3 overlapping adds over 5 hours with a window of 3; 3 transactions on 2 connections, the bootstrap with and without a keyspace; 2 provisionings; 3 runs of a budget of up to 3 that cost up to 4; 2 keys and 2 requests |
| `CommandCenter` | `CenterInv`; two heartbeats remove a client whose tab is gone (`GoneIsRemoved`) | 3 sockets: a reconnection and a change of tenant; 2 changes of the state, one by another tenant; one edit |

Violated runs. Each is a disagreement between the code and what the repository says
of it:

| Run | Shows |
|---|---|
| `KillSwitchPollHangs` | one poll that never settles and no escalation ever happens |
| `DeadAgent` | an agent that died and whose pings reject stays available for ever, although the health checks go on |
| `MissedEvents` | an agent that comes back before its group has committed an offset begins at the end of the topic and skips the events in between |
| `CassandraTwoWriters` | two appends take one primary key, one entry vanishes |
| `ConsoleKillSwitch` | the console says that all agents are halted when only its own store was changed |

The assumptions under which `Ledgers` checks Cassandra are each necessary.
`CassandraTwoWriters` drops one. `ZoneSkew = 1` refutes `AcknowledgedIsStored`: the
month before is searched and the latest row of the month replaced. `MaxLate = 1`
refutes `Linear` (the partition follows `input.ts`, the predecessor is searched from
the clock), and so does `MaxQuiet = 3`: three partitions are searched, and a longer
silence restarts the chain at the genesis hash. Two weaknesses of `verifyIntegrity()`
limit `MonthIsVerified` to ranges that start at the month's first row: the rows
fetched are the first of the current month, as many as the range is long, and the
range is applied afterwards; and no row's `prev_hash` is compared with the row
before. In the same way, two administrators in `KillSwitch` refute
`CloseIsVerified`: `close()` completes a HALF_OPEN that another one began. An
activation whose publication rejects has opened the circuit and leaves no entry in
the ledger, where `design.md:916` asks for one. And as the notification of a spending
limit follows `await activateKillSwitch`, it is skipped when the activation rejects.

Deadlock is not checked in these runs: calls are finite in number, and a system
whose calls have ended and whose administrators have nothing to do has stopped
rightly. Where members of a set are only compared and no temporal property is
checked, symmetry is used.

**Fairness.** `FairSpec` of `KillSwitch` assumes that each of the awaited
dependencies settles (in a resolution or a rejection), that timers fire and that
the deadline passes. Nothing obliges anybody to call, reset or close. Agents in
`Hanging` are exempt, which is what `KillSwitchPollHangs` uses: the code has no
timeout on a poll, so nothing justifies fairness for a poll that hangs.
`OrchFairness` assumes that the interval of the health check fires, that an agent's
pings settle and that the timer of a request does; whether a ping resolves or rejects is
open, and `DeadIsDetected` asks for resolution in its own premise (`PingsResolve`). `ConsoleFairness` assumes the server's interval of 30 seconds
and nothing of the browser or the network: a socket whose close never arrives is
exactly what the heartbeat is for.

## Proofs

`ControlProofs`, first of the kill-switch, for any sets of tenants, agents and calls, any
faults and any hanging agents: `TypeCorrect`, `FailSafeHolds`, `ResolvedIsAccountedHolds`,
`RecordedIsPublishedHolds`, `EscalationIsTrueHolds` follow from one inductive
invariant `IInv` (`Invariance`). None of the four is inductive alone.
`IInv` adds what the program counter says (`Progress`: a call past `publish` has
published, one past `ledger` has recorded as well; `Escalated`: a call reports
only after its deadline and as its last step, so no later answer can contradict
the report). `CloseIsVerifiedHolds` needs two facts more: the activation kept for
a tenant, and the one an administrator verifies, is a call that began for that
tenant (`Home`), and while an administrator verifies, the circuit is OPEN again or
that activation is still the latest (`Current`). It assumes `SingleAdmin`; with
two administrators TLC refutes the property.

The same module, of the protection against denial of wallet, for any tenants, calls,
amounts and windows. It is one more caller of the kill-switch (`ProtectionUsesSwitch`), so `IInv` holds of the
composition, and `DowInv` is proved on top of it. `OverLimitIsStopped` needs the
meaning of the buckets (`BucketsAreSums`: each holds what was spent in its hour) and
that nothing lies in the future (`FutureIsEmpty`: an hour that begins starts at zero),
for then the sum only falls as the clock moves, and a spend that lifts it above the
limit opens the circuit in the same step. `ExceededIsReported` needs `Accounted`, which
follows a call that exceeded through its activation. `WindowIsBounded` compares sums
over the moments of hours, by the laws in `SetSums`.

`LedgerProofs`, for ledgers of any length and any assignments: `TypeCorrect`,
`VerdictIsSoundHolds` and `Implementation` (`AppendOnlySpec`, the ledger whose entries
nobody alters, implements `AuditLog`, by the refinement mapping that takes bodies and
resources). The invariant `ChainInv` says of a stored entry no more than its types
(`EntryOK`), since any field can have been assigned to, and of what `append()` wrote that
its number is its place and its hash that of its fields (`WellWritten`). From there the two
halves go apart. `JustBlame`: an entry that is as written, after one that has the hash it
was chained to, passes. `Vouching`: hashes are injective, so an entry that passes with a
hash `append()` gave out has the content that was hashed, hence the hash of its
predecessor is one `append()` gave out as well, and so on down to the beginning of the
range.

The same module, for a repository of any number of entries and months: `RepositoryTypeCorrect`,
`AcknowledgedIsStoredHolds`, `LinearHolds`, `MonthIsVerifiedHolds`, and with
`RepositoryImplementation` the refinement of `AuditLog` if nobody else writes to the table
(`MonthIsVerifiedHolds` is also about a table to which somebody does). All assume `Careful`, the four
conditions that `Ledgers` instantiates (no overlap, no late input, the zone UTC, silences
of at most two months); the section above says how each of them is necessary.
`NoneIsNoRow` says that null is no row. `RepositoryInv` says that the table is one chain
in the order of its months, that its newest row is recent enough for the three
partitions searched, and that what the one running call has found is true of the table
(`CallOK`). A statement that fails after it was applied ends its call, and the next one
finds its row.

`ActionsProofs`, for any resources, snapshots, plans, twins and overlapping calls.
Of rollbacks each result is about managers that have the dependency it speaks of.
`SuccessRestores` follows because what a call has restored is as in its own
snapshot or was disturbed (`RestoresAsCaptured`), which a snapshot captured meanwhile
cannot change; `RestoreIsRecorded` because a call that restores has written
(`RecordsFirst`); `VerdictMatchesEscalation` because escalation is the last thing a
call does. Execution: `CachedIsExact` rests on the plans in the cache being those
stored and not invalidated (`CacheIsPlans`), and on what a suspended request knew
before its lookup (`LookupIsExact`). `RiskIsMonotone` and `SavingsAreReal` are about
the formulas: the scores are monotone in each indicator, whatever is rounded between,
and costs are sums over the resources of a twin.

`ProtocolProofs`. Of AP2, for any transactions, amounts, window and clock:
`ApprovalPrecedesSubmissionHolds` needs that a copy with an approval has its timestamp
(`Approved`): submitting copies the timestamp, and the check of the order only looks
at one that is there. Every operation adds one copy, so one lemma (`OneMoreCopy`)
serves all of them. `TotalIsWithinLimitHolds` needs that the copies of a transaction
agree on its amount (`SameAmount`) and that what was spent is the sum of the charged
transactions (`Accounts`): with at most one initiated and not charged, the check of one
amount against what was spent bounds the sum of all.

Of A2A, for any handlers, cards and messages (`A2AStrong`): what was sent carries the
signature over its own canonical form, so a message changed on the way that still
verifies differs from one that was sent in what the form leaves out only. Of MCP, for
any payload and any size of the chunks (`MCPStrong`): the chunk numbered i - 1 holds the
bytes from (i - 1) times the size up to the next multiple or the end (`DataFacts`), and
pieces that meet concatenate to the whole (`FlattenIsPayload`, by the least place where
the fold of the library and the prefixes of the payload would differ). As many different
numbers below the total as the total are all of them, so what arrived in any order and
any number of times is enough.

Of the Kafka clients, for any calls, tenants and event types and any number of records
(`MessagingStrong`, of which a step of one client disturbs one part only):

- `ProducerOK`: a call that is to publish to the kill-switch topic has stored the event
  on the governance topic, which is never forgotten, whatever becomes of its connection.
- `KsOK`: as long as no call of the consumer failed or overlapped another, the consumer is at rest
  (`KsAtRest`), or no client consumes and either one start is at work on the client that
  `ksConsumer` names, with the flag set from its subscription on (`OneStarts`), or one
  stop waits with the flag cleared (`OneStops`).
- `RecordsOK`: since the consumer last began at the end of the topic, whatever it has read
  or committed behind was handled (`ReadIsHandled`), and each record after those before it
  (`HandledFirst`), which is why a record that comes again is still in order.
- `TopicsOK`: what a deletion listed begins with its tenant's name, and so a system topic is
  in it only if its own first part is that name; this stays true however long the deletion is
  delayed.

Of the ingestion, for any runs, providers, answers and clock (`IngestStrong`).
`ConnectorsOK` has that no poll has succeeded since a failure that is remembered.
`RunsOK` has that a run is past a record if it is a dead letter, once, or an event
(`RunAccounted`), that letters are different and not drained before they are taken
(`LettersOK`), and that an event belongs to a record its run has come to, which
normalizes (`EventOK`): the one record for which there may be an event that was not
counted is that of a rejected publication. Up to its next await a run deals with several records at
once: `RefusedIs` is about what this adds to the queue, `ProceedKeeps` about the run.
`RecordTags` says that a connector makes no tag from anything but a label or a constant.

`PlatformProofs` takes these invariants to the composition `MCPlatform`, where one
component moves at a time (`ProtocolsMoveAlone`, `DecisionsMoveAlone`,
`StorageMovesAlone`, `DeliveryMovesAlone`), with its own of the rest. `ProtocolsInvHolds` and `PipelineInvHolds` are the first results. `DecisionInvHolds` rests on
`ReasoningStrong` (a run that works alone was given exactly what the budget has left; the
spending is at most the budget times the successful runs, and what their work cost beyond
what it was given; and `FoldIsLeft`: the fold over
the claims leaves what the unverified ones have taken their points of, whatever their
order) and `SecurityStrong` (a request past validation holds the tenant and the role its
key was issued with, also when the key is revoked meanwhile). `StorageInvHolds` is about
the stores, the database and the provisioner:

- `StoresStrong` has a part for each store. The rolling sum only falls when the clock
  moves (`RollsOut`: the hour that begins is empty), so a window over its limit has a call
  that increments, has been told, or was rejected (`Told`). A mark that has read is as
  recent as the record, unless a heartbeat came between. A plan that was there when an
  invalidation began is among its keys until they are deleted. Unless closes of a module
  overlapped, the one call that closes has the client that the module hands out.
- `DatabasesStrong` says which connection a call in each phase holds, that no other call
  holds it, and whose context and rows its transaction has; a connection nobody holds is
  clean if its ROLLBACK was answered, and one of those whose ROLLBACK was not (`unended`)
  may hold rows of whoever used it. `ScriptOK` has where the bootstrap can be: before the
  USE of the keyspace, or before the first half of the table.
- `ProvisionStrong`: what a call at its place has created exists (`Made`), and only one
  call is past its first object (`Past`), since the namespace can be created once and is
  never deleted. The last object is created after all others.

`AgentsProofs` has one invariant for each of the six agents, each for any agents,
tenants, payloads, batches and orders of answers:

- `OrchStrong`: whatever a ping is outstanding for stays registered, so a late answer
  marks nobody else. It gives `OrchInv`.
- `SlaStrong` carries the penalty of each write and the counts. It assumes
  `SensiblePenalties`, that a major breach costs no less than a minor one: the contract's
  validation does not compare them, and without it the recorded penalty is too low.
- `GovStrong` orders the samples of an agent, unless history was seeded out of order
  (`disordered`), and says what each phase of an isolation
  and of a refusal has behind it (`InPhase`, `Stopped`). That a rate of the own window is
  no anomaly is claimed of windows of at most ten samples: among n numbers one can lie at
  most sqrt(n - 1) standard deviations from the mean (`DeviationBound` in `SetSums`),
  which exceeds three from n = 11 on. The bound is sharp; the theorem is about windows of
  every length.
- `CarbonStrong`: a failure that is remembered lies after the last answer, in whatever
  order the answers came.
- `FinStrong`: what was executed before the last run is covered, and the last run is no
  longer ago than the period. `DailyReconciliation` says that this period is within the
  window of 24 hours which the reconciler looks back.
- `AudStrong`: an import knows how many of the stored records it has compared its record
  with, or has reported it (`ComparedWith`); records stored since by others are what
  `MissedOnlyByOverlap` allows for.

`ConsoleProofs`, for any number of connections, tenants, actions, live figures, commands
and edits: `CenterInvHolds`. The invariant `CenterStrong` has four parts. `ServerOK` is
what the server knows. `SocketsOK` says that while the console is shown there is one live
socket or a timer and never both, and that a socket the tab has not made is unknown to
the server: a new connection is therefore owed nothing until its snapshot. `WireOK` says
that what is on the way is on the way to a live socket; `ShownIsShared` is then kept
because the last message about an item decides what arrives (`LastDecides`), one more
message decides its own items only (`SentArrives`), and receiving the first changes
nothing of what arrives at last (`ReceivedArrives`). `SignInsOK` says that two sign-ins
which are pending were under way together, and so was one pending behind the console.
It assumes of the items that no action and no live figure has the name of the
kill-switch flag (`CenterAssumption`).

`SetSums` has what all of them use. `StrictSubsets` is induction over the subsets of a
finite set, stated of a set of sets instead of an operator; from it follow that
`MapThenSumSet` and the folds are the sums one expects (`SumRemove`, `SumUnion`,
`SumMonotone`, ...), that `Max` and `Min` of a finite set are in it and bound it, and
the inequality between a sum of squares and the square of a sum.

In both compositions, of the ledgers and of the actions, each component takes steps of its
own or none (`EachIsALedger`, `EachIsAnAction`), so the types of both hold there as well:
`LedgersTypeCorrect`, `ActionsTypeCorrect`.

Only model-checked: `ActivationEnds`, `DeadIsDetected` and `GoneIsRemoved`, since liveness
under fairness is out of the prover's reach, and the refutations. Every invariant that a
passing run checks is proved.

## Plan

Every component of the inventory but the backend's copy of the ledger has a module, and
every invariant a theorem. What is
left is to extend the models where the code does more: the rest of the views of the
command center, and the figures that `backend/src/engine.ts` derives.

## Not modelled

Formatting, logging, metrics, DDL, Kubernetes manifests, React views and styles,
generated and sample data; the language models and cloud vendors, which are I/O.
Reads without effect (`query`, `exportRange`, `getStatus`) appear only where a
property depends on them. The anomaly detection, the ROI and the SLA figures which
`backend/src/engine.ts` computes on its sample data repeat those of the agents, and its copy
of the ledger fails its own check at the first entry; the
summaries of the variance analyzer, the cost impact and the other figures of the ROI
engine are arithmetic on their arguments. Floating-point rounding is left out: sums
and thresholds are exact. `PROJECT.json` lists every component with its status.
