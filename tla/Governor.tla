-------------------------------- MODULE Governor --------------------------------
(***************************************************************************)
(* The governor's monitors in src/src/agents/governor: behavior-monitor.ts *)
(* flags an agent whose rate leaves its seven-day baseline and calls       *)
(* rogue-agent-isolator.ts, which contains it; injection-sanitizer.ts      *)
(* stops payloads and tag-enforcement.ts stops actions.                    *)
(* Suspension, revocation, ledger and notification are external: each      *)
(* completes or rejects at any time, also after nobody waits for it.       *)
(***************************************************************************)
EXTENDS Integers, Sequences, FiniteSets, SequencesExt, FiniteSetsExt, Tags

CONSTANTS
    GovAgents,
    Rates,          \* actions per hour
    LastDay,        \* bound on the clock, in days
    MaxSamples,     \* bound on the samples kept
    HistoryDays,    \* the days of seeded samples
    Payload,        \* the payloads given to sanitize(): the patterns found in each
    RequiredTags

SEVEN_DAYS == 7
Families == {"math_injection", "logical_injection", "role_override"}

ASSUME GovAssumption ==
    /\ Rates \subseteq Nat /\ HistoryDays \subseteq Nat /\ Payload \subseteq SUBSET Families
    /\ LastDay \in Nat /\ LastDay >= SEVEN_DAYS /\ MaxSamples \in Nat \ {0}

Effects == {"suspend", "revoke", "ledger", "notify"}

VARIABLES
    day,        \* the clock
    samples,    \* of each agent: [timestamp, rate] in the order they were added
    disordered, \* the agents given a sample after a later one (history)
    lastFlag,   \* of each agent: the window it was last judged by, the rate and the day
    isolation,  \* of each agent: [phase, and the state of each effect]
    sanitation, \* of each payload: [phase, released, and the state of each effect]
    resources,  \* the resources put up for execution
    executed    \* those that passed

govVars == <<day, samples, disordered, lastFlag, isolation, sanitation, resources, executed>>

NoEffects == [e \in Effects |-> "none"]

GovInit ==
    /\ day = SEVEN_DAYS
    /\ samples = [a \in GovAgents |-> <<>>] /\ disordered = {}
    /\ lastFlag = [a \in GovAgents |-> [window |-> <<>>, rate |-> 0, day |-> day, flagged |-> FALSE]]
    /\ isolation = [a \in GovAgents |-> [phase |-> "idle", effects |-> NoEffects]]
    /\ sanitation = [p \in Payload |-> [phase |-> "idle", released |-> FALSE, effects |-> NoEffects]]
    /\ resources = {} /\ executed = {}

-----------------------------------------------------------------------------
(* Behavior monitor.                                                       *)
\* The loop of pruneOldSamples() stops at the first sample that is young enough.
Pruned(s) ==
    LET young == {i \in DOMAIN s : s[i].timestamp >= day - SEVEN_DAYS}
    IN  IF young = {} THEN <<>> ELSE SubSeq(s, Min(young), Len(s))

RateSum(s) == FoldFunction(+, 0, [i \in DOMAIN s |-> s[i].rate])
SquareSum(s) == FoldFunction(+, 0, [i \in DOMAIN s |-> s[i].rate * s[i].rate])

\* More than `sigmas` standard deviations above the mean, in whole numbers:
\* with n samples, sum S and sum of squares Q, n*n times the variance is n*Q - S*S.
Exceeds(s, rate, sigmas) ==
    LET n == Len(s)
        above == n * rate - RateSum(s)
        spread == n * SquareSum(s) - RateSum(s) * RateSum(s)
    IN  spread > 0 /\ above > 0 /\ above * above > sigmas * sigmas * spread

IsAnomaly(s, rate) == Exceeds(s, rate, 3)

\* monitor(): the sample is added after it was judged; an anomaly isolates
\* (bound: one isolation of each agent).
Monitor(a, rate) ==
    LET window == Pruned(samples[a])
        flagged == IsAnomaly(window, rate)
    IN  /\ Len(window) < MaxSamples
        /\ flagged => isolation[a].phase = "idle"
        /\ samples' = [samples EXCEPT ![a] = Append(window, [timestamp |-> day, rate |-> rate])]
        /\ lastFlag' = [lastFlag EXCEPT ![a] = [window |-> window, rate |-> rate, day |-> day, flagged |-> flagged]]
        /\ isolation' =
               IF flagged
               THEN [isolation EXCEPT ![a] = [phase |-> "containing",
                         effects |-> [e \in Effects |-> IF e \in {"suspend", "revoke"} THEN "pending" ELSE "none"]]]
               ELSE isolation
        /\ UNCHANGED <<day, disordered, sanitation, resources, executed>>

\* seedSamples() of one sample; a longer history is several calls. It may come when the
\* agent is monitored already, and in any order of time.
SeedSamples(a, timestamp, rate) ==
    /\ timestamp <= day /\ Len(samples[a]) < MaxSamples
    /\ samples' = [samples EXCEPT ![a] = Append(@, [timestamp |-> timestamp, rate |-> rate])]
    /\ disordered' = IF \E i \in DOMAIN samples[a] : samples[a][i].timestamp > timestamp
                     THEN disordered \cup {a} ELSE disordered
    /\ UNCHANGED <<day, lastFlag, isolation, sanitation, resources, executed>>

NextDay ==
    /\ day < LastDay
    /\ day' = day + 1
    /\ UNCHANGED <<samples, disordered, lastFlag, isolation, sanitation, resources, executed>>

-----------------------------------------------------------------------------
(* Isolation: Promise.all() of suspension and revocation races ten         *)
(* seconds, then Promise.all() of ledger entry and notification.           *)
\* Mutant: Promise.any().
AnyDone(effects, of) == \E e \in of : effects[e] = "done"
AllDone(effects, of) == \A e \in of : effects[e] = "done"

NextPhase(phase, effects) ==
    CASE phase = "containing" /\ AllDone(effects, {"suspend", "revoke"}) -> "recording"
      [] phase = "recording" /\ AllDone(effects, {"ledger", "notify"}) -> "contained"
      [] OTHER -> phase

\* An effect completes. When the phase ends with it the next one starts.
EffectDone(a, e) ==
    /\ isolation[a].effects[e] = "pending"
    /\ LET done == [isolation[a].effects EXCEPT ![e] = "done"]
           phase == NextPhase(isolation[a].phase, done)
           starts == phase = "recording" /\ isolation[a].phase = "containing"
       IN  isolation' = [isolation EXCEPT ![a] =
               [phase |-> phase,
                effects |-> IF starts THEN [done EXCEPT !.ledger = "pending", !.notify = "pending"]
                                      ELSE done]]
    /\ UNCHANGED <<day, samples, disordered, lastFlag, sanitation, resources, executed>>

\* The first rejection of either Promise.all() ends isolate(); the other effect goes on.
EffectRejects(a, e) ==
    /\ isolation[a].effects[e] = "pending"
    /\ isolation' = [isolation EXCEPT ![a].effects[e] = "rejected", ![a].phase = "failed"]
    /\ UNCHANGED <<day, samples, disordered, lastFlag, sanitation, resources, executed>>

IsolationTimeout(a) ==
    /\ isolation[a].phase = "containing"
    /\ isolation' = [isolation EXCEPT ![a].phase = "failed"]
    /\ UNCHANGED <<day, samples, disordered, lastFlag, sanitation, resources, executed>>

-----------------------------------------------------------------------------
(* Sanitizer. A payload is what the patterns find in it: what is no match   *)
(* of any is, here, no injection.                                          *)
DetectPatterns(p) == p \cap Families

Sanitize(p) ==
    /\ sanitation[p].phase = "idle"
    /\ sanitation' = [sanitation EXCEPT ![p] =
           IF DetectPatterns(p) = {}
           THEN [phase |-> "safe", released |-> TRUE, effects |-> NoEffects]
           ELSE [phase |-> "recording", released |-> FALSE,
                 effects |-> [e \in Effects |-> IF e \in {"ledger", "notify"} THEN "pending" ELSE "none"]]]
    /\ UNCHANGED <<day, samples, disordered, lastFlag, isolation, resources, executed>>

SanitizeEffect(p, e, ok) ==
    /\ sanitation[p].effects[e] = "pending"
    /\ LET effects == [sanitation[p].effects EXCEPT ![e] = IF ok THEN "done" ELSE "rejected"]
       IN  sanitation' = [sanitation EXCEPT ![p] =
               [phase |-> IF ~ok THEN "failed"
                          ELSE IF @.phase = "recording" /\ AllDone(effects, {"ledger", "notify"})
                               THEN "rejected" ELSE @.phase,
                released |-> FALSE, effects |-> effects]]
    /\ UNCHANGED <<day, samples, disordered, lastFlag, isolation, resources, executed>>

-----------------------------------------------------------------------------
(* Tag enforcement: validateBatch() holds back what fails.                 *)
PutUp(tags) ==
    /\ Cardinality(resources) < 2
    /\ resources' = resources \cup {[id |-> Cardinality(resources), tags |-> tags]}
    /\ UNCHANGED <<day, samples, disordered, lastFlag, isolation, sanitation, executed>>

ValidateBatch ==
    /\ resources # {}
    /\ executed' = resources \ {x.resource : x \in BatchErrors(resources, RequiredTags)}
    /\ UNCHANGED <<day, samples, disordered, lastFlag, isolation, sanitation, resources>>

GovMonitorNext ==
    \/ \E a \in GovAgents :
           \/ \E rate \in Rates : Monitor(a, rate)
           \/ \E timestamp \in HistoryDays, rate \in Rates : SeedSamples(a, timestamp, rate)
           \/ \E e \in Effects : EffectDone(a, e) \/ EffectRejects(a, e)
           \/ IsolationTimeout(a)
    \/ NextDay
GovSanitizeNext ==
    \E p \in Payload : Sanitize(p) \/ \E e \in Effects, ok \in BOOLEAN : SanitizeEffect(p, e, ok)
GovTagNext == ValidateBatch \/ \E tags \in TagsOver(RequiredTags) : PutUp(tags)

GovNext == GovMonitorNext \/ GovSanitizeNext \/ GovTagNext

GovSpec == GovInit /\ [][GovNext]_govVars

-----------------------------------------------------------------------------
GovTypeOK ==
    /\ day \in SEVEN_DAYS..LastDay
    /\ \A a \in GovAgents :
           /\ Len(samples[a]) <= MaxSamples
           /\ isolation[a].phase \in {"idle", "containing", "recording", "contained", "failed"}
    /\ \A p \in Payload : sanitation[p].phase \in {"idle", "safe", "recording", "rejected", "failed"}
    /\ executed \subseteq resources

(* The baseline an agent was judged by begins with a sample of the last     *)
(* seven days, and has no older one unless its history was seeded out of    *)
(* order of time. No rate of the window is an anomaly: of at most ten       *)
(* samples none can lie more than three standard deviations from their      *)
(* mean. So an agent that goes on at the rate it was flagged for is not     *)
(* flagged again.                                                          *)
SeenRateIsNoAnomaly ==
    \A a \in GovAgents :
        LET last == lastFlag[a]
        IN  \A i \in DOMAIN last.window :
                /\ i = 1 \/ a \notin disordered => last.window[i].timestamp >= last.day - SEVEN_DAYS
                /\ last.flagged /\ Len(last.window) <= 10 => last.rate > last.window[i].rate

(* An isolation reported as complete has suspended the agent, revoked its   *)
(* access, written the ledger and told the administrators; nothing is      *)
(* written or told of one that timed out or failed before.                 *)
ContainedIsComplete ==
    \A a \in GovAgents :
        /\ isolation[a].phase = "contained" => \A e \in Effects : isolation[a].effects[e] = "done"
        /\ isolation[a].effects["ledger"] # "none" =>
               isolation[a].effects["suspend"] = "done" /\ isolation[a].effects["revoke"] = "done"

(* A payload a pattern matches is never released, and is only reported as  *)
(* rejected when the attempt is in the ledger and was told: a failure of    *)
(* either leaves the caller with an error, not with the payload.           *)
InjectionIsStopped ==
    \A p \in Payload :
        /\ sanitation[p].released => p = {}
        /\ sanitation[p].phase = "rejected" =>
               \A e \in {"ledger", "notify"} : sanitation[p].effects[e] = "done"

(* What ingestion lets pass is also let pass before execution, and nothing *)
(* is executed without a value for every required tag.                     *)
IngestedMayExecute ==
    /\ \A x \in resources : IngestValid(x.tags, RequiredTags) => EnforcedValid(x.tags, RequiredTags)
    /\ \A x \in executed, t \in RequiredTags : t \in DOMAIN x.tags /\ x.tags[t] # ""


(* What always holds of the governor's monitors.                           *)
GovernorInv ==
    /\ GovTypeOK /\ SeenRateIsNoAnomaly /\ ContainedIsComplete
    /\ InjectionIsStopped /\ IngestedMayExecute
=============================================================================
