---------------------------------- MODULE Carbon ----------------------------------
(***************************************************************************)
(* CarbonIntensityFeed of src/src/ingestion/connectors/carbon-connector.ts, *)
(* for one region, and CarbonAwareScheduler of                              *)
(* src/src/agents/green/carbon-scheduler.ts, which shifts a workload to a   *)
(* window of lower intensity. Time is in minutes. The API is external: its  *)
(* answers fail, or overtake one another.                                   *)
(***************************************************************************)
EXTENDS Integers, FiniteSets

CONSTANTS
    Intensities,    \* gCO2/kWh
    Tick,           \* the minutes by which the clock moves
    LastMinute,     \* bound on the clock
    StaleThreshold, \* staleThresholdMs
    MaxPolls,       \* bound on the polls under way
    NoReading       \* null

ASSUME CarbonAssumption ==
    /\ Intensities \subseteq Nat /\ Tick \in Nat \ {0} /\ LastMinute \in Nat
    /\ StaleThreshold \in Nat \ {0}

VARIABLES
    minute,
    polls,              \* when the polls under way were begun
    latestReading,      \* latestReadings and
    cachedReading,      \* LastKnownIntensityCache, of the region
    unavailableSince,   \* feedUnavailableSince
    lastAnswer,         \* when a poll last succeeded (history)
    warning,            \* the last staleness warning, with lastAnswer at that time
    decision            \* the last decision of the scheduler

carbonVars == <<minute, polls, latestReading, cachedReading, unavailableSince, lastAnswer, warning, decision>>

CarbonInit ==
    /\ minute = 0 /\ polls = {} /\ latestReading = NoReading /\ cachedReading = NoReading
    /\ unavailableSince = NoReading /\ lastAnswer = 0 /\ warning = NoReading /\ decision = NoReading

-----------------------------------------------------------------------------
BeginPoll ==
    /\ Cardinality(polls) < MaxPolls
    /\ polls' = polls \cup {minute}
    /\ UNCHANGED <<minute, latestReading, cachedReading, unavailableSince, lastAnswer, warning, decision>>

\* What an answer leaves of feedUnavailableSince. Mutant: it is not deleted.
StillUnavailable == unavailableSince
AvailableAgain == NoReading

\* Both maps are written together, so getReading() always finds the first.
PollAnswered(t, intensity) ==
    LET reading == [intensity |-> intensity, timestamp |-> t]
    IN  /\ polls' = polls \ {t}
        /\ latestReading' = reading /\ cachedReading' = reading
        /\ unavailableSince' = AvailableAgain
        /\ lastAnswer' = minute
        /\ UNCHANGED <<minute, warning, decision>>

\* The first failure since the last answer.
FirstFailure == IF unavailableSince = NoReading THEN minute ELSE unavailableSince

\* handleFeedFailure()
PollFails(t) ==
    /\ polls' = polls \ {t}
    /\ unavailableSince' = FirstFailure
    /\ warning' = IF minute - FirstFailure >= StaleThreshold /\ cachedReading # NoReading
                  THEN [stale_since |-> FirstFailure, timestamp |-> minute,
                        last_known |-> cachedReading.intensity, answered |-> lastAnswer]
                  ELSE warning
    /\ UNCHANGED <<minute, latestReading, cachedReading, lastAnswer, decision>>

PassMinutes ==
    /\ minute + Tick <= LastMinute
    /\ minute' = minute + Tick
    /\ UNCHANGED <<polls, latestReading, cachedReading, unavailableSince, lastAnswer, warning, decision>>

-----------------------------------------------------------------------------
\* At most 80 % of the present intensity, and not begun after the deadline.
Candidates(windows, deadline, current) ==
    {w \in windows : w.start <= deadline /\ 10 * w.intensity <= 8 * current}

\* schedule(), with the present intensity as the workload gives it: nothing in src/ takes
\* it from the feed. Of the best candidates it is the first in the list, which is any.
Schedule(windows, deadline, shiftable, current) ==
    /\ LET candidates == IF shiftable THEN Candidates(windows, deadline, current) ELSE {}
       IN  \/ /\ candidates = {}
              /\ decision' = [decision |-> "EXECUTE_NOW", deadline |-> deadline]
           \/ \E best \in candidates :
                  /\ \A w \in candidates : best.intensity <= w.intensity
                  /\ decision' = [decision |-> "SCHEDULE", deadline |-> deadline, window |-> best,
                                  savings |-> IF current > best.intensity THEN current - best.intensity ELSE 0,
                                  current |-> current, windows |-> windows]
    /\ UNCHANGED <<minute, polls, latestReading, cachedReading, unavailableSince, lastAnswer, warning>>

Windows == [start : {0, LastMinute, LastMinute + 1}, intensity : Intensities]

CarbonFeedNext ==
    \/ BeginPoll \/ PassMinutes
    \/ \E t \in polls : PollFails(t) \/ \E i \in Intensities : PollAnswered(t, i)

CarbonScheduleNext ==
    \E windows \in {{v, w} : v, w \in Windows}, deadline \in {0, LastMinute}, shiftable \in BOOLEAN,
       current \in Intensities : Schedule(windows, deadline, shiftable, current)

CarbonNext == CarbonFeedNext \/ CarbonScheduleNext

CarbonSpec == CarbonInit /\ [][CarbonNext]_carbonVars

-----------------------------------------------------------------------------
CarbonTypeOK ==
    /\ minute \in 0..LastMinute /\ polls \subseteq 0..minute
    /\ latestReading = cachedReading

(* A staleness warning is true: since the time it names, which lies at      *)
(* least the threshold back, no poll of the region has succeeded, in       *)
(* whatever order the polls under way end.                                 *)
WarningIsTrue ==
    warning # NoReading =>
        /\ warning.timestamp - warning.stale_since >= StaleThreshold
        /\ warning.answered <= warning.stale_since

(* A workload is moved only to a window that starts by its deadline, and by  *)
(* the intensity it is given at least a fifth is saved, more than by any    *)
(* other window that would do.                                              *)
MovingSaves ==
    decision # NoReading /\ decision.decision = "SCHEDULE" =>
        /\ decision.window.start <= decision.deadline
        /\ 5 * decision.savings >= decision.current
        /\ \A w \in decision.windows : w.start <= decision.deadline =>
               decision.current - w.intensity <= decision.savings

(* What always holds of the feed and the scheduler.                        *)
CarbonInv ==
    CarbonTypeOK /\ WarningIsTrue /\ MovingSaves
=============================================================================
