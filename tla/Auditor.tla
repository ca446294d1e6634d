--------------------------------- MODULE Auditor ---------------------------------
(***************************************************************************)
(* The auditor in src/src/agents/auditor: anomaly-detector.ts finds costs   *)
(* far above their window, anomaly-classifier.ts names the kind,            *)
(* playbook-generator.ts and cost-impact-calculator.ts say what it saves,  *)
(* and vendor-ingestion.ts looks for charges made twice.                   *)
(* Billing events arrive in any order of their timestamps. Imports of      *)
(* vendor records overlap, and reporting a finding may reject.             *)
(***************************************************************************)
EXTENDS Integers, Sequences, FiniteSets, SequencesExt, FiniteSetsExt

CONSTANTS
    Costs,          \* hourly costs
    Days,           \* timestamps of billing events, in days
    MaxWindow,      \* bound on the window
    Utilizations,   \* utilization_pct, of which 0 is idle for long
    Imports,        \* the overlapping calls of ingest(), each with a batch
    Batches,        \* the sequences of records [key, amount, day, rate] they may be given, of
                    \* which an empty one would do nothing; key stands for vendor and service
    DupWindow, MinImprovement

ASSUME AuditorAssumption ==
    /\ Costs \subseteq Nat /\ DupWindow \in Nat /\ MinImprovement \in Nat /\ MaxWindow \in Nat
    /\ \A b \in Batches : Len(b) \in Nat \ {0} /\ DOMAIN b = 1..Len(b)

VARIABLES
    window,     \* [cost, timestamp] of the one resource type, in order of arrival
    playbooks,  \* the playbooks made of detected anomalies
    stored,     \* the records of the tenant
    importing,  \* of each import: its batch, the position in it, and where it is
    reported    \* the findings handed to onLeakage()

audVars == <<window, playbooks, stored, importing, reported>>

AudInit ==
    /\ window = <<>> /\ playbooks = {} /\ stored = <<>> /\ reported = {}
    /\ importing = [m \in Imports |-> [batch |-> <<>>, at |-> 1, phase |-> "idle", against |-> 0]]

-----------------------------------------------------------------------------
(* Detection.                                                              *)
\* pruneWindow() stops at the first entry that is young enough.
PrunedAt(w, t) ==
    LET young == {i \in DOMAIN w : w[i].timestamp >= t - 7}
    IN  IF young = {} THEN <<>> ELSE SubSeq(w, Min(young), Len(w))

CostSum(w) == FoldFunction(+, 0, [i \in DOMAIN w |-> w[i].cost])
CostSquares(w) == FoldFunction(+, 0, [i \in DOMAIN w |-> w[i].cost * w[i].cost])

\* How far a cost lies from the mean, n times, and the n*n-fold variance.
Above(w, cost) == Len(w) * cost - CostSum(w)
Spread(w) == Len(w) * CostSquares(w) - CostSum(w) * CostSum(w)

Triggered(w, cost) ==
    Spread(w) > 0 /\ Above(w, cost) > 0 /\ Above(w, cost) * Above(w, cost) > 9 * Spread(w)

\* The decision tree of the classifier; the spike is of 50 % over the average.
Classify(active, utilization, cost, avg) ==
    CASE ~active -> "ORPHANED"
      [] active /\ utilization = 0 -> "IDLE"
      [] active /\ utilization # 0 /\ avg > 0 /\ 2 * (cost - avg) > avg -> "USAGE_SPIKE"
      [] OTHER -> "OVER_PROVISIONED"

(* The savings of the actions of a playbook, for an hour and in units of   *)
(* 1/(10n), where n is the size of the window: all of the cost, 40 % of it, *)
(* or what lies above the mean of the detector.                            *)
ActionSavings(category, w, cost) ==
    CASE category \in {"IDLE", "ORPHANED"} -> 10 * Len(w) * cost
      [] category = "OVER_PROVISIONED" -> 4 * Len(w) * cost
      [] category = "USAGE_SPIKE" -> 10 * Above(w, cost)

\* ingest() of a billing event, and what is made of the anomaly. generate()
\* takes half the cost for the optimized one if it is given none.
IngestBilling(cost, t, active, utilization, avg) ==
    LET w == PrunedAt(window, t)
        category == Classify(active, utilization, cost, avg)
    IN  /\ Len(w) < MaxWindow
        /\ window' = Append(w, [cost |-> cost, timestamp |-> t])
        /\ playbooks' = IF ~Triggered(w, cost) THEN {} ELSE
               {[category |-> category, cost |-> cost, size |-> Len(w),
                 savings |-> ActionSavings(category, w, cost),
                 estimated |-> 5 * Len(w) * cost]}
        /\ UNCHANGED <<stored, importing, reported>>

\* seedHistory(): nothing is pruned or judged.
SeedHistory(cost, t) ==
    /\ Len(window) < MaxWindow
    /\ window' = Append(window, [cost |-> cost, timestamp |-> t])
    /\ UNCHANGED <<playbooks, stored, importing, reported>>

-----------------------------------------------------------------------------
(* Vendor records. A record is compared, findings are awaited one by one,   *)
(* and only then is it stored.                                             *)
Begin(m, batch) ==
    /\ importing[m].phase = "idle"
    /\ importing' = [importing EXCEPT ![m] = [batch |-> batch, at |-> 1, phase |-> "compare", against |-> 0]]
    /\ UNCHANGED <<window, playbooks, stored, reported>>

Current(m) == importing[m].batch[importing[m].at]

\* findDuplicate() and findRateOptimization(). Mutant: on the same day only.
SameCharge(r, s) ==
    /\ r.key = s.key /\ r.amount = s.amount
    /\ r.day - s.day <= DupWindow /\ s.day - r.day <= DupWindow
SameDayOnly(r) == {s \in ToSet(stored) : SameCharge(s, r) /\ s.day = r.day}
DuplicatesOf(r) == {s \in ToSet(stored) : SameCharge(s, r)}
BestRates(r) == {s.rate : s \in {x \in ToSet(stored) : x.key = r.key}}
HasBetterRate(r) ==
    /\ BestRates(r) # {} /\ Min(BestRates(r)) > 0
    /\ 100 * (r.rate - Min(BestRates(r))) >= MinImprovement * Min(BestRates(r))

Finding(m, reason) ==
    [by |-> m, at |-> importing[m].at, record |-> Current(m), reason |-> reason]

Waits(m, reason, phase, against) ==
    /\ reported' = reported \cup {Finding(m, reason)}
    /\ importing' = [importing EXCEPT ![m].phase = phase, ![m].against = against]
    /\ UNCHANGED <<window, playbooks, stored>>

StoreRecord(m, against) ==
    /\ LET r == Current(m)
       IN  stored' = Append(stored, [key |-> r.key, amount |-> r.amount, day |-> r.day, rate |-> r.rate,
                                     by |-> m, at |-> importing[m].at, against |-> against])
    /\ importing' = [importing EXCEPT ![m].at = @ + 1,
           ![m].phase = IF importing[m].at = Len(importing[m].batch) THEN "done" ELSE "compare"]
    /\ UNCHANGED <<window, playbooks, reported>>

\* From the comparison of the rates to the end of the turn, with no await between.
FinishRecord(m, against) ==
    \/ /\ HasBetterRate(Current(m))
       /\ Waits(m, "rate_optimization", "reporting_rate", against)
    \/ /\ ~HasBetterRate(Current(m))
       /\ StoreRecord(m, against)

\* One turn of the loop up to its first await.
CompareRecord(m) ==
    /\ importing[m].phase = "compare"
    /\ \/ /\ DuplicatesOf(Current(m)) # {}
          /\ Waits(m, "duplicate_charge", "reporting_duplicate", Len(stored))
       \/ /\ DuplicatesOf(Current(m)) = {}
          /\ FinishRecord(m, Len(stored))

DuplicateReported(m) ==
    /\ importing[m].phase = "reporting_duplicate"
    /\ FinishRecord(m, importing[m].against)

RateReported(m) ==
    /\ importing[m].phase = "reporting_rate"
    /\ StoreRecord(m, importing[m].against)

\* The rest of the batch is lost, the record in hand with it.
ReportRejects(m) ==
    /\ importing[m].phase \in {"reporting_duplicate", "reporting_rate"}
    /\ importing' = [importing EXCEPT ![m].phase = "failed"]
    /\ UNCHANGED <<window, playbooks, stored, reported>>

AudDetectNext ==
    \/ \E cost, avg \in Costs, t \in Days, active \in BOOLEAN, utilization \in Utilizations :
           IngestBilling(cost, t, active, utilization, avg)
    \/ \E cost \in Costs, t \in Days : SeedHistory(cost, t)
AudImportNext ==
    \E m \in Imports : \/ \E batch \in Batches : Begin(m, batch)
                       \/ CompareRecord(m) \/ DuplicateReported(m) \/ RateReported(m)
                       \/ ReportRejects(m)
AudNext == AudDetectNext \/ AudImportNext
AudSpec == AudInit /\ [][AudNext]_audVars

-----------------------------------------------------------------------------
AudTypeOK ==
    /\ Len(window) <= MaxWindow /\ Cardinality(playbooks) <= 1
    /\ \A m \in Imports : importing[m].at \in 1..(Len(importing[m].batch) + 1)

(* Through detector, classifier and generator: what the actions for an     *)
(* anomaly claim to save is more than nothing and never more than the       *)
(* resource costs, in whatever order its billing events arrived.           *)
ClaimsAreWithinCost ==
    \A p \in playbooks : 0 < p.savings /\ p.savings <= 10 * p.size * p.cost

(* Of two charges that are the same, both stored, the later was reported as *)
(* a duplicate, unless the earlier was stored only after the later had been *)
(* compared: imports that overlap are all that lets a duplicate slip by.    *)
MissedOnlyByOverlap ==
    \A i, j \in DOMAIN stored :
        i < j /\ SameCharge(stored[i], stored[j]) =>
            \/ stored[j].against < i
            \/ \E f \in reported : /\ f.by = stored[j].by /\ f.at = stored[j].at
                                   /\ f.reason = "duplicate_charge"

(* What always holds of the auditor.                                       *)
AuditorInv ==
    AudTypeOK /\ ClaimsAreWithinCost /\ MissedOnlyByOverlap
=============================================================================
