--------------------------------- MODULE SlaTwin ---------------------------------
(***************************************************************************)
(* ContractDigitalTwin of src/src/agents/sla/contract-digital-twin.ts, with *)
(* the penalties of penalty-calculator.ts, for one contract. Evaluations   *)
(* overlap: each sets the state at once and then awaits a warning for each *)
(* term, or a ledger entry, which may reject. The monitor fetches metrics  *)
(* one by one, and the contract may be ingested again in between.          *)
(***************************************************************************)
EXTENDS Integers, Sequences, FiniteSets, SequencesExt

CONSTANTS
    Contracts,      \* the versions of the contract: [terms, fee, minor, major],
                    \* terms a sequence of [metric_name, threshold]
    Metrics,        \* the names of metrics
    Readings,       \* their values
    MaxEvaluations  \* bound on the evaluations

\* _validate(): the terms are an array that is not empty.
ASSUME SlaAssumption ==
    /\ \A c \in Contracts : Len(c.terms) \in Nat \ {0} /\ DOMAIN c.terms = 1..Len(c.terms)
    /\ MaxEvaluations \in Nat

VARIABLES
    contract,   \* the contract of the model, or none
    slaState,
    judged,     \* the values of the last evaluation under this contract, or none
    evaluations,\* their number
    fetched,    \* what monitorLoop() has fetched so far for the terms it read
    writes,     \* the ledger writes and warnings begun: [kind, penalty, outcome]
    entered     \* how often BREACHED and WARNING were entered

slaVars == <<contract, slaState, judged, evaluations, fetched, writes, entered>>

NoContract == [terms |-> <<>>, fee |-> 0, minor |-> 0, major |-> 0]
NotFetching == [terms |-> <<>>, values |-> <<>>]
Severity == [HEALTHY |-> 0, WARNING |-> 1, BREACHED |-> 2]

SlaInit ==
    /\ contract = NoContract /\ slaState = "HEALTHY" /\ judged = <<>> /\ evaluations = 0
    /\ fetched = NotFetching /\ writes = <<>> /\ entered = [BREACHED |-> 0, WARNING |-> 0]

-----------------------------------------------------------------------------
\* ingestContract(): the state of an earlier version is kept. A contract that
\* is not valid throws before anything is stored.
IngestContract(c) ==
    /\ contract' = c
    /\ judged' = <<>>
    /\ UNCHANGED <<slaState, evaluations, fetched, writes, entered>>

\* The value of a metric that is missing counts as 0.
Value(values, name) == IF name \in DOMAIN values THEN values[name] ELSE 0

\* 90 % of a threshold, in whole numbers.
Near(term, v) == 10 * v >= 9 * term.threshold
Breached(term, v) == v >= term.threshold

\* The loop over the terms, which ends at the first that is breached.
NewState(terms, values) ==
    LET v(t) == Value(values, t.metric_name)
    IN  IF \E t \in ToSet(terms) : Breached(t, v(t)) THEN "BREACHED"
        ELSE IF \E t \in ToSet(terms) : Near(t, v(t)) THEN "WARNING"
        ELSE "HEALTHY"

\* calculatePenaltyExposure(): always the major percentage (times 100 here).
PenaltyExposure(c) == c.fee * c.major

\* PenaltyCalculator.calculate() for a breach of some duration and magnitude.
CalculatedPenalty(c, seconds, magnitude) ==
    c.fee * (IF seconds > 3600 \/ magnitude > 20 THEN c.major ELSE c.minor)

\* The state before decides. Mutant: it is read after it was set.
StateIsSetFirst(before, after) == after
PrevState(before, after) == before

\* What an evaluation begins to write: a breach, or the first warning.
Begins(values, before, after) ==
    LET v(i) == Value(values, contract.terms[i].metric_name)
        near == {i \in DOMAIN contract.terms :
                    Near(contract.terms[i], v(i)) /\ ~Breached(contract.terms[i], v(i))}
        write(kind, n) == <<[kind |-> kind, left |-> n, penalty |-> PenaltyExposure(contract),
                             contract |-> contract, outcome |-> "pending"]>>
    IN  CASE after = "BREACHED" /\ PrevState(before, after) # "BREACHED" -> write("breach", 1)
          [] after = "WARNING" /\ PrevState(before, after) # "WARNING" -> write("warning", Cardinality(near))
          [] OTHER -> <<>>

Evaluated(values) ==
    LET after == NewState(contract.terms, values)
    IN  /\ contract # NoContract
        /\ evaluations < MaxEvaluations
        /\ slaState' = after
        /\ judged' = <<values>>
        /\ evaluations' = evaluations + 1
        /\ writes' = writes \o Begins(values, slaState, after)
        /\ entered' = IF after # slaState /\ after # "HEALTHY"
                      THEN [entered EXCEPT ![after] = @ + 1] ELSE entered
        /\ UNCHANGED contract

EvaluateContract(values) ==
    /\ Evaluated(values)
    /\ UNCHANGED fetched

\* The write of a breach, or one of the warnings, returns or rejects. The rest of
\* the warnings is not emitted after a rejection.
WriteReturns(i, ok) ==
    /\ writes[i].outcome = "pending"
    /\ writes' = [writes EXCEPT ![i].left = @ - 1,
                                ![i].outcome = IF ~ok THEN "rejected"
                                               ELSE IF writes[i].left = 1 THEN "done" ELSE "pending"]
    /\ UNCHANGED <<contract, slaState, judged, evaluations, fetched, entered>>

-----------------------------------------------------------------------------
(* monitorLoop(): the terms are read once, the metrics fetched one by one,  *)
(* and the evaluation takes the contract of that later moment.             *)
BeginMonitor ==
    /\ contract # NoContract /\ fetched = NotFetching
    /\ fetched' = [terms |-> contract.terms, values |-> <<>>]
    /\ UNCHANGED <<contract, slaState, judged, evaluations, writes, entered>>

FetchMetric(v) ==
    /\ Len(fetched.values) < Len(fetched.terms)
    /\ fetched' = [fetched EXCEPT !.values = Append(@, v)]
    /\ UNCHANGED <<contract, slaState, judged, evaluations, writes, entered>>

MonitorEvaluates ==
    /\ fetched # NotFetching /\ Len(fetched.values) = Len(fetched.terms)
    /\ LET names == {t.metric_name : t \in ToSet(fetched.terms)}
           value(name) == fetched.values[CHOOSE i \in DOMAIN fetched.terms :
                              /\ fetched.terms[i].metric_name = name
                              /\ \A j \in DOMAIN fetched.terms :
                                     fetched.terms[j].metric_name = name => j <= i]
       IN  Evaluated([name \in names |-> value(name)])
    /\ fetched' = NotFetching

SlaNext ==
    \/ \E c \in Contracts : IngestContract(c)
    \/ \E names \in SUBSET Metrics : \E values \in [names -> Readings] : EvaluateContract(values)
    \/ \E i \in DOMAIN writes, ok \in BOOLEAN : WriteReturns(i, ok)
    \/ BeginMonitor \/ MonitorEvaluates
    \/ \E v \in Readings : FetchMetric(v)

SlaSpec == SlaInit /\ [][SlaNext]_slaVars

-----------------------------------------------------------------------------
SlaTypeOK ==
    /\ contract \in Contracts \cup {NoContract} /\ slaState \in DOMAIN Severity
    /\ evaluations \in 0..MaxEvaluations
    /\ \A i \in DOMAIN writes : writes[i].kind \in {"breach", "warning"} /\ writes[i].left >= 0

(* Overlapping evaluations attempt exactly one ledger entry for each time   *)
(* the contract became breached and one round of warnings for each time it *)
(* came near. An attempt that rejects is not repeated: it is still counted. *)
Attempts(kind) == {i \in DOMAIN writes : writes[i].kind = kind}
BreachesAreAttempted ==
    /\ Cardinality(Attempts("breach")) = entered.BREACHED
    /\ Cardinality(Attempts("warning")) = entered.WARNING
    /\ \A i \in DOMAIN writes : writes[i].outcome = "pending" => writes[i].left > 0

(* Until the contract is ingested again its state is the worst that any of  *)
(* its terms is in, in whatever order the terms are listed.                *)
StateIsWorstTerm ==
    judged # <<>> =>
        LET rank(t) == LET v == Value(judged[1], t.metric_name)
                       IN  IF Breached(t, v) THEN 2 ELSE IF Near(t, v) THEN 1 ELSE 0
            ranks == {rank(t) : t \in ToSet(contract.terms)}
        IN  Severity[slaState] \in ranks /\ \A r \in ranks : r <= Severity[slaState]

(* The penalty in the ledger is never less than what the calculator will    *)
(* charge for the breach, however long and large it turns out to be.        *)
ExposureCoversPenalty ==
    \A i \in DOMAIN writes : \A seconds \in {0, 3600, 3601}, magnitude \in {20, 21} :
        CalculatedPenalty(writes[i].contract, seconds, magnitude) <= writes[i].penalty

(* What always holds of the twin.                                          *)
SlaInv ==
    SlaTypeOK /\ BreachesAreAttempted /\ StateIsWorstTerm /\ ExposureCoversPenalty
=============================================================================
