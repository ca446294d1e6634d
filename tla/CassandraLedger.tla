-------------------------- MODULE CassandraLedger --------------------------
(***************************************************************************)
(* LedgerRepository of                                                     *)
(* src/src/infrastructure/cassandra/ledger-repository.ts: the Liquid_Ledger*)
(* of one tenant in the table ledger_entries, which is partitioned by      *)
(* month and clustered by sequence number. No statement touches the rows   *)
(* of two tenants, so one tenant stands for all of them.                   *)
(*                                                                         *)
(* append() is one statement per await: up to three SELECTs that look for  *)
(* the latest entry, newest month first, and an INSERT. An entry stands    *)
(* for one call of append() and for the UUID it carries.                   *)
(*                                                                         *)
(* The cluster is one copy of the table that answers every statement in    *)
(* the order it receives them; a statement that fails may have been        *)
(* applied. SHA-256 is free of collisions, as in LiquidLedger.             *)
(***************************************************************************)
EXTENDS Integers, FiniteSets, FiniteSetsExt, Sequences

CONSTANTS
    Entries,    \* the entries ever appended
    None,       \* null
    LastMonth,  \* bound: months are 0..LastMonth
    MaxQuiet,   \* the longest time between two entries, in months
    Overlap,    \* whether two calls of append() overlap
    MaxLate,    \* how many months before the call its input.ts may lie
    ZoneSkew    \* months that the local zone takes off new Date(y, m, 1)

ASSUME EntriesAssumption == IsFiniteSet(Entries)
ASSUME MonthsAssumption == LastMonth \in Nat /\ MaxQuiet \in Nat /\ MaxLate \in Nat
ASSUME SkewAssumption == ZoneSkew \in {0, 1}
ASSUME FlagsAssumption == Overlap \in BOOLEAN

VARIABLES
    month,      \* the month of new Date(), in UTC
    table,      \* ledger_entries: the rows of the tenant
    pc,         \* the statement each append() waits for, or how it ended
    nowOf,      \* now, as getLatestEntry() read it
    tsMonth,    \* yearMonth of input.ts
    probe,      \* i, the partitions already found empty
    latest,     \* the latest entry found
    altered,    \* history: the entries whose payload somebody changed
    tampering   \* whether somebody writes to the table past the repository

repositoryVars == <<month, table, pc, nowOf, tsMonth, probe, latest, altered, tampering>>

Months == 0..LastMonth
Running == {"select", "insert"}
GenesisHash == <<"ECHO_GENESIS">>

\* computeHash(): entry_id, payload and prev_hash. A payload is what the caller
\* gave or what somebody made of it.
ComputeHash(e, payload, prev) == <<e, payload, prev>>

RepositoryInit ==
    /\ month = 0
    /\ table = {}
    /\ pc = [e \in Entries |-> "idle"]
    /\ nowOf = [e \in Entries |-> 0]
    /\ tsMonth = [e \in Entries |-> 0]
    /\ probe = [e \in Entries |-> 0]
    /\ latest = [e \in Entries |-> None]
    /\ altered = {}
    /\ tampering \in BOOLEAN

Partition(m) == {r \in table : r.month = m}

-----------------------------------------------------------------------------
(* append(): the caller made input.ts at the call or before it.            *)
Start(e, late) ==
    /\ pc[e] = "idle"
    /\ Overlap \/ \A f \in Entries : pc[f] \notin Running
    /\ late <= month
    /\ pc' = [pc EXCEPT ![e] = "select"]
    /\ nowOf' = [nowOf EXCEPT ![e] = month]
    /\ tsMonth' = [tsMonth EXCEPT ![e] = month - late]
    /\ UNCHANGED <<month, table, probe, latest, altered>>

\* The months that getLatestEntry() looks into. Mutants: one fewer, one more.
TwoMonths == 2
FourMonths == 4
Probes == 3

\* ORDER BY sequence_number DESC LIMIT 1. Mutant: the other order.
FirstOf(rows) == CHOOSE r \in rows : \A q \in rows : r.seq <= q.seq
LatestOf(rows) == CHOOSE r \in rows : \A q \in rows : q.seq <= r.seq

\* getLatestEntry(): the date of the first of the month is made in local time
\* and read in UTC, so east of Greenwich it falls in the month before.
Select(e) ==
    LET rows == Partition(nowOf[e] - probe[e] - ZoneSkew)
    IN  /\ pc[e] = "select"
        /\ \/ /\ rows # {}
              /\ latest' = [latest EXCEPT ![e] = LatestOf(rows)]
              /\ pc' = [pc EXCEPT ![e] = "insert"]
              /\ UNCHANGED probe
           \/ /\ rows = {} /\ probe[e] < Probes - 1
              /\ probe' = [probe EXCEPT ![e] = @ + 1]
              /\ UNCHANGED <<pc, latest>>
           \/ /\ rows = {} /\ probe[e] = Probes - 1
              /\ pc' = [pc EXCEPT ![e] = "insert"]
              /\ UNCHANGED <<probe, latest>>
        /\ UNCHANGED <<month, table, nowOf, tsMonth, altered>>

\* The sequence number of the next row. Mutant: the latest one again.
SameSeq(last) == IF last = None THEN 0 ELSE last.seq
NextSeq(last) == IF last = None THEN 0 ELSE last.seq + 1

\* The row of an entry, chained to the latest found.
Row(e) ==
    LET prev == IF latest[e] = None THEN GenesisHash ELSE latest[e].hash
    IN  [month |-> tsMonth[e],
         seq |-> NextSeq(latest[e]),
         id |-> e,
         payload |-> "given",
         hash |-> ComputeHash(e, "given", prev),
         prev |-> prev]

\* An INSERT replaces the row that has the same primary key.
Upsert(row) ==
    {r \in table : r.month # row.month \/ r.seq # row.seq} \cup {row}

Insert(e) ==
    /\ pc[e] = "insert"
    /\ table' = Upsert(Row(e))
    /\ pc' = [pc EXCEPT ![e] = "done"]
    /\ UNCHANGED <<month, nowOf, tsMonth, probe, latest, altered>>

\* A statement rejects, or the process ends while waiting for it.
Fail(e) ==
    /\ pc[e] \in Running
    /\ pc' = [pc EXCEPT ![e] = "failed"]
    /\ \/ UNCHANGED table
       \/ /\ pc[e] = "insert"
          /\ table' = Upsert(Row(e))
    /\ UNCHANGED <<month, nowOf, tsMonth, probe, latest, altered>>

-----------------------------------------------------------------------------
\* The last month in which an entry was stored.
LastWritten == Max({0} \cup {r.month : r \in table})

\* No call takes longer than a month.
MonthPasses ==
    /\ month < LastMonth
    /\ month - LastWritten < MaxQuiet
    /\ \A e \in Entries : pc[e] \in Running => nowOf[e] = month
    /\ month' = month + 1
    /\ UNCHANGED <<table, pc, nowOf, tsMonth, probe, latest, altered>>

Tamper(r) ==
    /\ tampering
    /\ r.payload = "given"
    /\ table' = (table \ {r}) \cup {[r EXCEPT !.payload = "changed"]}
    /\ altered' = altered \cup {r.id}
    /\ UNCHANGED <<month, pc, nowOf, tsMonth, probe, latest>>

RepositoryNext ==
    /\ tampering' = tampering
    /\ \/ \E e \in Entries :
              \/ \E late \in 0..MaxLate : Start(e, late)
              \/ Select(e)
              \/ Insert(e)
              \/ Fail(e)
       \/ MonthPasses
       \/ \E r \in table : Tamper(r)

RepositorySpec == RepositoryInit /\ [][RepositoryNext]_repositoryVars

-----------------------------------------------------------------------------
(* verifyIntegrity(): query() without dates resolves to the current month  *)
(* and stops after as many rows as the range is long, in the order of the  *)
(* clustering key; only then is the range applied. Mutant: one row fewer.   *)
FetchedOneFewer(from, to) ==
    {r \in Partition(month) :
         Cardinality({q \in Partition(month) : q.seq < r.seq}) < to - from}

Fetched(from, to) ==
    {r \in Partition(month) :
         Cardinality({q \in Partition(month) : q.seq < r.seq}) < to - from + 1}

\* The entry it returns as tampered, or None when ok is true.
Verify(from, to) ==
    LET bad == {r \in Fetched(from, to) :
                    /\ r.seq >= from /\ r.seq <= to
                    /\ ComputeHash(r.id, r.payload, r.prev) # r.hash}
    IN  IF bad = {} THEN None
        ELSE (CHOOSE r \in bad : \A q \in bad : r.seq <= q.seq).id

-----------------------------------------------------------------------------
MaxSeq == Cardinality(Entries)

Rows ==
    [month : Months, seq : 0..MaxSeq, id : Entries, payload : {"given", "changed"}]

RepositoryTypeOK ==
    /\ month \in Months
    /\ \A r \in table :
           /\ [month |-> r.month, seq |-> r.seq, id |-> r.id, payload |-> r.payload] \in Rows
           /\ \A q \in table : q.month = r.month /\ q.seq = r.seq => q = r
    /\ pc \in [Entries -> {"idle", "done", "failed"} \cup Running]
    /\ nowOf \in [Entries -> Months] /\ tsMonth \in [Entries -> Months]
    /\ probe \in [Entries -> 0..2]
    /\ \A e \in Entries : latest[e] # None => latest[e].seq \in 0..MaxSeq
    /\ altered \subseteq Entries /\ tampering \in BOOLEAN

(* An entry whose append() resolved is in the table and stays there.       *)
AcknowledgedIsStored ==
    \A e \in Entries : pc[e] = "done" => \E r \in table : r.id = e

(* The rows of all the months are one chain from the genesis hash: they    *)
(* are numbered without a gap or a repetition, in the order of the months, *)
(* and each holds the hash of the one before it.                           *)
Linear ==
    \A r \in table :
        /\ \A q \in table : q.seq = r.seq => q = r
        /\ \A q \in table : q.seq < r.seq => q.month <= r.month
        /\ \/ r.seq = 0 /\ r.prev = GenesisHash
           \/ \E q \in table : q.seq = r.seq - 1 /\ q.hash = r.prev

(* Verifying the current month from its first entry is exact, whatever     *)
(* else went wrong: it blames the first entry of the range that somebody   *)
(* altered, and none when there is none.                                   *)
MonthIsVerified ==
    Partition(month) # {} =>
        LET first == Min({r.seq : r \in Partition(month)})
        IN  \A to \in first..MaxSeq :
                LET bad == {r \in Partition(month) : r.seq <= to /\ r.id \in altered}
                IN  \/ bad = {} /\ Verify(first, to) = None
                    \/ \E r \in bad : /\ \A q \in bad : r.seq <= q.seq
                                      /\ Verify(first, to) = r.id

(* If nobody else writes to it, the table is the immutable log: of a row    *)
(* that was stored, neither the month, the payload nor the place changes.  *)
(* Of a table that others write to, nothing is claimed.                    *)
RepositoryLog == INSTANCE AuditLog WITH
           Tenants <- {None},
           Entries <- [id : Entries, payload : {"given", "changed"}, month : Months],
           log <- [t \in {None} |-> IF tampering THEN <<>> ELSE
                      [i \in 1..Cardinality(table) |->
                           LET row == CHOOSE r \in table : r.seq = i - 1
                           IN  [id |-> row.id, payload |-> row.payload, month |-> row.month]]]

RepositoryImplementsAuditLog == RepositoryLog!Spec
=============================================================================
