---------------------------- MODULE LiquidLedger ----------------------------
(***************************************************************************)
(* LiquidLedger of src/src/ledger/liquid-ledger.ts: a hash-chained log per *)
(* tenant, kept in memory, and the integrity check over a range of it.     *)
(*                                                                         *)
(* A body stands for the hashed fields of an entry that the caller gives   *)
(* (entry_id, tenant_id, agent_id, action_type, payload, timestamp); its   *)
(* resource_id is stored but not hashed. SHA-256 is taken to be free of    *)
(* collisions: the hash of an input is the input itself.                   *)
(***************************************************************************)
EXTENDS Integers, Sequences

CONSTANTS
    Tenants,
    Bodies,         \* what callers append
    Resources,      \* resource_id
    MaxLen,         \* bound on the entries of a tenant
    MaxAlterations  \* bound on the assignments to entries handed out

ASSUME MaxLenAssumption == MaxLen \in Nat /\ MaxAlterations \in Nat

VARIABLES
    entries,    \* entries: the stored entries of each tenant
    sequences,  \* sequences: the last sequence number given out
    written,    \* history: the entries as append() stored them
    alterations \* history: the assignments so far

vars == <<entries, sequences, written, alterations>>

\* The input of the hash, and so the hash.
Hash(body, seq, prev) == <<body, seq, prev>>

Genesis == <<>>             \* sixty-four zeros
Junk == <<"tampered">>      \* no hash at all

Init ==
    /\ entries = [t \in Tenants |-> <<>>]
    /\ sequences = [t \in Tenants |-> 0]
    /\ written = [t \in Tenants |-> <<>>]
    /\ alterations = 0

LastHash(es) == IF Len(es) > 0 THEN es[Len(es)].hash ELSE Genesis

\* The entry that append() builds, chained to the last one as it now is.
Stored(t, body, resource) ==
    [body     |-> body,
     resource |-> resource,
     seq      |-> sequences[t] + 1,
     prev     |-> LastHash(entries[t]),
     hash     |-> Hash(body, sequences[t] + 1, LastHash(entries[t]))]

AppendEntry(t, body, resource) ==
    /\ Len(entries[t]) < MaxLen
    /\ sequences' = [sequences EXCEPT ![t] = @ + 1]
    /\ entries' = [entries EXCEPT ![t] = Append(@, Stored(t, body, resource))]
    /\ written' = [written EXCEPT ![t] = Append(@, Stored(t, body, resource))]
    /\ UNCHANGED alterations

\* Mutant: the counter moves twice.
AppendSkipsNumber(t, body, resource) ==
    /\ Len(entries[t]) < MaxLen
    /\ sequences' = [sequences EXCEPT ![t] = @ + 2]
    /\ entries' = [entries EXCEPT ![t] = Append(@, Stored(t, body, resource))]
    /\ written' = [written EXCEPT ![t] = Append(@, Stored(t, body, resource))]
    /\ UNCHANGED alterations

\* append(), query() and getAll() hand out the stored objects themselves, and
\* whoever holds one can assign to any of its fields, as the tests do.
Assign(t, i, e) ==
    /\ alterations < MaxAlterations
    /\ alterations' = alterations + 1
    /\ entries' = [entries EXCEPT ![t][i] = e]
    /\ UNCHANGED <<sequences, written>>

AlterBody(t, i) == \E body \in Bodies : Assign(t, i, [entries[t][i] EXCEPT !.body = body])

AlterResource(t, i) ==
    \E resource \in Resources : Assign(t, i, [entries[t][i] EXCEPT !.resource = resource])

AlterNumber(t, i) == \E seq \in 1..MaxLen : Assign(t, i, [entries[t][i] EXCEPT !.seq = seq])

AlterPrev(t, i) ==
    \E prev \in {Junk, Genesis} \cup {entries[t][j].hash : j \in DOMAIN entries[t]} :
        Assign(t, i, [entries[t][i] EXCEPT !.prev = prev])

\* To nonsense, or hashed again from the fields the entry now has, chained to
\* its own prev_hash or to the hash of the entry before it.
AlterHash(t, i) ==
    LET e == entries[t][i]
        chains == {e.prev} \cup {entries[t][j].hash : j \in DOMAIN entries[t] \cap {i - 1}}
    IN  \E hash \in {Junk} \cup {Hash(e.body, e.seq, prev) : prev \in chains} :
            Assign(t, i, [e EXCEPT !.hash = hash])

Alter(t) ==
    \E i \in DOMAIN entries[t] :
        \/ AlterBody(t, i)
        \/ AlterResource(t, i)
        \/ AlterNumber(t, i)
        \/ AlterPrev(t, i)
        \/ AlterHash(t, i)

Appends(t) == \E body \in Bodies, resource \in Resources : AppendEntry(t, body, resource)

Next == \E t \in Tenants : Appends(t) \/ Alter(t)

Spec == Init /\ [][Next]_vars

\* The ledger as long as nobody assigns to what it handed out.
AppendOnlySpec == Init /\ [][\E t \in Tenants : Appends(t)]_vars

-----------------------------------------------------------------------------
(* verifyIntegrity(): the entries whose sequence number is in the range,   *)
(* each hashed again with the hash stored in the entry before it. The      *)
(* first of the range is hashed with its own prev_hash.                    *)
InRange(t, from, to) ==
    {i \in DOMAIN entries[t] : entries[t][i].seq >= from /\ entries[t][i].seq <= to}

Preceding(I, i) == CHOOSE j \in I : j < i /\ \A k \in I : k < i => k <= j

\* Mutant: every entry is hashed with its own prev_hash.
ChainedToItself(t, I, i) == entries[t][i].prev

ChainedHash(t, I, i) ==
    IF \A j \in I : j >= i
    THEN entries[t][i].prev
    ELSE entries[t][Preceding(I, i)].hash

\* The entries of the range whose hash is not the one expected.
Mismatched(t, from, to) ==
    LET I == InRange(t, from, to)
    IN  {i \in I : Hash(entries[t][i].body, entries[t][i].seq, ChainedHash(t, I, i))
                       # entries[t][i].hash}

-----------------------------------------------------------------------------
TypeOK ==
    /\ \A t \in Tenants :
           /\ Len(entries[t]) <= MaxLen
           /\ DOMAIN entries[t] = DOMAIN written[t]
           /\ \A i \in DOMAIN entries[t] :
                  /\ entries[t][i].body \in Bodies
                  /\ entries[t][i].resource \in Resources
                  /\ entries[t][i].seq \in 1..MaxLen
    /\ sequences \in [Tenants -> 0..MaxLen]
    /\ alterations \in 0..MaxAlterations

\* What the hash of an entry covers, with the hash.
Content(e) == <<e.body, e.seq, e.hash>>

\* The entry stored with number m was chained to the one stored before it.
WasChained(t, m) == written[t][m].prev = written[t][m - 1].hash

(* No false alarm: an entry of the range fails the check only if it was    *)
(* altered itself in what is checked, or the one before it lost the hash   *)
(* it is chained to, or somebody renumbered an entry before it.            *)
BlameIsJustified(t, from, to) ==
    \A i \in Mismatched(t, from, to) :
        \/ Content(entries[t][i]) # Content(written[t][i])
        \/ entries[t][i].prev # written[t][i].prev
        \/ i > 1 /\ (entries[t][i - 1].hash # written[t][i - 1].hash \/ ~WasChained(t, i))
        \/ \E j \in 1..(i - 1) : entries[t][j].seq # j

(* A hash vouches for the past: if the range is valid up to an entry that   *)
(* has a hash append() gave out, number k, and the entries up to k were     *)
(* chained when they were stored, then the range up to that entry is word   *)
(* for word what was stored under consecutive numbers ending in k.          *)
HashVouches(t, from, to) ==
    LET I == InRange(t, from, to)
        bad == Mismatched(t, from, to)
    IN  \A i \in I, k \in DOMAIN written[t] :
            (/\ entries[t][i].hash = written[t][k].hash
             /\ \A j \in bad : j > i
             /\ \A m \in 2..k : WasChained(t, m))
            => /\ entries[t][i].seq = k
               /\ \A j \in I : j <= i =>
                      LET s == entries[t][j].seq
                      IN  /\ s \in DOMAIN written[t]
                          /\ Content(entries[t][j]) = Content(written[t][s])
                          /\ (\E h \in I : h < j) => entries[t][Preceding(I, j)].seq = s - 1

(* Whatever is assigned to the entries handed out, the verdict of          *)
(* verifyIntegrity() over any range can be relied on as far as a hash      *)
(* chain allows: it blames nothing without a cause, and who keeps one hash *)
(* that append() returned is told of every change to what was hashed up to *)
(* it. A change of resource_id, of the prev_hash of a later entry, or of   *)
(* the last entry with its hash, it cannot tell.                           *)
VerdictIsSound ==
    \A t \in Tenants, from, to \in 1..MaxLen :
        BlameIsJustified(t, from, to) /\ HashVouches(t, from, to)

(* As long as nobody alters what was handed out, it is an immutable log.   *)
Log == INSTANCE AuditLog WITH
           Entries <- [body : Bodies, resource : Resources],
           log <- [t \in Tenants |->
                      [i \in DOMAIN entries[t] |->
                           [body |-> entries[t][i].body, resource |-> entries[t][i].resource]]]

ImplementsAuditLog == Log!Spec
=============================================================================
