------------------------------- MODULE Databases -------------------------------
(***************************************************************************)
(* withTenantClient() and setTenantContext() of                             *)
(* src/src/infrastructure/database/pool.ts and rls.ts over a pool of        *)
(* connections, and initKeyspace() of                                       *)
(* src/src/infrastructure/cassandra/client.ts over the statements of        *)
(* keyspace.cql, schema.cql and cold-tier.cql. PostgreSQL, its driver's     *)
(* pool and Cassandra are external.                                         *)
(***************************************************************************)
EXTENDS Integers, Sequences, FiniteSets

CONSTANTS
    TenantCalls,    \* the calls of withTenantClient(), each of a tenant of its own
    Malformed,      \* those whose tenant is not a UUID
    Connections,    \* the places of the pool, `max` of them
    NoConnection

ASSUME DatabasesAssumption == Malformed \subseteq TenantCalls /\ NoConnection \notin Connections

VARIABLES
    call,       \* of each call: [phase, on, swallowed]; swallowed (history) says that
                \* fn caught the error of one of its own queries
    connection, \* of each place: [tx, tenant, rows], the server's side of it
    committed,  \* the rows committed, as [tenant, by]
    asked,      \* the calls that have sent COMMIT (history)
    unended,    \* the connections released without an answer to ROLLBACK (history)
    script,     \* initKeyspace(): [phase, at]
    objects     \* the keyspace, tables and indexes that exist

poolVars == <<call, connection, committed, asked, unended>>
historyVars == <<asked, unended>>
bootstrapVars == <<script, objects>>
databasesVars == <<poolVars, bootstrapVars>>

Clean == [tx |-> "none", tenant |-> "unset", rows |-> {}]
Holding == {"begin", "context", "work", "commit", "rollback"}

DatabasesInit ==
    /\ call = [c \in TenantCalls |-> [phase |-> "idle", on |-> NoConnection, swallowed |-> FALSE]]
    /\ connection = [s \in Connections |-> Clean] /\ committed = {}
    /\ asked = {} /\ unended = {}
    /\ script = [phase |-> "idle", at |-> 1] /\ objects \in {{}, {"keyspace"}}

-----------------------------------------------------------------------------
(* The pool. A lost connection is replaced by the driver when it is released, *)
(* and its transaction is ended by the server.                                *)
Free == Connections \ {call[c].on : c \in TenantCalls}
MovesTo(c, phase) == call' = [call EXCEPT ![c].phase = phase]
Aborted(s) == [connection EXCEPT ![s].tx = "aborted", ![s].rows = {}]
Lost(s) == [connection EXCEPT ![s] = [Clean EXCEPT !.tx = "lost"]]
Ended(s) == [connection EXCEPT ![s] = Clean]

PoolRequest(c) == call[c].phase = "idle" /\ MovesTo(c, "waiting") /\ UNCHANGED <<connection, committed, historyVars>>

PoolAnswers(c) ==
    /\ call[c].phase = "waiting"
    /\ \/ \E s \in Free : call' = [call EXCEPT ![c].phase = "begin", ![c].on = s]
       \/ MovesTo(c, "rejected")     \* connectionTimeoutMillis, or no server
    /\ UNCHANGED <<connection, committed, historyVars>>

\* Within a transaction BEGIN is only a warning, within an aborted one an error.
Begin(c) ==
    /\ call[c].phase = "begin"
    /\ LET s == call[c].on
       IN  \/ /\ connection[s].tx # "aborted"
              /\ MovesTo(c, "context")
              /\ connection' = [connection EXCEPT ![s].tx = "open"]
           \/ MovesTo(c, "rollback") /\ connection' = Lost(s)
           \/ connection[s].tx = "aborted" /\ MovesTo(c, "rollback") /\ UNCHANGED connection
    /\ UNCHANGED <<committed, historyVars>>

\* setTenantContext(): SET LOCAL holds until the end of the transaction. A tenant that is
\* not a UUID throws before anything is sent.
SetTenantContext(c) ==
    /\ call[c].phase = "context"
    /\ LET s == call[c].on
       IN  \/ /\ c \notin Malformed /\ MovesTo(c, "work")
              /\ connection' = [connection EXCEPT ![s].tenant = c]
           \/ /\ MovesTo(c, "rollback")
              /\ connection' \in IF c \in Malformed THEN {connection} ELSE {Aborted(s), Lost(s)}
    /\ UNCHANGED <<committed, historyVars>>

\* fn: its queries run under the context; one that fails aborts the transaction, and fn
\* lets the error through or not.
Work(c) ==
    /\ call[c].phase = "work"
    /\ LET s == call[c].on
       IN  \/ /\ connection[s].tx = "open"
              /\ connection' = [connection EXCEPT ![s].rows = @ \cup {[tenant |-> connection[s].tenant, by |-> c]}]
              /\ UNCHANGED call
           \/ MovesTo(c, "rollback") /\ connection' \in {connection, Aborted(s), Lost(s)}
           \/ connection' = Aborted(s) /\ call' = [call EXCEPT ![c].swallowed = TRUE]
           \/ MovesTo(c, "commit") /\ UNCHANGED connection
    /\ UNCHANGED <<committed, historyVars>>

Release(c, phase) == call' = [call EXCEPT ![c].phase = phase, ![c].on = NoConnection]

\* COMMIT of an aborted transaction rolls it back and is answered without an error. The
\* answer may be lost with the connection, whether or not the server committed.
Commit(c) ==
    /\ call[c].phase = "commit"
    /\ LET s == call[c].on
       IN  \/ Release(c, "resolved") /\ committed' = committed \cup connection[s].rows
              /\ connection' = Ended(s)
           \/ MovesTo(c, "rollback") /\ committed' \in {committed, committed \cup connection[s].rows}
              /\ connection' = Lost(s)
    /\ asked' = asked \cup {c}
    /\ UNCHANGED unended

\* The finally clause releases the connection, without an error, whether or not ROLLBACK
\* is answered. The driver replaces a connection it has lost, and keeps one on which only
\* the ROLLBACK failed: a query_timeout of the pool passed before it was sent.
\* Mutant: an error is thrown on without rolling back.
NoRollback(c) ==
    call[c].phase = "rollback" /\ Release(c, "rejected") /\ UNCHANGED <<connection, committed, historyVars>>
Rollback(c) ==
    /\ call[c].phase = "rollback"
    /\ Release(c, "rejected")
    /\ LET s == call[c].on
       IN  \/ connection' = Ended(s) /\ UNCHANGED unended
           \/ /\ connection[s].tx # "lost"
              /\ unended' = unended \cup {s}
              /\ UNCHANGED connection
    /\ UNCHANGED <<committed, asked>>

PoolNext ==
    /\ \E c \in TenantCalls : PoolRequest(c) \/ PoolAnswers(c) \/ Begin(c) \/ SetTenantContext(c)
                        \/ Work(c) \/ Commit(c) \/ Rollback(c)
    /\ UNCHANGED bootstrapVars

-----------------------------------------------------------------------------
(* The bootstrap of Cassandra.                                             *)
\* What lies between two semicolons of the files, in order. The code skips a piece that
\* starts with "--", together with the statement below its comment; a semicolon in a
\* comment cuts what it stands in, and no server accepts what follows it.
Piece(creates, needs, commented, wellFormed) ==
    [creates |-> creates, needs |-> needs, skipped |-> commented, wellFormed |-> wellFormed]
Malformation == Piece("none", "none", FALSE, FALSE)
KeyspacePieces == << Piece("keyspace", "none", TRUE, TRUE), Piece("none", "keyspace", FALSE, TRUE) >>
\* The semicolon is in the comment of the column prev_hash, amid CREATE TABLE.
SchemaPieces == <<
    Piece("none", "keyspace", TRUE, TRUE),        Malformation,
    Malformation,                                 Piece("by_agent", "entries", TRUE, TRUE),
    Piece("by_action", "entries", FALSE, TRUE),   Piece("by_resource", "entries", FALSE, TRUE),
    Piece("by_ts", "entries", FALSE, TRUE) >>
\* The semicolon is in the header.
ColdTierPieces == <<
    Piece("none", "none", TRUE, TRUE),            Malformation,
    Piece("cold", "keyspace", TRUE, TRUE),        Piece("cold_by_agent", "cold", TRUE, TRUE),
    Piece("cold_by_resource", "cold", FALSE, TRUE) >>
Pieces == KeyspacePieces \o SchemaPieces \o ColdTierPieces

InitKeyspace ==
    /\ script.phase = "idle"
    /\ script' = [phase |-> "executing", at |-> 1]
    /\ UNCHANGED objects

\* The first piece from i on that is not skipped, or past the end.
NextPiece(i) == CHOOSE j \in i..(Len(Pieces) + 1) :
    /\ j = Len(Pieces) + 1 \/ ~Pieces[j].skipped
    /\ \A k \in i..(j - 1) : Pieces[k].skipped

\* One statement, or the connection with the keyspace when none is left. A rejection ends
\* the call, and leaves the bootstrap client open.
ExecuteStatement ==
    /\ script.phase = "executing"
    /\ LET at == NextPiece(script.at)
           last == at > Len(Pieces)
           accepted == last \/ (Pieces[at].wellFormed /\ (Pieces[at].needs = "none" \/ Pieces[at].needs \in objects))
       IN  \/ /\ accepted
              /\ script' = [phase |-> IF last THEN "resolved" ELSE "executing", at |-> at + 1]
              /\ objects' = IF last \/ Pieces[at].creates = "none" THEN objects ELSE objects \cup {Pieces[at].creates}
           \/ /\ script' = [phase |-> "rejected", at |-> at]
              /\ UNCHANGED objects

BootstrapNext == (InitKeyspace \/ ExecuteStatement) /\ UNCHANGED poolVars

-----------------------------------------------------------------------------
(* Properties.                                                             *)
DatabasesTypeOK ==
    /\ \A c \in TenantCalls :
        /\ call[c].phase \in Holding \cup {"idle", "waiting", "resolved", "rejected"}
        /\ call[c].on \in Connections \cup {NoConnection}
    /\ \A s \in Connections : connection[s].tx \in {"none", "open", "aborted", "lost"}
    /\ script.at \in 1..(Len(Pieces) + 2)

\* fn runs under the context of its own tenant on a connection no other call has, and a
\* connection is back in the pool without a transaction as soon as no call needs it, if
\* ROLLBACK was answered on it.
ContextIsOfTheCall ==
    /\ \A c \in TenantCalls :
        /\ (call[c].on # NoConnection) = (call[c].phase \in Holding)
        /\ call[c].phase \in {"work", "commit"} => connection[call[c].on].tenant = c
        /\ \A d \in TenantCalls \ {c} : call[c].on = NoConnection \/ call[c].on # call[d].on
    /\ \A s \in Free \ unended : connection[s] = Clean

\* Every row committed is of the tenant of the call that wrote it.
RowsAreOfTheTenant == \A r \in committed : r.tenant = r.by

\* What the comment of withTenantClient() says (pool.ts:66), "Commits on success, rolls
\* back on error": what a call wrote that never sent COMMIT is not committed. It does not
\* hold: a connection whose ROLLBACK failed serves the next call.
RolledBackOnError == \A r \in committed : r.by \in asked

\* A call of a malformed tenant never resolves, only one that swallowed an error may
\* resolve with nothing, and as long as ROLLBACK is answered nothing is committed of a
\* call that did not ask for it.
NothingIsHalfDone ==
    /\ \A c \in TenantCalls :
        /\ c \in Malformed => call[c].phase # "resolved"
        /\ (call[c].phase = "commit" /\ ~call[c].swallowed) => connection[call[c].on].tx = "open"
    /\ unended = {} => RolledBackOnError

\* initKeyspace() should "initialise keyspace and schema from .cql files, then connect"
\* (client.ts:63). With these files it never does: it rejects before the first table,
\* whether the keyspace is there already or not.
BootstrapStopsShort == script.phase # "resolved" /\ objects \subseteq {"keyspace"}

\* Tenants do not see or commit each other's work, and what becomes of the bootstrap.
DatabaseInv ==
    /\ DatabasesTypeOK /\ ContextIsOfTheCall /\ RowsAreOfTheTenant /\ NothingIsHalfDone
    /\ BootstrapStopsShort
=============================================================================
