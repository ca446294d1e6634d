------------------------------- MODULE MCLedgers -------------------------------
(* Small instances of the two ledgers, the one in memory and the repository   *)
(* in Cassandra. The code never joins them: a behaviour explores one, which    *)
(* `part` names.                                                               *)
EXTENDS LiquidLedger, CassandraLedger

VARIABLE part

LedgersInit == Init /\ RepositoryInit /\ part \in {"memory", "Cassandra"}
LedgersNext ==
    /\ part' = part
    /\ \/ part = "memory" /\ Next /\ UNCHANGED repositoryVars
       \/ part = "Cassandra" /\ RepositoryNext /\ UNCHANGED vars
LedgersSpec == LedgersInit /\ [][LedgersNext]_<<part, vars, repositoryVars>>

-----------------------------------------------------------------------------
LedgersTypeOK == TypeOK /\ RepositoryTypeOK
=============================================================================
