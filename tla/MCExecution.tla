------------------------------ MODULE MCExecution ------------------------------
(* Small instances of src/src/execution: the simulation, the score, the cache *)
(* of plans and the approval of an action; and its rollback. The code never   *)
(* joins them: a behaviour explores one, which `part` names.                  *)
EXTENDS Execution, Rollback, TLC

VARIABLE part

\* A manager with all it may be given, as most are, and two with less.
rollbackSupplies ==
    {RollbackDependencies, {"restoreResource"}, {"writeLedger", "escalateToGovernor"}}

ActionsInit ==
    /\ ExecutionInit /\ RollbackInit
    /\ part \in {"approval", "rollback"}
    /\ part = "approval" => supplied = RollbackDependencies /\ \A r, s \in Restorable : live[r] = live[s]

ActionsNext ==
    /\ part' = part
    /\ \/ part = "approval" /\ ExecutionNext /\ UNCHANGED rollbackVars
       \/ part = "rollback" /\ RollbackNext /\ UNCHANGED executionVars

ActionsSpec == ActionsInit /\ [][ActionsNext]_<<part, executionVars, rollbackVars>>

\* Resources and Restorable are the same set.
Symmetry == Permutations(Resources) \cup Permutations(Rollbacks) \cup Permutations(States)

-----------------------------------------------------------------------------
ActionsTypeOK == ExecutionTypeOK /\ RollbackTypeOK
=============================================================================
