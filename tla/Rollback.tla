------------------------------ MODULE Rollback ------------------------------
(***************************************************************************)
(* RollbackManager of src/src/execution/rollback-manager.ts: snapshots of  *)
(* the resources an action is about to change, and the calls of rollback() *)
(* that restore them one after the other.                                  *)
(*                                                                         *)
(* rollback() runs alone between two awaits, so one action of this module  *)
(* is one such stretch. Calls for the same action or for others overlap,   *)
(* and the resources change meanwhile. Time is one bit per call: whether   *)
(* more than 300 seconds have passed since its start.                      *)
(***************************************************************************)
EXTENDS Integers

CONSTANTS
    RollbackActions,    \* the actions that may be rolled back
    Restorable,         \* the resources
    States,             \* the states of a resource
    Rollbacks,          \* the calls of rollback() that are ever made
    NoSnapshot,         \* undefined
    RollbackFaults,     \* the dependencies that may reject
    RollbackSupplies    \* the sets of dependencies a manager may be constructed with

RollbackDependencies == {"writeLedger", "restoreResource", "escalateToGovernor"}

ASSUME RollbackAssumption ==
    RollbackFaults \subseteq RollbackDependencies /\ RollbackSupplies \subseteq SUBSET RollbackDependencies

VARIABLES
    supplied,   \* deps: those that are there; each is optional
    live,       \* the state each resource is in
    snapshots,  \* snapshots: the last snapshot taken for each action
    restoringAt, \* the await each call is suspended at, or how it ended
    actionOf,   \* the argument actionId of each call
    snapshot,   \* the constant snapshot of each call
    todo,       \* what its loop has not restored yet
    late,       \* 300 seconds have passed since the start of the call
    initiated,  \* the calls whose ROLLBACK_INITIATED is in the ledger
    escalated,  \* the calls that were escalated to the Governor_Agent
    disturbed   \* history: the calls one of whose resources others have changed

calls == <<restoringAt, actionOf, snapshot, todo, late>>
rollbackVars == <<supplied, live, snapshots, restoringAt, actionOf, snapshot, todo, late, initiated,
          escalated, disturbed>>

RollbackAwaits == {"ledger", "restore", "escalate"}
RollbackEnded == {"succeeded", "failed", "rejected"}

\* What a snapshot says of the resources that its caller captured. The order of
\* the array is abstracted: a rollback restores them in any order.
Captured == UNION {[R -> States] : R \in SUBSET Restorable}

RollbackInit ==
    /\ supplied \in RollbackSupplies
    /\ live \in [Restorable -> States]
    /\ snapshots = [a \in RollbackActions |-> NoSnapshot]
    /\ restoringAt = [c \in Rollbacks |-> "idle"]
    /\ actionOf = [c \in Rollbacks |-> NoSnapshot]
    /\ snapshot = [c \in Rollbacks |-> NoSnapshot]
    /\ todo = [c \in Rollbacks |-> {}]
    /\ late = [c \in Rollbacks |-> FALSE]
    /\ initiated = {}
    /\ escalated = {}
    /\ disturbed = {}

\* The calls whose snapshot holds the resource.
Involving(r) == {c \in Rollbacks : snapshot[c] # NoSnapshot /\ r \in DOMAIN snapshot[c]}

-----------------------------------------------------------------------------
\* captureSnapshot() copies what its caller read of the resources, and replaces
\* an earlier snapshot of the action.
CaptureSnapshot(a, R) ==
    /\ snapshots' = [snapshots EXCEPT ![a] = [r \in R |-> live[r]]]
    /\ UNCHANGED <<live, calls, initiated, escalated, disturbed>>

\* An action is executed, or somebody else changes the resource.
Change(r, s) ==
    /\ live[r] # s
    /\ live' = [live EXCEPT ![r] = s]
    /\ disturbed' = disturbed \cup Involving(r)
    /\ UNCHANGED <<snapshots, calls, initiated, escalated>>

\* The catch clause, and the head of the loop with rest still to be restored: the time
\* limit is read before each resource, and not after the last one. Without restoreResource
\* the loop goes through them in one stretch. Mutant: the loop goes on after the last one.
Fails == IF "escalateToGovernor" \in supplied THEN "escalate" ELSE "failed"
LoopOnAndOn(c, rest) == IF late[c] THEN Fails ELSE "restore"
LoopOn(c, rest) ==
    IF rest = {} THEN "succeeded"
    ELSE IF late[c] THEN Fails
    ELSE IF "restoreResource" \in supplied THEN "restore" ELSE "succeeded"

Begin(c, a) ==
    /\ restoringAt[c] = "idle"
    /\ actionOf' = [actionOf EXCEPT ![c] = a]
    /\ \/ /\ snapshots[a] = NoSnapshot
          /\ restoringAt' = [restoringAt EXCEPT ![c] = "rejected"]
          /\ UNCHANGED <<snapshot, todo>>
       \/ /\ snapshots[a] # NoSnapshot
          /\ restoringAt' = [restoringAt EXCEPT ![c] =
                 IF "writeLedger" \in supplied THEN "ledger" ELSE LoopOn(c, DOMAIN snapshots[a])]
          /\ snapshot' = [snapshot EXCEPT ![c] = snapshots[a]]
          /\ todo' = [todo EXCEPT ![c] = DOMAIN snapshots[a]]
    /\ UNCHANGED <<live, snapshots, late, initiated, escalated, disturbed>>

-----------------------------------------------------------------------------
RecordInitiated(c) ==
    /\ restoringAt[c] = "ledger"
    /\ initiated' = initiated \cup {c}
    /\ restoringAt' = [restoringAt EXCEPT ![c] = LoopOn(c, todo[c])]
    /\ UNCHANGED <<live, snapshots, actionOf, snapshot, todo, late, escalated, disturbed>>

\* The entry is awaited outside of the try: a rejection is the end of the call.
\* Mutant: inside of it.
LedgerRejectionCaught(c) ==
    /\ restoringAt[c] = "ledger"
    /\ "writeLedger" \in RollbackFaults
    /\ restoringAt' = [restoringAt EXCEPT ![c] = LoopOn(c, todo[c])]
    /\ UNCHANGED <<live, snapshots, actionOf, snapshot, todo, late, initiated,
                   escalated, disturbed>>

RecordRejects(c) ==
    /\ restoringAt[c] = "ledger"
    /\ "writeLedger" \in RollbackFaults
    /\ restoringAt' = [restoringAt EXCEPT ![c] = "rejected"]
    /\ initiated' \in {initiated, initiated \cup {c}}
    /\ UNCHANGED <<live, snapshots, actionOf, snapshot, todo, late, escalated, disturbed>>

\* The snapshot that the loop goes through. Mutant: what the map holds by now.
LatestSnapshot(c) == snapshots[actionOf[c]]
SnapshotOf(c) == snapshot[c]

\* The resource is again as it was captured.
Apply(c, r) ==
    /\ r \in DOMAIN SnapshotOf(c)
    /\ live' = [live EXCEPT ![r] = SnapshotOf(c)[r]]
    /\ disturbed' = disturbed \cup (IF live'[r] = live[r] THEN {} ELSE Involving(r) \ {c})

Restore(c) ==
    /\ restoringAt[c] = "restore"
    /\ \E r \in todo[c] :
           /\ Apply(c, r)
           /\ todo' = [todo EXCEPT ![c] = @ \ {r}]
           /\ restoringAt' = [restoringAt EXCEPT ![c] = LoopOn(c, todo[c] \ {r})]
    /\ UNCHANGED <<snapshots, actionOf, snapshot, late, initiated, escalated>>

\* A restore that rejects may have been applied.
RestoreRejects(c) ==
    /\ restoringAt[c] = "restore"
    /\ "restoreResource" \in RollbackFaults
    /\ restoringAt' = [restoringAt EXCEPT ![c] = Fails]
    /\ (\E r \in todo[c] : Apply(c, r)) \/ UNCHANGED <<live, disturbed>>
    /\ UNCHANGED <<snapshots, actionOf, snapshot, todo, late, initiated, escalated>>

\* The end of the catch clause.
Escalate(c) ==
    /\ restoringAt[c] = "escalate"
    /\ escalated' = escalated \cup {c}
    /\ restoringAt' = [restoringAt EXCEPT ![c] = "failed"]
    /\ UNCHANGED <<live, snapshots, actionOf, snapshot, todo, late, initiated, disturbed>>

\* Mutant: a rejected escalation is caught.
EscalateRejectionCaught(c) ==
    /\ restoringAt[c] = "escalate"
    /\ "escalateToGovernor" \in RollbackFaults
    /\ restoringAt' = [restoringAt EXCEPT ![c] = "failed"]
    /\ UNCHANGED <<live, snapshots, actionOf, snapshot, todo, late, initiated,
                   escalated, disturbed>>

EscalateRejects(c) ==
    /\ restoringAt[c] = "escalate"
    /\ "escalateToGovernor" \in RollbackFaults
    /\ restoringAt' = [restoringAt EXCEPT ![c] = "rejected"]
    /\ escalated' \in {escalated, escalated \cup {c}}
    /\ UNCHANGED <<live, snapshots, actionOf, snapshot, todo, late, initiated, disturbed>>

LimitPasses(c) ==
    /\ restoringAt[c] \in RollbackAwaits /\ ~late[c]
    /\ late' = [late EXCEPT ![c] = TRUE]
    /\ UNCHANGED <<live, snapshots, restoringAt, actionOf, snapshot, todo, initiated,
                   escalated, disturbed>>

RollbackStep(c) ==
    \/ RecordInitiated(c) \/ RecordRejects(c)
    \/ Restore(c) \/ RestoreRejects(c)
    \/ Escalate(c) \/ EscalateRejects(c)
    \/ LimitPasses(c)

\* The dependencies are those the manager was constructed with.
RollbackNext ==
    /\ supplied' = supplied
    /\ \/ \E a \in RollbackActions, R \in SUBSET Restorable : CaptureSnapshot(a, R)
       \/ \E r \in Restorable, s \in States : Change(r, s)
       \/ \E c \in Rollbacks, a \in RollbackActions : Begin(c, a)
       \/ \E c \in Rollbacks : RollbackStep(c)

RollbackSpec == RollbackInit /\ [][RollbackNext]_rollbackVars

-----------------------------------------------------------------------------
RollbackTypeOK ==
    /\ supplied \subseteq RollbackDependencies
    /\ live \in [Restorable -> States]
    /\ snapshots \in [RollbackActions -> Captured \cup {NoSnapshot}]
    /\ restoringAt \in [Rollbacks -> {"idle"} \cup RollbackAwaits \cup RollbackEnded]
    /\ actionOf \in [Rollbacks -> RollbackActions \cup {NoSnapshot}]
    /\ snapshot \in [Rollbacks -> Captured \cup {NoSnapshot}]
    /\ todo \in [Rollbacks -> SUBSET Restorable]
    /\ \A c \in Rollbacks : restoringAt[c] = "restore" => todo[c] # {}
    /\ late \in [Rollbacks -> BOOLEAN]
    /\ initiated \subseteq Rollbacks /\ escalated \subseteq Rollbacks /\ disturbed \subseteq Rollbacks

(* A rollback that reports success leaves every resource as it was when    *)
(* the snapshot that its call began with was captured, unless somebody     *)
(* else changed one of them since: whatever snapshots of the same action   *)
(* were captured and whatever overlapping rollbacks did. (A manager without *)
(* restoreResource reports success and restores nothing.)                   *)
SuccessRestores ==
    "restoreResource" \in supplied =>
        \A c \in Rollbacks \ disturbed : restoringAt[c] = "succeeded" =>
            \A r \in DOMAIN snapshot[c] : live[r] = snapshot[c][r]

(* No resource is touched by a rollback of which the ledger knows nothing, *)
(* if the manager has one to write to.                                     *)
RestoreIsRecorded ==
    "writeLedger" \in supplied =>
        \A c \in Rollbacks : (snapshot[c] # NoSnapshot /\ todo[c] # DOMAIN snapshot[c]) => c \in initiated

(* A rollback that reports failure was escalated to the Governor_Agent, if *)
(* the manager can, and one that reports success was not.                  *)
VerdictMatchesEscalation ==
    \A c \in Rollbacks :
        /\ restoringAt[c] = "failed" /\ "escalateToGovernor" \in supplied => c \in escalated
        /\ restoringAt[c] = "succeeded" => c \notin escalated
=============================================================================
