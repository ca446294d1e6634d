---------------------------- MODULE ActionsProofs ----------------------------
(***************************************************************************)
(* Proofs about the execution of actions: the RollbackManager of           *)
(* src/src/execution/rollback-manager.ts, with any number of resources,    *)
(* actions and overlapping calls of rollback(), and what src/src/execution *)
(* decides before an action is executed, with any costs, factors, clock    *)
(* and lifetime of plans.                                                  *)
(***************************************************************************)
EXTENDS MCExecution, SetSums

-----------------------------------------------------------------------------
(* A call that is under way holds the snapshot that it began with. As long *)
(* as nobody else has changed one of its resources, and the call has not   *)
(* turned to its catch clause, the resources that it is done with are as   *)
(* they were captured.                                                     *)
HoldsSnapshot ==
    \A c \in Rollbacks :
        /\ restoringAt[c] \in {"ledger", "restore", "succeeded"} =>
               snapshot[c] # NoSnapshot /\ snapshot[c] \in Captured
        /\ restoringAt[c] = "ledger" => todo[c] = DOMAIN snapshot[c]
        /\ restoringAt[c] = "succeeded" /\ "restoreResource" \in supplied => todo[c] = {}

RestoresAsCaptured ==
    \A c \in Rollbacks \ disturbed : restoringAt[c] \in {"ledger", "restore", "succeeded"} =>
        \A r \in DOMAIN snapshot[c] \ todo[c] : live[r] = snapshot[c][r]

\* Only a recorded call restores, if there is a ledger.
RecordsFirst ==
    "writeLedger" \in supplied => \A c \in Rollbacks : restoringAt[c] = "restore" => c \in initiated

\* Whatever escalated has ended, and not with success.
EscalatesLast == \A c \in escalated : restoringAt[c] \in {"failed", "rejected"}

RollbackInv ==
    /\ RollbackTypeOK /\ HoldsSnapshot /\ RestoresAsCaptured /\ RecordsFirst /\ RestoreIsRecorded
    /\ EscalatesLast /\ VerdictMatchesEscalation

LEMMA CapturedIs == \A s \in Captured : DOMAIN s \subseteq Restorable /\ \A r \in DOMAIN s : s[r] \in States
  BY DEF Captured

LEMMA RollbackInitInv == RollbackInit => RollbackInv
  BY RollbackAssumption DEF RollbackInit, RollbackInv, RollbackTypeOK, HoldsSnapshot, RestoresAsCaptured,
         RecordsFirst, RestoreIsRecorded, EscalatesLast, VerdictMatchesEscalation,
         RollbackAwaits, RollbackEnded, Captured

(* Somebody else's step changes a resource: every call that it involves is *)
(* disturbed by it.                                                        *)
LEMMA ChangeInv ==
    ASSUME RollbackInv, NEW r \in Restorable, NEW s \in States, Change(r, s), supplied' = supplied
    PROVE  RollbackInv'
<1> USE DEF RollbackInv
<1>1. /\ live' = [live EXCEPT ![r] = s] /\ disturbed' = disturbed \cup Involving(r)
      /\ UNCHANGED <<snapshots, restoringAt, actionOf, snapshot, todo, late, initiated, escalated>>
  BY DEF Change, calls
<1>2. RollbackTypeOK'
  BY <1>1 DEF RollbackTypeOK, Involving
<1>3. HoldsSnapshot' /\ RecordsFirst' /\ RestoreIsRecorded' /\ EscalatesLast'
      /\ VerdictMatchesEscalation'
  BY <1>1 DEF HoldsSnapshot, RecordsFirst, RestoreIsRecorded, EscalatesLast,
              VerdictMatchesEscalation
<1>4. RestoresAsCaptured'
  <2> SUFFICES ASSUME NEW c \in Rollbacks, c \notin disturbed', NEW x \in DOMAIN snapshot[c],
                      restoringAt[c] \in {"ledger", "restore", "succeeded"}, x \notin todo[c]
               PROVE  live'[x] = snapshot[c][x]
    BY <1>1 DEF RestoresAsCaptured
  <2>1. snapshot[c] # NoSnapshot /\ snapshot[c] \in Captured
    BY DEF HoldsSnapshot
  <2>2. x # r
    BY <1>1, <2>1 DEF Involving
  <2>3. live'[x] = live[x]
    BY <1>1, <2>2 DEF RollbackTypeOK
  <2> QED
    BY <1>1, <2>3 DEF RestoresAsCaptured
<1> QED
  BY <1>2, <1>3, <1>4

(* What one call restores disturbs the others unless it changes nothing.   *)
LEMMA ApplyInv ==
    ASSUME RollbackInv, NEW c \in Rollbacks, NEW r \in todo[c], restoringAt[c] = "restore",
           Apply(c, r)
    PROVE  /\ live' \in [Restorable -> States] /\ disturbed' \subseteq Rollbacks
           /\ live'[r] = snapshot[c][r] /\ r \in DOMAIN snapshot[c]
           /\ \A x \in Restorable : x # r => live'[x] = live[x]
           /\ disturbed \subseteq disturbed' /\ disturbed' \subseteq disturbed \cup (Rollbacks \ {c})
           /\ \A d \in Rollbacks \ {c} :
                  d \notin disturbed' /\ restoringAt[d] \in {"ledger", "restore", "succeeded"} =>
                      \A x \in DOMAIN snapshot[d] : live'[x] = live[x]
<1>1. snapshot[c] \in Captured /\ r \in DOMAIN snapshot[c] /\ r \in Restorable
  BY CapturedIs DEF RollbackInv, HoldsSnapshot, RollbackTypeOK, Apply, SnapshotOf
<1>2. snapshot[c][r] \in States
  BY <1>1, CapturedIs
<1>3. live' = [live EXCEPT ![r] = snapshot[c][r]] /\ live \in [Restorable -> States]
  BY DEF Apply, SnapshotOf, RollbackInv, RollbackTypeOK
<1>4. /\ live' \in [Restorable -> States] /\ live'[r] = snapshot[c][r]
      /\ \A x \in Restorable : x # r => live'[x] = live[x]
  BY <1>1, <1>2, <1>3
<1>5. disturbed' = disturbed \cup (IF live'[r] = live[r] THEN {} ELSE Involving(r) \ {c})
  BY DEF Apply
<1>6. ASSUME NEW d \in Rollbacks \ {c}, d \notin disturbed',
             restoringAt[d] \in {"ledger", "restore", "succeeded"}, NEW x \in DOMAIN snapshot[d]
      PROVE  live'[x] = live[x]
  <2>1. snapshot[d] # NoSnapshot /\ x \in Restorable
    BY <1>6, CapturedIs DEF RollbackInv, HoldsSnapshot
  <2>2. CASE x = r
    BY <1>5, <1>6, <2>1, <2>2 DEF Involving
  <2>3. CASE x # r
    BY <1>4, <2>1, <2>3
  <2> QED
    BY <2>2, <2>3
<1>7. /\ disturbed' \subseteq Rollbacks /\ disturbed \subseteq disturbed'
      /\ disturbed' \subseteq disturbed \cup (Rollbacks \ {c})
  BY <1>5 DEF Involving, RollbackInv, RollbackTypeOK
<1> QED
  BY <1>1, <1>4, <1>6, <1>7

LEMMA RestoreInv ==
    ASSUME RollbackInv, NEW c \in Rollbacks, Restore(c), supplied' = supplied
    PROVE  RollbackInv'
<1> USE DEF RollbackInv
<1>1. PICK r \in todo[c] :
          /\ Apply(c, r)
          /\ todo' = [todo EXCEPT ![c] = @ \ {r}]
          /\ restoringAt' = [restoringAt EXCEPT ![c] = LoopOn(c, todo[c] \ {r})]
  BY DEF Restore
<1>2. restoringAt[c] = "restore"
      /\ UNCHANGED <<snapshots, actionOf, snapshot, late, initiated, escalated>>
  BY DEF Restore
<1>3. /\ live' \in [Restorable -> States] /\ disturbed' \subseteq Rollbacks
      /\ live'[r] = snapshot[c][r] /\ r \in DOMAIN snapshot[c]
      /\ \A x \in Restorable : x # r => live'[x] = live[x]
      /\ disturbed \subseteq disturbed' /\ disturbed' \subseteq disturbed \cup (Rollbacks \ {c})
      /\ \A d \in Rollbacks \ {c} :
             d \notin disturbed' /\ restoringAt[d] \in {"ledger", "restore", "succeeded"} =>
                 \A x \in DOMAIN snapshot[d] : live'[x] = live[x]
  BY <1>1, <1>2, ApplyInv
<1>4. /\ todo'[c] = todo[c] \ {r} /\ restoringAt'[c] \in {"restore", "escalate", "failed", "succeeded"}
      /\ restoringAt'[c] = "restore" => todo'[c] # {}
      /\ restoringAt'[c] = "succeeded" /\ "restoreResource" \in supplied => todo'[c] = {}
      /\ restoringAt'[c] = "failed" => "escalateToGovernor" \notin supplied
      /\ \A d \in Rollbacks \ {c} : todo'[d] = todo[d] /\ restoringAt'[d] = restoringAt[d]
  BY <1>1, <1>2 DEF LoopOn, Fails, RollbackTypeOK
<1>5. RollbackTypeOK'
  <2>1. todo' \in [Rollbacks -> SUBSET Restorable]
    BY <1>1, <1>4 DEF RollbackTypeOK
  <2>2. restoringAt' \in [Rollbacks -> {"idle"} \cup RollbackAwaits \cup RollbackEnded]
    BY <1>1, <1>4 DEF RollbackTypeOK, RollbackAwaits, RollbackEnded
  <2>3. \A d \in Rollbacks : restoringAt'[d] = "restore" => todo'[d] # {}
    BY <1>4 DEF RollbackTypeOK
  <2> QED
    BY <1>2, <1>3, <2>1, <2>2, <2>3 DEF RollbackTypeOK
<1>6. HoldsSnapshot'
  BY <1>2, <1>4 DEF HoldsSnapshot
<1>7. RestoresAsCaptured'
  <2> SUFFICES ASSUME NEW d \in Rollbacks, d \notin disturbed', NEW x \in DOMAIN snapshot[d],
                      restoringAt'[d] \in {"ledger", "restore", "succeeded"}, x \notin todo'[d]
               PROVE  live'[x] = snapshot[d][x]
    BY <1>2 DEF RestoresAsCaptured
  <2>1. CASE d # c
    <3>1. restoringAt[d] \in {"ledger", "restore", "succeeded"} /\ x \notin todo[d]
      BY <1>4, <2>1
    <3>2. live'[x] = live[x] /\ d \notin disturbed
      BY <1>3, <2>1, <3>1
    <3> QED
      BY <3>1, <3>2 DEF RestoresAsCaptured
  <2>2. CASE d = c
    <3>1. CASE x = r
      BY <1>3, <2>2, <3>1
    <3>2. CASE x # r
      <4>1. x \notin todo[c] /\ x \in Restorable /\ c \notin disturbed
        BY <1>2, <1>3, <1>4, <2>2, <3>2, CapturedIs DEF HoldsSnapshot
      <4> QED
        BY <1>2, <1>3, <2>2, <3>2, <4>1 DEF RestoresAsCaptured
    <3> QED
      BY <3>1, <3>2
  <2> QED
    BY <2>1, <2>2
<1>8. RecordsFirst' /\ RestoreIsRecorded'
  BY <1>2, <1>4 DEF RecordsFirst, RestoreIsRecorded
<1>9. EscalatesLast' /\ VerdictMatchesEscalation'
  BY <1>2, <1>4 DEF EscalatesLast, VerdictMatchesEscalation, RollbackTypeOK
<1> QED
  BY <1>5, <1>6, <1>7, <1>8, <1>9

(* A restore that rejects leads to the catch clause, applied or not.       *)
LEMMA RestoreRejectsInv ==
    ASSUME RollbackInv, NEW c \in Rollbacks, RestoreRejects(c), supplied' = supplied
    PROVE  RollbackInv'
<1> USE DEF RollbackInv
<1>1. /\ restoringAt[c] = "restore" /\ restoringAt' = [restoringAt EXCEPT ![c] = Fails]
      /\ UNCHANGED <<snapshots, actionOf, snapshot, todo, late, initiated, escalated>>
  BY DEF RestoreRejects
<1>2. /\ live' \in [Restorable -> States] /\ disturbed' \subseteq Rollbacks
      /\ disturbed \subseteq disturbed'
      /\ \A d \in Rollbacks \ {c} :
             d \notin disturbed' /\ restoringAt[d] \in {"ledger", "restore", "succeeded"} =>
                 \A x \in DOMAIN snapshot[d] : live'[x] = live[x]
  <2>1. CASE UNCHANGED <<live, disturbed>>
    BY <2>1 DEF RollbackTypeOK
  <2>2. CASE \E r \in todo[c] : Apply(c, r)
    BY <1>1, <2>2, ApplyInv
  <2> QED
    BY <2>1, <2>2 DEF RestoreRejects
<1>3. /\ restoringAt'[c] \in {"escalate", "failed"}
      /\ restoringAt'[c] = "failed" => "escalateToGovernor" \notin supplied
      /\ \A d \in Rollbacks \ {c} : restoringAt'[d] = restoringAt[d]
  BY <1>1 DEF RollbackTypeOK, Fails
<1>4. RollbackTypeOK'
  BY <1>1, <1>2, <1>3 DEF RollbackTypeOK, RollbackAwaits, RollbackEnded
<1>5. HoldsSnapshot' /\ RecordsFirst' /\ RestoreIsRecorded' /\ EscalatesLast'
      /\ VerdictMatchesEscalation'
  BY <1>1, <1>3 DEF HoldsSnapshot, RecordsFirst, RestoreIsRecorded, EscalatesLast,
                    VerdictMatchesEscalation, RollbackTypeOK
<1>6. RestoresAsCaptured'
  BY <1>1, <1>2, <1>3 DEF RestoresAsCaptured
<1> QED
  BY <1>4, <1>5, <1>6

(* The steps that touch no resource: the call goes on, with its entry in   *)
(* the ledger or its escalation perhaps made.                              *)
LEMMA MoveInv ==
    ASSUME RollbackInv, NEW c \in Rollbacks, NEW to \in RollbackAwaits \cup RollbackEnded,
           restoringAt' = [restoringAt EXCEPT ![c] = to], supplied' = supplied,
           UNCHANGED <<live, snapshots, actionOf, snapshot, todo, late, disturbed>>,
           initiated' \in {initiated, initiated \cup {c}},
           escalated' \in {escalated, escalated \cup {c}},
           \/ /\ restoringAt[c] = "ledger" /\ to \in {"restore", "escalate", "failed", "succeeded"}
              /\ to = "restore" => todo[c] # {} /\ initiated' = initiated \cup {c}
              /\ to = "succeeded" /\ "restoreResource" \in supplied => todo[c] = {}
              /\ to = "failed" => "escalateToGovernor" \notin supplied
              /\ escalated' = escalated
           \/ /\ restoringAt[c] \in {"ledger", "escalate"} /\ to \in {"failed", "rejected"}
              /\ to = "failed" => escalated' = escalated \cup {c}
    PROVE  RollbackInv'
<1> USE DEF RollbackInv
<1>1. restoringAt'[c] = to /\ \A d \in Rollbacks \ {c} : restoringAt'[d] = restoringAt[d]
  BY DEF RollbackTypeOK
<1>2. /\ initiated \subseteq initiated' /\ initiated' \subseteq initiated \cup {c}
      /\ escalated \subseteq escalated' /\ escalated' \subseteq escalated \cup {c}
  OBVIOUS
<1>3. RollbackTypeOK'
  <2>1. restoringAt' \in [Rollbacks -> {"idle"} \cup RollbackAwaits \cup RollbackEnded]
    BY DEF RollbackTypeOK
  <2>2. \A d \in Rollbacks : restoringAt'[d] = "restore" => todo'[d] # {}
    BY <1>1 DEF RollbackTypeOK
  <2>3. initiated' \subseteq Rollbacks /\ escalated' \subseteq Rollbacks
    BY <1>2 DEF RollbackTypeOK
  <2> QED
    BY <2>1, <2>2, <2>3 DEF RollbackTypeOK
<1>4. HoldsSnapshot'
  BY <1>1 DEF HoldsSnapshot
<1>5. RestoresAsCaptured'
  <2>1. \A d \in Rollbacks : restoringAt'[d] \in {"ledger", "restore", "succeeded"} =>
            restoringAt[d] \in {"ledger", "restore", "succeeded"}
    BY <1>1
  <2> QED
    BY <2>1 DEF RestoresAsCaptured
<1>6. RecordsFirst' /\ RestoreIsRecorded'
  BY <1>1, <1>2 DEF RecordsFirst, RestoreIsRecorded
<1>7. EscalatesLast' /\ VerdictMatchesEscalation'
  BY <1>1, <1>2 DEF EscalatesLast, VerdictMatchesEscalation
<1> QED
  BY <1>3, <1>4, <1>5, <1>6, <1>7

LEMMA BeginInv ==
    ASSUME RollbackInv, NEW c \in Rollbacks, NEW a \in RollbackActions, Begin(c, a), supplied' = supplied
    PROVE  RollbackInv'
<1> USE DEF RollbackInv
<1>1. /\ restoringAt[c] = "idle" /\ actionOf' = [actionOf EXCEPT ![c] = a]
      /\ UNCHANGED <<live, snapshots, late, initiated, escalated, disturbed>>
  BY DEF Begin
<1>2. CASE /\ snapshots[a] = NoSnapshot
           /\ restoringAt' = [restoringAt EXCEPT ![c] = "rejected"]
           /\ UNCHANGED <<snapshot, todo>>
  <2>1. restoringAt'[c] = "rejected"
        /\ \A d \in Rollbacks \ {c} : restoringAt'[d] = restoringAt[d]
    BY <1>2 DEF RollbackTypeOK
  <2>2. RollbackTypeOK'
    BY <1>1, <1>2, <2>1 DEF RollbackTypeOK, RollbackEnded
  <2> QED
    BY <1>1, <1>2, <2>1, <2>2 DEF HoldsSnapshot, RestoresAsCaptured, RecordsFirst,
       RestoreIsRecorded, EscalatesLast, VerdictMatchesEscalation
<1>3. CASE /\ snapshots[a] # NoSnapshot
           /\ restoringAt' = [restoringAt EXCEPT ![c] =
                  IF "writeLedger" \in supplied THEN "ledger" ELSE LoopOn(c, DOMAIN snapshots[a])]
           /\ snapshot' = [snapshot EXCEPT ![c] = snapshots[a]]
           /\ todo' = [todo EXCEPT ![c] = DOMAIN snapshots[a]]
  <2>1. snapshots[a] \in Captured /\ DOMAIN snapshots[a] \subseteq Restorable
    BY <1>3, CapturedIs DEF RollbackTypeOK
  <2>2. /\ restoringAt'[c] \in {"ledger", "restore", "escalate", "failed", "succeeded"}
        /\ restoringAt'[c] # "ledger" => "writeLedger" \notin supplied
        /\ restoringAt'[c] = "restore" => todo'[c] # {}
        /\ restoringAt'[c] = "succeeded" /\ "restoreResource" \in supplied => todo'[c] = {}
        /\ restoringAt'[c] = "failed" => "escalateToGovernor" \notin supplied
        /\ snapshot'[c] = snapshots[a]
        /\ todo'[c] = DOMAIN snapshot'[c]
        /\ \A d \in Rollbacks \ {c} : /\ restoringAt'[d] = restoringAt[d]
                                      /\ snapshot'[d] = snapshot[d] /\ todo'[d] = todo[d]
    BY <1>3 DEF RollbackTypeOK, LoopOn, Fails
  <2>3. RollbackTypeOK'
    <3>1. todo' \in [Rollbacks -> SUBSET Restorable]
          /\ snapshot' \in [Rollbacks -> Captured \cup {NoSnapshot}]
          /\ actionOf' \in [Rollbacks -> RollbackActions \cup {NoSnapshot}]
          /\ restoringAt' \in [Rollbacks -> {"idle"} \cup RollbackAwaits \cup RollbackEnded]
      BY <1>1, <1>3, <2>1 DEF RollbackTypeOK, RollbackAwaits, RollbackEnded, LoopOn, Fails
    <3>2. \A d \in Rollbacks : restoringAt'[d] = "restore" => todo'[d] # {}
      BY <2>2 DEF RollbackTypeOK
    <3> QED
      BY <1>1, <3>1, <3>2 DEF RollbackTypeOK
  <2>4. HoldsSnapshot'
    BY <1>1, <1>3, <2>1, <2>2 DEF HoldsSnapshot
  <2>5. RestoresAsCaptured'
    BY <1>1, <2>2 DEF RestoresAsCaptured
  <2>6. RecordsFirst' /\ RestoreIsRecorded'
    BY <1>1, <2>2 DEF RecordsFirst, RestoreIsRecorded
  <2>7. EscalatesLast' /\ VerdictMatchesEscalation'
    <3>1. escalated \subseteq Rollbacks
      BY DEF RollbackTypeOK
    <3> QED
      BY <1>1, <2>2, <3>1 DEF EscalatesLast, VerdictMatchesEscalation
  <2> QED
    BY <2>3, <2>4, <2>5, <2>6, <2>7
<1> QED
  BY <1>2, <1>3 DEF Begin

LEMMA RollbackNextInv == RollbackInv /\ [RollbackNext]_rollbackVars => RollbackInv'
<1> SUFFICES ASSUME RollbackInv, [RollbackNext]_rollbackVars PROVE RollbackInv'
  OBVIOUS
<1>1. ASSUME NEW a \in RollbackActions, NEW R \in SUBSET Restorable, CaptureSnapshot(a, R), supplied' = supplied
      PROVE  RollbackInv'
  <2>1. /\ snapshots' = [snapshots EXCEPT ![a] = [r \in R |-> live[r]]]
        /\ UNCHANGED <<live, restoringAt, actionOf, snapshot, todo, late, initiated, escalated, disturbed>>
    BY <1>1 DEF CaptureSnapshot, calls
  <2>2. [r \in R |-> live[r]] \in Captured
    BY DEF Captured, RollbackInv, RollbackTypeOK
  <2>3. RollbackTypeOK'
    BY <1>1, <2>1, <2>2 DEF RollbackInv, RollbackTypeOK
  <2> QED
    BY <1>1, <2>1, <2>3 DEF RollbackInv, HoldsSnapshot, RestoresAsCaptured, RecordsFirst,
       RestoreIsRecorded, EscalatesLast, VerdictMatchesEscalation
<1>2. ASSUME NEW r \in Restorable, NEW s \in States, Change(r, s), supplied' = supplied
      PROVE  RollbackInv'
  BY <1>2, ChangeInv
<1>3. ASSUME NEW c \in Rollbacks, NEW a \in RollbackActions, Begin(c, a), supplied' = supplied
      PROVE  RollbackInv'
  BY <1>3, BeginInv
<1>4. ASSUME NEW c \in Rollbacks, RollbackStep(c), supplied' = supplied
      PROVE  RollbackInv'
  <2>1. CASE RecordInitiated(c)
    <3>1. LoopOn(c, todo[c]) \in {"restore", "escalate", "failed", "succeeded"}
          /\ (LoopOn(c, todo[c]) = "restore" => todo[c] # {})
          /\ (LoopOn(c, todo[c]) = "succeeded" /\ "restoreResource" \in supplied => todo[c] = {})
          /\ (LoopOn(c, todo[c]) = "failed" => "escalateToGovernor" \notin supplied)
      BY DEF LoopOn, Fails
    <3> QED
      BY <1>4, <2>1, <3>1, MoveInv DEF RecordInitiated, RollbackAwaits, RollbackEnded
  <2>2. CASE RecordRejects(c)
    BY <1>4, <2>2, MoveInv DEF RecordRejects, RollbackEnded
  <2>3. CASE Restore(c)
    BY <1>4, <2>3, RestoreInv
  <2>4. CASE RestoreRejects(c)
    BY <1>4, <2>4, RestoreRejectsInv
  <2>5. CASE Escalate(c)
    BY <1>4, <2>5, MoveInv DEF Escalate, RollbackEnded
  <2>6. CASE EscalateRejects(c)
    BY <1>4, <2>6, MoveInv DEF EscalateRejects, RollbackEnded
  <2>7. CASE LimitPasses(c)
    BY <1>4, <2>7 DEF LimitPasses, RollbackInv, RollbackTypeOK, HoldsSnapshot, RestoresAsCaptured,
       RecordsFirst, RestoreIsRecorded, EscalatesLast, VerdictMatchesEscalation
  <2> QED
    BY <1>4, <2>1, <2>2, <2>3, <2>4, <2>5, <2>6, <2>7 DEF RollbackStep
<1>5. CASE UNCHANGED rollbackVars
  BY <1>5 DEF rollbackVars, RollbackInv, RollbackTypeOK, HoldsSnapshot, RestoresAsCaptured,
     RecordsFirst, RestoreIsRecorded, EscalatesLast, VerdictMatchesEscalation
<1> QED
  BY <1>1, <1>2, <1>3, <1>4, <1>5 DEF RollbackNext

(* Overlapping calls of rollback(), captures of new snapshots and changes   *)
(* by others keep the invariant, whichever dependency rejects.             *)
THEOREM RollbackInvariance == RollbackSpec => []RollbackInv
  BY RollbackInitInv, RollbackNextInv, PTL DEF RollbackSpec

(* Every variable of the rollback keeps the type that the code gives it,   *)
(* and no call waits for a restore with nothing left to be restored.       *)
THEOREM RollbackTypeCorrect == RollbackSpec => []RollbackTypeOK
<1>1. RollbackInv => RollbackTypeOK
    BY DEF RollbackInv
<1> QED
    BY <1>1, RollbackInvariance, PTL

(* A rollback that reports success leaves every resource as it was when    *)
(* its snapshot was captured, unless somebody else changed one since:      *)
(* whatever is captured meanwhile, and however many calls overlap, if the  *)
(* manager was given restoreResource.                                      *)
THEOREM SuccessRestoresHolds == RollbackSpec => []SuccessRestores
<1>1. RollbackInv => SuccessRestores
    BY DEF RollbackInv, SuccessRestores, RestoresAsCaptured, HoldsSnapshot
<1> QED
    BY <1>1, RollbackInvariance, PTL

(* No resource is touched by a rollback of which the ledger knows nothing,  *)
(* if the manager was given one.                                           *)
THEOREM RestoreIsRecordedHolds == RollbackSpec => []RestoreIsRecorded
<1>1. RollbackInv => RestoreIsRecorded
    BY DEF RollbackInv
<1> QED
    BY <1>1, RollbackInvariance, PTL

(* A rollback that reports failure was escalated to the Governor_Agent, if *)
(* the manager can, and one that reports success was not.                  *)
THEOREM VerdictMatchesEscalationHolds == RollbackSpec => []VerdictMatchesEscalation
<1>1. RollbackInv => VerdictMatchesEscalation
    BY DEF RollbackInv
<1> QED
    BY <1>1, RollbackInvariance, PTL
-----------------------------------------------------------------------------
(* What simulate() predicts for an action, and what the scores of it are.  *)
Scored ==
    [blast_radius : {0, 1}, reversibility : {10, 80}, confidence : {75}, financial_impact : Nat]

LEMMA SnapshotIs ==
    \A s \in Snapshots :
        /\ DOMAIN s \subseteq Resources /\ IsFiniteSet(DOMAIN s)
        /\ s = [r \in DOMAIN s |-> s[r]]
        /\ \A r \in DOMAIN s : s[r] \in Costs /\ s[r] \in Nat
<1> SUFFICES ASSUME NEW R \in SUBSET Resources, NEW s \in [R -> Costs]
             PROVE  /\ DOMAIN s \subseteq Resources /\ IsFiniteSet(DOMAIN s)
                    /\ s = [r \in DOMAIN s |-> s[r]]
                    /\ \A r \in DOMAIN s : s[r] \in Costs /\ s[r] \in Nat
  BY DEF Snapshots
<1>1. IsFiniteSet(R)
  BY ResourcesAssumption, FS_Subset
<1> QED
  BY <1>1, NumbersAssumption

LEMMA ActionIs ==
    \A a \in ProposedActions :
        /\ a.type \in {"SCALE_DOWN", "CONSOLIDATE", "TERMINATE", "RESIZE"}
        /\ a.type = "SCALE_DOWN" => a.parameter \in Factors /\ a.parameter \in Nat
  BY NumbersAssumption DEF ProposedActions

LEMMA CostDeltaIsInt ==
    ASSUME NEW s \in Snapshots, NEW a \in ProposedActions
    PROVE  CostDelta(s, a) \in Int
<1>1. CASE ~Applies(s, a)
  BY <1>1 DEF CostDelta
<1>2. CASE Applies(s, a) /\ a.type = "SCALE_DOWN"
  <2>1. s[a.resource] \in Nat /\ a.parameter \in Nat
    BY <1>2, SnapshotIs, ActionIs DEF Applies
  <2>2. (s[a.resource] * (100 - a.parameter)) \div 100 \in Int
    BY <2>1
  <2> QED
    BY <1>2, <2>2 DEF CostDelta, HoursPerMonth
<1>3. CASE Applies(s, a) /\ a.type # "SCALE_DOWN"
  <2>1. s[a.resource] \in Nat
    BY <1>3, SnapshotIs DEF Applies
  <2> QED
    BY <1>3, <2>1 DEF CostDelta, HoursPerMonth
<1> QED
  BY <1>1, <1>2, <1>3

LEMMA IndicatorsAreScored ==
    ASSUME NEW s \in Snapshots, NEW a \in ProposedActions
    PROVE  Indicators(s, a) \in Scored
<1>1. Abs(CostDelta(s, a)) \in Nat
  BY CostDeltaIsInt DEF Abs
<1> QED
  BY <1>1 DEF Indicators, Scored

LEMMA BoundedIs ==
    ASSUME NEW n \in Nat, NEW limit \in Nat
    PROVE  Bounded(n, limit) \in Nat /\ Bounded(n, limit) <= limit
<1>1. CASE n < limit
  BY <1>1 DEF Bounded
<1>2. CASE ~(n < limit)
  BY <1>2 DEF Bounded
<1> QED
  BY <1>1, <1>2

LEMMA ImpactIs ==
    ASSUME NEW ri \in Scored
    PROVE  /\ ri.financial_impact \in Nat
           /\ Bounded(ri.financial_impact, 10000) \in Nat
           /\ Bounded(ri.financial_impact, 10000) \div 5 \in Nat
<1>1. ri.financial_impact \in Nat
  BY DEF Scored
<1>2. Bounded(ri.financial_impact, 10000) \in Nat
  BY <1>1, BoundedIs
<1>3. \A n \in Nat : n \div 5 \in Nat
  OBVIOUS
<1> QED
  BY <1>1, <1>2, <1>3

\* The weighted sum that the score is rounded from.
Weighted(ri) ==
    300 * Bounded(ri.blast_radius, 10) + Irreversibility(ri)
    + 25 * (100 - Bounded(ri.confidence, 100)) + Bounded(ri.financial_impact, 10000) \div 5

LEMMA RiskIs ==
    ASSUME NEW ri \in Scored
    PROVE  /\ Weighted(ri) \in Nat
           /\ RiskScore(ri) = (Bounded(Weighted(ri), 10000) + 50) \div 100
           /\ RiskScore(ri) \in 0..100
<1>1. /\ ri.blast_radius \in {0, 1} /\ ri.reversibility \in {10, 80} /\ ri.confidence = 75
      /\ ri.financial_impact \in Nat
  BY DEF Scored
<1>2. Bounded(ri.financial_impact, 10000) \div 5 \in Nat
  BY ImpactIs
<1>3. Weighted(ri) \in Nat
  BY <1>1, <1>2 DEF Weighted, Bounded, Irreversibility
<1>4. RiskScore(ri) = (Bounded(Weighted(ri), 10000) + 50) \div 100
  BY DEF RiskScore, Weighted
<1>5. (Bounded(Weighted(ri), 10000) + 50) \div 100 \in 0..100
  <2>1. Bounded(Weighted(ri), 10000) \in Nat /\ Bounded(Weighted(ri), 10000) <= 10000
    BY <1>3, BoundedIs
  <2>2. \A n \in Nat : n <= 10000 => (n + 50) \div 100 \in 0..100
    OBVIOUS
  <2> QED
    BY <2>1, <2>2
<1> QED
  BY <1>3, <1>4, <1>5

(* A request that was simulated has the indicators of its action, and an   *)
(* entry of the cache is the last plan that was stored for its action:     *)
(* what is gone from the cache has expired or was invalidated.             *)
Decisions ==
    {"REQUIRE_HUMAN_APPROVAL", "QUEUE_FOR_HUMAN_REVIEW", "FLAG_FOR_HUMAN_REVIEW",
     "AUTO_EXECUTE_CACHED", "AUTO_EXECUTE"}

Expiries == 0..(LastPlanTick + TTL)

RequestsOK ==
    /\ twinState \in Snapshots \cup {Null}
    /\ now \in 0..LastPlanTick
    /\ reached \in [Requests -> {"idle", "simulated", "lookup", "routed", "rejected"}]
    /\ action \in [Requests -> ProposedActions \cup {Null}]
    /\ loses \in [Requests -> BOOLEAN]
    /\ simulation \in [Requests -> Scored \cup {Null}]
    /\ justified \in [Requests -> BOOLEAN]
    /\ cached \in [Requests -> Expiries \cup {Null}]
    /\ decision \in [Requests -> Decisions \cup {Null}]
    /\ \A q \in Requests :
           /\ reached[q] \in {"simulated", "lookup", "routed"} =>
                  action[q] \in ProposedActions /\ simulation[q] \in Scored
           /\ decision[q] # Null <=> reached[q] = "routed"

CacheIsPlans ==
    /\ cache \in [ProposedActions -> Expiries \cup {Null}]
    /\ plans \subseteq [action : ProposedActions, at : 0..now]
    /\ \A a \in ProposedActions : cache[a] # Null =>
           \E p \in plans : p.action = a /\ cache[a] = p.at + TTL
    /\ \A p \in plans :
           \/ p.at + TTL < now
           \/ cache[p.action] # Null /\ p.at + TTL <= cache[p.action]

\* Before its await, route() has found nothing that calls for a human.
LookupIsExact ==
    \A q \in Requests : reached[q] = "lookup" =>
        /\ Review(RiskScore(simulation[q]), Confidence(simulation[q]), loses[q]) = "NONE"
        /\ cached[q] # Null <=> justified[q]

ExecutionInv == RequestsOK /\ CacheIsPlans /\ LookupIsExact /\ CachedIsExact

LEMMA ExecutionInitInv == ExecutionInit => ExecutionInv
  BY NumbersAssumption, NullAssumption
  DEF ExecutionInit, ExecutionInv, RequestsOK, CacheIsPlans, LookupIsExact, CachedIsExact, Expiries

\* lookup() returns a plan if and only if there is a valid one.
LEMMA LookupFinds ==
    ASSUME ExecutionInv, NEW a \in ProposedActions
    PROVE  /\ Lookup(a) \in Expiries \cup {Null}
           /\ Lookup(a) # Null <=> \E p \in plans : p.action = a /\ now - p.at <= TTL
<1>1. now \in Int /\ TTL \in Int /\ cache[a] \in Expiries \cup {Null}
  BY NumbersAssumption DEF ExecutionInv, RequestsOK, CacheIsPlans
<1>2. \A p \in plans : p.at \in Int /\ p.action \in ProposedActions
  BY DEF ExecutionInv, CacheIsPlans
<1>3. ASSUME Lookup(a) # Null PROVE \E p \in plans : p.action = a /\ now - p.at <= TTL
  <2>1. cache[a] # Null /\ ~(cache[a] < now)
    BY <1>3 DEF Lookup, Expired
  <2>2. PICK p \in plans : p.action = a /\ cache[a] = p.at + TTL
    BY <2>1 DEF ExecutionInv, CacheIsPlans
  <2> QED
    BY <1>1, <1>2, <2>1, <2>2
<1>4. ASSUME NEW p \in plans, p.action = a, now - p.at <= TTL PROVE Lookup(a) # Null
  <2>1. cache[a] # Null /\ p.at + TTL <= cache[a]
    BY <1>1, <1>2, <1>4 DEF ExecutionInv, CacheIsPlans
  <2>2. cache[a] \in Int
    BY <1>1, <2>1, NumbersAssumption DEF Expiries
  <2>3. ~(cache[a] < now)
    BY <1>1, <1>2, <1>4, <2>1, <2>2
  <2> QED
    BY <2>1, <2>3 DEF Lookup, Expired
<1>5. Lookup(a) \in Expiries \cup {Null}
  BY <1>1 DEF Lookup
<1> QED
  BY <1>3, <1>4, <1>5

LEMMA SimulateInv ==
    ASSUME ExecutionInv, NEW q \in Requests, NEW a \in ProposedActions, NEW negative \in BOOLEAN,
           Simulate(q, a, negative)
    PROVE  ExecutionInv'
<1> USE DEF ExecutionInv
<1>1. /\ reached[q] = "idle"
      /\ action' = [action EXCEPT ![q] = a] /\ loses' = [loses EXCEPT ![q] = negative]
      /\ UNCHANGED <<twinState, now, cache, plans, justified, cached, decision>>
  BY DEF Simulate, twin, store
<1>2. \/ /\ reached' = [reached EXCEPT ![q] = "rejected"]
         /\ UNCHANGED simulation
      \/ /\ reached' = [reached EXCEPT ![q] = "simulated"]
         /\ simulation' = [simulation EXCEPT ![q] = Indicators(twinState, a)]
         /\ twinState \in Snapshots
  BY DEF Simulate, RequestsOK
<1>3. twinState \in Snapshots => Indicators(twinState, a) \in Scored
  BY IndicatorsAreScored
<1>4. /\ reached'[q] \in {"rejected", "simulated"} /\ action'[q] = a
      /\ reached'[q] = "simulated" => simulation'[q] \in Scored
  BY <1>1, <1>2, <1>3 DEF RequestsOK
<1>5. \A r \in Requests \ {q} : /\ reached'[r] = reached[r] /\ action'[r] = action[r]
                                /\ simulation'[r] = simulation[r] /\ loses'[r] = loses[r]
  BY <1>1, <1>2 DEF RequestsOK
<1>6. RequestsOK'
  <2>1. /\ reached' \in [Requests -> {"idle", "simulated", "lookup", "routed", "rejected"}]
        /\ action' \in [Requests -> ProposedActions \cup {Null}]
        /\ loses' \in [Requests -> BOOLEAN]
        /\ simulation' \in [Requests -> Scored \cup {Null}]
    BY <1>1, <1>2, <1>3 DEF RequestsOK
  <2>2. \A r \in Requests :
            /\ reached'[r] \in {"simulated", "lookup", "routed"} =>
                   action'[r] \in ProposedActions /\ simulation'[r] \in Scored
            /\ decision'[r] # Null <=> reached'[r] = "routed"
    BY <1>1, <1>4, <1>5 DEF RequestsOK
  <2> QED
    BY <1>1, <2>1, <2>2 DEF RequestsOK
<1>7. CacheIsPlans'
  BY <1>1 DEF CacheIsPlans
<1>8. LookupIsExact'
  BY <1>1, <1>4, <1>5 DEF LookupIsExact
<1>9. CachedIsExact'
  BY <1>1, <1>4, <1>5 DEF CachedIsExact
<1> QED
  BY <1>6, <1>7, <1>8, <1>9

LEMMA RouteInv ==
    ASSUME ExecutionInv, NEW q \in Requests, Route(q)
    PROVE  ExecutionInv'
<1> USE DEF ExecutionInv
<1> DEFINE a == action[q]
           review == Review(RiskScore(simulation[q]), Confidence(simulation[q]), loses[q])
<1>1. /\ reached[q] = "simulated" /\ a \in ProposedActions /\ simulation[q] \in Scored
      /\ justified' = [justified EXCEPT ![q] =
             \E p \in plans : p.action = action[q] /\ now - p.at <= TTL]
      /\ UNCHANGED <<twinState, now, plans, action, loses, simulation>>
  BY DEF Route, RequestsOK, twin
<1>2. /\ justified' \in [Requests -> BOOLEAN]
      /\ justified'[q] <=> Lookup(a) # Null
      /\ \A r \in Requests \ {q} : justified'[r] = justified[r]
  BY <1>1, LookupFinds DEF RequestsOK
<1>3. Lookup(a) \in Expiries \cup {Null}
  BY <1>1, LookupFinds
<1>4. CASE /\ review # "NONE"
           /\ decision' = [decision EXCEPT ![q] = review]
           /\ reached' = [reached EXCEPT ![q] = "routed"]
           /\ UNCHANGED <<cache, cached>>
  <2>1. /\ review \in Decisions \ {"AUTO_EXECUTE_CACHED"} /\ review # Null
        /\ \/ RiskScore(simulation[q]) > 70
           \/ Confidence(simulation[q]) < MinConfidence
           \/ loses[q]
    BY <1>4, NullAssumption DEF Review, Decisions
  <2>2. decision'[q] = review /\ reached'[q] = "routed"
        /\ \A r \in Requests \ {q} : decision'[r] = decision[r] /\ reached'[r] = reached[r]
    BY <1>4 DEF RequestsOK
  <2>3. RequestsOK'
    <3>1. /\ decision' \in [Requests -> Decisions \cup {Null}]
          /\ reached' \in [Requests -> {"idle", "simulated", "lookup", "routed", "rejected"}]
      BY <1>4, <2>1 DEF RequestsOK
    <3>2. \A r \in Requests :
              /\ reached'[r] \in {"simulated", "lookup", "routed"} =>
                     action'[r] \in ProposedActions /\ simulation'[r] \in Scored
              /\ decision'[r] # Null <=> reached'[r] = "routed"
      BY <1>1, <2>1, <2>2 DEF RequestsOK
    <3> QED
      BY <1>1, <1>2, <1>4, <3>1, <3>2 DEF RequestsOK
  <2>4. CacheIsPlans'
    BY <1>1, <1>4 DEF CacheIsPlans
  <2>5. LookupIsExact'
    BY <1>1, <1>2, <1>4, <2>2 DEF LookupIsExact
  <2>6. CachedIsExact'
    <3>1. RiskScore(simulation[q]) \in Int /\ Confidence(simulation[q]) \in Int /\ MinConfidence \in Int
      BY <1>1, RiskIs, NumbersAssumption DEF Confidence, Scored, Bounded
    <3>2. ~(/\ ~loses[q] /\ RiskScore(simulation[q]) < 30
            /\ Confidence(simulation[q]) >= MinConfidence)
      BY <2>1, <3>1
    <3> QED
      BY <1>1, <1>2, <2>1, <2>2, <3>2 DEF CachedIsExact
  <2> QED
    BY <2>3, <2>4, <2>5, <2>6
<1>5. CASE /\ review = "NONE"
           /\ reached' = [reached EXCEPT ![q] = "lookup"]
           /\ cached' = [cached EXCEPT ![q] = Lookup(action[q])]
           /\ cache' = [cache EXCEPT ![action[q]] = Lookup(action[q])]
           /\ UNCHANGED decision
  <2>1. cached'[q] = Lookup(a) /\ reached'[q] = "lookup"
        /\ \A r \in Requests \ {q} : cached'[r] = cached[r] /\ reached'[r] = reached[r]
    BY <1>5 DEF RequestsOK
  <2>2. RequestsOK'
    <3>1. /\ cached' \in [Requests -> Expiries \cup {Null}]
          /\ reached' \in [Requests -> {"idle", "simulated", "lookup", "routed", "rejected"}]
      BY <1>3, <1>5 DEF RequestsOK
    <3>2. \A r \in Requests :
              /\ reached'[r] \in {"simulated", "lookup", "routed"} =>
                     action'[r] \in ProposedActions /\ simulation'[r] \in Scored
              /\ decision'[r] # Null <=> reached'[r] = "routed"
      BY <1>1, <1>5, <2>1 DEF RequestsOK
    <3> QED
      BY <1>1, <1>2, <1>5, <3>1, <3>2 DEF RequestsOK
  <2>3. CacheIsPlans'
    <3>1. /\ cache' \in [ProposedActions -> Expiries \cup {Null}]
          /\ cache'[a] = Lookup(a) /\ \A b \in ProposedActions \ {a} : cache'[b] = cache[b]
      BY <1>1, <1>3, <1>5 DEF CacheIsPlans
    <3>2. \A b \in ProposedActions : cache'[b] # Null => cache'[b] = cache[b]
      BY <3>1 DEF Lookup
    <3>3. ASSUME NEW p \in plans
          PROVE  \/ p.at + TTL < now
                 \/ cache'[p.action] # Null /\ p.at + TTL <= cache'[p.action]
      <4>1. p.action \in ProposedActions /\ p.at + TTL \in Int /\ now \in Int
        BY NumbersAssumption DEF CacheIsPlans, RequestsOK
      <4>2. CASE cache'[p.action] = cache[p.action]
        BY <3>3, <4>2 DEF CacheIsPlans
      <4>3. CASE cache'[p.action] # cache[p.action]
        <5>1. cache[p.action] # Null /\ cache[p.action] < now
          BY <3>1, <4>1, <4>3 DEF Lookup, Expired
        <5>2. cache[p.action] \in Int
          BY <4>1, <5>1, NumbersAssumption DEF CacheIsPlans, Expiries
        <5> QED
          BY <4>1, <5>1, <5>2 DEF CacheIsPlans
      <4> QED
        BY <4>2, <4>3
    <3> QED
      BY <1>1, <3>1, <3>2, <3>3 DEF CacheIsPlans
  <2>4. LookupIsExact'
    BY <1>1, <1>2, <1>5, <2>1 DEF LookupIsExact
  <2>5. CachedIsExact'
    BY <1>1, <1>2, <1>5, <2>1 DEF CachedIsExact
  <2> QED
    BY <2>2, <2>3, <2>4, <2>5
<1> QED
  BY <1>4, <1>5 DEF Route

LEMMA ResumeInv ==
    ASSUME ExecutionInv, NEW q \in Requests, Resume(q)
    PROVE  ExecutionInv'
<1> USE DEF ExecutionInv
<1> DEFINE d == Automatic(RiskScore(simulation[q]), cached[q])
<1>1. /\ reached[q] = "lookup" /\ simulation[q] \in Scored
      /\ decision' = [decision EXCEPT ![q] = d] /\ reached' = [reached EXCEPT ![q] = "routed"]
      /\ UNCHANGED <<twinState, now, cache, plans, action, loses, simulation, justified, cached>>
  BY DEF Resume, RequestsOK, twin, store
<1>2. /\ d \in Decisions /\ d # Null
      /\ d = "AUTO_EXECUTE_CACHED" <=> cached[q] # Null /\ RiskScore(simulation[q]) < 30
  BY NullAssumption DEF Automatic, Decisions
<1> HIDE DEF d
<1>3. decision'[q] = d /\ reached'[q] = "routed"
      /\ \A r \in Requests \ {q} : decision'[r] = decision[r] /\ reached'[r] = reached[r]
  BY <1>1 DEF RequestsOK
<1>4. RequestsOK'
  <2>1. /\ decision' \in [Requests -> Decisions \cup {Null}]
        /\ reached' \in [Requests -> {"idle", "simulated", "lookup", "routed", "rejected"}]
    BY <1>1, <1>2 DEF RequestsOK
  <2>2. \A r \in Requests :
            /\ reached'[r] \in {"simulated", "lookup", "routed"} =>
                   action'[r] \in ProposedActions /\ simulation'[r] \in Scored
            /\ decision'[r] # Null <=> reached'[r] = "routed"
    BY <1>1, <1>2, <1>3 DEF RequestsOK
  <2> QED
    BY <1>1, <2>1, <2>2 DEF RequestsOK
<1>5. CacheIsPlans'
  BY <1>1 DEF CacheIsPlans
<1>6. LookupIsExact'
  BY <1>1, <1>3 DEF LookupIsExact
<1>7. CachedIsExact'
  <2>1. ~loses[q] /\ Confidence(simulation[q]) >= MinConfidence
        /\ (cached[q] # Null <=> justified[q])
    <3>1. Review(RiskScore(simulation[q]), Confidence(simulation[q]), loses[q]) = "NONE"
          /\ (cached[q] # Null <=> justified[q])
      BY <1>1 DEF LookupIsExact
    <3>2. Confidence(simulation[q]) \in Int /\ MinConfidence \in Int
      BY <1>1, NumbersAssumption DEF Confidence, Scored, Bounded
    <3> QED
      BY <3>1, <3>2 DEF Review
  <2> QED
    BY <1>1, <1>2, <1>3, <2>1 DEF CachedIsExact
<1> QED
  BY <1>4, <1>5, <1>6, <1>7

\* The steps on the cache, the clock and the twin change no request.
LEMMA OtherInv ==
    ASSUME ExecutionInv, CacheIsPlans', twinState' \in Snapshots \cup {Null},
           now' \in 0..LastPlanTick,
           UNCHANGED <<reached, action, loses, simulation, justified, cached, decision>>
    PROVE  ExecutionInv'
  BY DEF ExecutionInv, RequestsOK, LookupIsExact, CachedIsExact

LEMMA StoreInv ==
    ASSUME ExecutionInv, NEW a \in ProposedActions, Store(a)
    PROVE  ExecutionInv'
<1> USE DEF ExecutionInv
<1>1. /\ cache' = [cache EXCEPT ![a] = now + TTL]
      /\ plans' = plans \cup {[action |-> a, at |-> now]}
      /\ UNCHANGED <<twinState, now, reached, action, loses, simulation, justified, cached, decision>>
  BY DEF Store, ExpiresAt, twin, request
<1>2. now \in 0..LastPlanTick /\ TTL \in Nat /\ now + TTL \in Expiries /\ now + TTL # Null
  BY NumbersAssumption, NullAssumption DEF RequestsOK, Expiries
<1>3. cache' \in [ProposedActions -> Expiries \cup {Null}] /\ cache'[a] = now + TTL
      /\ \A b \in ProposedActions \ {a} : cache'[b] = cache[b]
  BY <1>1, <1>2 DEF CacheIsPlans
<1>4. plans' \subseteq [action : ProposedActions, at : 0..now']
  BY <1>1, <1>2 DEF CacheIsPlans
<1>5. \A b \in ProposedActions : cache'[b] # Null =>
          \E p \in plans' : p.action = b /\ cache'[b] = p.at + TTL
  <2>1. [action |-> a, at |-> now] \in plans' /\ plans \subseteq plans'
    BY <1>1
  <2>2. \E p \in plans' : p.action = a /\ cache'[a] = p.at + TTL
    BY <1>3, <2>1
  <2> QED
    BY <1>3, <2>1, <2>2 DEF CacheIsPlans
<1>6. ASSUME NEW p \in plans'
      PROVE  \/ p.at + TTL < now
             \/ cache'[p.action] # Null /\ p.at + TTL <= cache'[p.action]
  <2>1. p.action \in ProposedActions /\ p.at \in 0..now
    BY <1>1, <1>4
  <2>2. CASE p.action = a
    BY <1>2, <1>3, <2>1, <2>2
  <2>3. CASE p.action # a
    BY <1>1, <1>3, <2>1, <2>3 DEF CacheIsPlans
  <2> QED
    BY <2>2, <2>3
<1>7. CacheIsPlans'
  BY <1>1, <1>3, <1>4, <1>5, <1>6 DEF CacheIsPlans
<1> QED
  BY <1>1, <1>7, OtherInv DEF RequestsOK

LEMMA InvalidateInv ==
    ASSUME ExecutionInv, NEW r \in Resources, Invalidate(r)
    PROVE  ExecutionInv'
<1> USE DEF ExecutionInv
<1>1. /\ cache' = [a \in ProposedActions |-> IF a.resource = r THEN Null ELSE cache[a]]
      /\ plans' = {p \in plans : p.action.resource # r}
      /\ UNCHANGED <<twinState, now, reached, action, loses, simulation, justified, cached, decision>>
  BY DEF Invalidate, twin, request
<1>2. cache' \in [ProposedActions -> Expiries \cup {Null}]
  BY <1>1 DEF CacheIsPlans
<1>3. \A a \in ProposedActions : cache'[a] # Null =>
          \E p \in plans' : p.action = a /\ cache'[a] = p.at + TTL
  BY <1>1 DEF CacheIsPlans
<1>4. \A p \in plans' :
          \/ p.at + TTL < now
          \/ cache'[p.action] # Null /\ p.at + TTL <= cache'[p.action]
  BY <1>1 DEF CacheIsPlans
<1>5. CacheIsPlans'
  BY <1>1, <1>2, <1>3, <1>4 DEF CacheIsPlans
<1> QED
  BY <1>1, <1>5, OtherInv DEF RequestsOK

LEMMA PlansAgeInv ==
    ASSUME ExecutionInv, PlansAge
    PROVE  ExecutionInv'
<1> USE DEF ExecutionInv
<1>1. /\ now < LastPlanTick /\ now' = now + 1 /\ now \in 0..LastPlanTick
      /\ UNCHANGED <<twinState, cache, plans, reached, action, loses, simulation, justified,
                     cached, decision>>
  BY DEF PlansAge, RequestsOK, twin, store, request
<1>2. now' \in 0..LastPlanTick /\ TTL \in Nat
  BY <1>1, NumbersAssumption
<1>3. plans' \subseteq [action : ProposedActions, at : 0..now']
  <2>1. \A p \in plans : p \in [action : ProposedActions, at : 0..now]
    BY DEF CacheIsPlans
  <2>2. 0..now \subseteq 0..(now + 1)
    BY <1>1
  <2> QED
    BY <1>1, <2>1, <2>2
<1>4. ASSUME NEW p \in plans
      PROVE  \/ p.at + TTL < now'
             \/ cache[p.action] # Null /\ p.at + TTL <= cache[p.action]
  <2>1. p.at \in Int /\ now \in Int /\ TTL \in Int
    BY <1>1, <1>2 DEF CacheIsPlans
  <2> QED
    BY <1>1, <2>1 DEF CacheIsPlans
<1>5. CacheIsPlans'
  BY <1>1, <1>3, <1>4 DEF CacheIsPlans
<1> QED
  BY <1>1, <1>2, <1>5, OtherInv DEF RequestsOK

LEMMA ExecutionNextInv == ExecutionInv /\ [ExecutionNext]_executionVars => ExecutionInv'
<1> SUFFICES ASSUME ExecutionInv, [ExecutionNext]_executionVars PROVE ExecutionInv'
  OBVIOUS
<1>1. ASSUME NEW s \in Snapshots, SetState(s) PROVE ExecutionInv'
  <2>1. CacheIsPlans'
    BY <1>1 DEF SetState, store, request, ExecutionInv, CacheIsPlans
  <2> QED
    BY <1>1, <2>1, OtherInv DEF SetState, store, request, ExecutionInv, RequestsOK
<1>2. CASE \E q \in Requests, a \in ProposedActions, negative \in BOOLEAN :
               Simulate(q, a, negative)
  BY <1>2, SimulateInv
<1>3. CASE \E q \in Requests : Route(q) \/ Resume(q)
  BY <1>3, RouteInv, ResumeInv
<1>4. CASE \E a \in ProposedActions : Store(a)
  BY <1>4, StoreInv
<1>5. CASE \E r \in Resources : Invalidate(r)
  BY <1>5, InvalidateInv
<1>6. CASE PlansAge
  BY <1>6, PlansAgeInv
<1>7. CASE UNCHANGED executionVars
  <2>1. CacheIsPlans'
    BY <1>7 DEF executionVars, ExecutionInv, CacheIsPlans
  <2> QED
    BY <1>7, <2>1, OtherInv DEF executionVars, ExecutionInv, RequestsOK
<1> QED
  BY <1>1, <1>2, <1>3, <1>4, <1>5, <1>6, <1>7 DEF ExecutionNext

(* Requests that are suspended at the lookup, and plans that are stored,    *)
(* invalidated and expire meanwhile, keep the invariant.                   *)
THEOREM ExecutionInvariance == ExecutionSpec => []ExecutionInv
  BY ExecutionInitInv, ExecutionNextInv, PTL DEF ExecutionSpec

(* Every variable of the execution keeps the type that the code gives it:  *)
(* every score is one of 0 to 100, and only a routed request has a state   *)
(* of approval.                                                            *)
THEOREM ExecutionTypeCorrect == ExecutionSpec => []ExecutionTypeOK
<1>1. ExecutionInv => ExecutionTypeOK
  <2> SUFFICES ASSUME ExecutionInv PROVE ExecutionTypeOK
    OBVIOUS
  <2>1. ASSUME NEW a \in ProposedActions, cache[a] # Null PROVE cache[a] \in 0..(now + TTL)
    <3>1. PICK p \in plans : p.action = a /\ cache[a] = p.at + TTL
      BY <2>1 DEF ExecutionInv, CacheIsPlans
    <3>2. p.at \in 0..now /\ now \in Nat /\ TTL \in Nat
      BY NumbersAssumption DEF ExecutionInv, CacheIsPlans, RequestsOK
    <3> QED
      BY <3>1, <3>2
  <2>2. ASSUME NEW q \in Requests, simulation[q] # Null PROVE RiskScore(simulation[q]) \in 0..100
    BY <2>2, RiskIs DEF ExecutionInv, RequestsOK
  <2> QED
    BY <2>1, <2>2 DEF ExecutionTypeOK, ExecutionInv, RequestsOK
<1> QED
  BY <1>1, ExecutionInvariance, PTL

(* A request is executed from the cache exactly when its risk is low,      *)
(* nothing calls for a human, and a plan of its action was valid at the    *)
(* lookup: whatever is stored, invalidated or expires before the decision. *)
THEOREM CachedIsExactHolds == ExecutionSpec => []CachedIsExact
<1>1. ExecutionInv => CachedIsExact
  BY DEF ExecutionInv
<1> QED
  BY <1>1, ExecutionInvariance, PTL

(* Of two actions on any twin, the one that reaches as much, is no easier  *)
(* to undo and moves as much money never has the lower score.              *)
THEOREM RiskIsMonotoneHolds == ExecutionSpec => []RiskIsMonotone
<1>1. ASSUME NEW x \in Scored, NEW y \in Scored, x.blast_radius <= y.blast_radius,
             x.reversibility >= y.reversibility, x.financial_impact <= y.financial_impact
      PROVE  RiskScore(x) <= RiskScore(y)
  <2>1. /\ x.blast_radius \in {0, 1} /\ x.reversibility \in {10, 80} /\ x.confidence = 75
        /\ y.blast_radius \in {0, 1} /\ y.reversibility \in {10, 80} /\ y.confidence = 75
        /\ x.financial_impact \in Nat /\ y.financial_impact \in Nat
    BY DEF Scored
  <2>2. \A m, n, limit \in Nat : m <= n => Bounded(m, limit) <= Bounded(n, limit)
    BY DEF Bounded
  <2>3. Bounded(x.financial_impact, 10000) \div 5 <= Bounded(y.financial_impact, 10000) \div 5
    <3>1. /\ Bounded(x.financial_impact, 10000) \in Nat
          /\ Bounded(y.financial_impact, 10000) \in Nat
      BY ImpactIs
    <3>2. Bounded(x.financial_impact, 10000) <= Bounded(y.financial_impact, 10000)
      BY <1>1, <2>1, <2>2
    <3>3. \A m, n \in Nat : m <= n => m \div 5 <= n \div 5
      OBVIOUS
    <3> QED
      BY <3>1, <3>2, <3>3
  <2>4. Weighted(x) <= Weighted(y)
    <3>1. /\ Bounded(x.financial_impact, 10000) \div 5 \in Int
          /\ Bounded(y.financial_impact, 10000) \div 5 \in Int
      BY ImpactIs
    <3>2. /\ Bounded(x.blast_radius, 10) = x.blast_radius
          /\ Bounded(y.blast_radius, 10) = y.blast_radius
          /\ Irreversibility(x) = 25 * (100 - x.reversibility)
          /\ Irreversibility(y) = 25 * (100 - y.reversibility)
          /\ Bounded(x.confidence, 100) = 75 /\ Bounded(y.confidence, 100) = 75
      BY <2>1 DEF Bounded, Irreversibility
    <3>3. /\ 300 * x.blast_radius <= 300 * y.blast_radius
          /\ 25 * (100 - x.reversibility) <= 25 * (100 - y.reversibility)
      BY <1>1, <2>1
    <3> QED
      BY <2>1, <2>3, <3>1, <3>2, <3>3 DEF Weighted
  <2>5. /\ Bounded(Weighted(x), 10000) <= Bounded(Weighted(y), 10000)
        /\ Bounded(Weighted(x), 10000) \in Nat /\ Bounded(Weighted(y), 10000) \in Nat
    BY <2>2, <2>4, RiskIs, BoundedIs
  <2>6. \A m, n \in Nat : m <= n => (m + 50) \div 100 <= (n + 50) \div 100
    OBVIOUS
  <2> QED
    BY <2>5, <2>6, RiskIs
<1>2. ExecutionInv => RiskIsMonotone
  <2> SUFFICES ASSUME twinState \in Snapshots, NEW a \in ProposedActions, NEW b \in ProposedActions
               PROVE  LET x == Indicators(twinState, a)
                          y == Indicators(twinState, b)
                      IN  (/\ x.blast_radius <= y.blast_radius
                           /\ x.reversibility >= y.reversibility
                           /\ x.financial_impact <= y.financial_impact)
                          => RiskScore(x) <= RiskScore(y)
    BY DEF RiskIsMonotone, ExecutionInv, RequestsOK
  <2> QED
    BY <1>1, IndicatorsAreScored
<1> QED
  BY <1>2, ExecutionInvariance, PTL

(* What a simulation says an action saves is the difference between what   *)
(* the twin costs before and after it, for every twin and every action.    *)
THEOREM SavingsAreRealHolds == ExecutionSpec => []SavingsAreReal
<1>1. ASSUME NEW s \in Snapshots, NEW a \in ProposedActions
      PROVE  CostDelta(s, a) = (HourlyTotal(After(s, a)) - HourlyTotal(s)) * HoursPerMonth
  <2> DEFINE x == a.resource
             R == DOMAIN s
             rest == SumOver(s, R \ {x})
  <2>1. /\ IsFiniteSet(R) /\ IsFiniteSet(R \ {x}) /\ \A r \in R : s[r] \in Int
        /\ s = [r \in R |-> s[r]]
    BY SnapshotIs, FS_Subset
  <2>2. HourlyTotal(s) = SumOver(s, R) /\ SumOver(s, R) \in Int /\ rest \in Int
    <3>1. HourlyTotal(s) = SumOver(s, R)
      BY DEF HourlyTotal, SumOver
    <3>2. SumOver(s, R) \in Int /\ rest \in Int
      BY <2>1, SumInt
    <3> QED
      BY <3>1, <3>2
  <2>3. CASE ~Applies(s, a)
    <3>1. After(s, a) = s
      BY <2>3, ActionIs DEF After, Applies
    <3>2. CostDelta(s, a) = 0
      BY <2>3 DEF CostDelta
    <3> QED
      BY <2>2, <3>1, <3>2 DEF HoursPerMonth
  <2>4. CASE Applies(s, a) /\ a.type # "SCALE_DOWN"
    <3> DEFINE t == [r \in R \ {x} |-> s[r]]
    <3>1. After(s, a) = t
      BY <2>4 DEF After, Applies
    <3>2. HourlyTotal(t) = SumOver(t, R \ {x})
      BY DEF HourlyTotal, SumOver
    <3>3. SumOver(t, R \ {x}) = rest
      <4>1. \A r \in R \ {x} : t[r] = s[r]
        OBVIOUS
      <4> HIDE DEF t
      <4> QED
        BY <2>1, <4>1, SumSame
    <3>4. SumOver(s, R) = s[x] + rest
      BY <2>1, <2>4, SumRemove DEF Applies
    <3>5. s[x] \in Int /\ CostDelta(s, a) = -s[x] * HoursPerMonth
      BY <2>1, <2>4 DEF Applies, CostDelta
    <3>6. HourlyTotal(After(s, a)) = rest
      BY <3>1, <3>2, <3>3
    <3> HIDE DEF rest
    <3> QED
      BY <2>2, <3>4, <3>5, <3>6 DEF HoursPerMonth
  <2>5. CASE Applies(s, a) /\ a.type = "SCALE_DOWN"
    <3> DEFINE scaled == (s[x] * a.parameter) \div 100
               t == [s EXCEPT ![x] = scaled]
    <3>1. After(s, a) = t /\ x \in R
      BY <2>5 DEF After, Applies
    <3>2. s[x] \in Costs /\ a.parameter \in Factors /\ s[x] \in Nat /\ a.parameter \in Nat
      BY <3>1, <2>5, SnapshotIs, ActionIs
    <3>3. (s[x] * (100 - a.parameter)) \div 100 = s[x] - scaled /\ scaled \in Int
      <4>1. (s[x] * a.parameter) % 100 = 0
        BY <3>2, ExactAssumption
      <4>2. ASSUME NEW c \in Nat, NEW p \in Nat, (c * p) % 100 = 0
            PROVE  (c * (100 - p)) \div 100 = c - (c * p) \div 100 /\ (c * p) \div 100 \in Int
        <5>1. c * p \in Nat /\ c * (100 - p) = 100 * c - c * p
          OBVIOUS
        <5>2. \A n \in Nat : n % 100 = 0 =>
                  (100 * c - n) \div 100 = c - n \div 100 /\ n \div 100 \in Int
          OBVIOUS
        <5> QED
          BY <4>2, <5>1, <5>2
      <4> QED
        BY <3>2, <4>1, <4>2
    <3>4. /\ DOMAIN t = R /\ t[x] = scaled /\ \A r \in R \ {x} : t[r] = s[r]
          /\ \A r \in R : t[r] \in Int
      BY <2>1, <3>1, <3>3
    <3> HIDE DEF t, scaled
    <3>5. HourlyTotal(t) = SumOver(t, R)
      BY <3>4 DEF HourlyTotal, SumOver
    <3>6. SumOver(t, R) = t[x] + SumOver(t, R \ {x})
      BY <2>1, <3>1, <3>4, SumRemove
    <3>7. SumOver(t, R \ {x}) = rest
      BY <2>1, <3>4, SumSame
    <3>8. SumOver(s, R) = s[x] + rest
      BY <2>1, <3>1, SumRemove
    <3>9. CostDelta(s, a) = -(s[x] - scaled) * HoursPerMonth
      BY <2>5, <3>3 DEF CostDelta
    <3>10. HourlyTotal(After(s, a)) = scaled + rest
      BY <3>1, <3>4, <3>5, <3>6, <3>7, Zenon
    <3> HIDE DEF rest
    <3> QED
      BY <2>2, <3>2, <3>3, <3>8, <3>9, <3>10 DEF HoursPerMonth
  <2> QED
    BY <2>3, <2>4, <2>5
<1>2. ExecutionInv => SavingsAreReal
  BY <1>1 DEF ExecutionInv, RequestsOK, SavingsAreReal
<1> QED
  BY <1>2, ExecutionInvariance, PTL

-----------------------------------------------------------------------------
(* Approval and rollback side by side: what one does is no step of the other. *)
LEMMA ActionsMoveAlone ==
    [ActionsNext]_<<part, executionVars, rollbackVars>> =>
        [ExecutionNext]_executionVars /\ [RollbackNext]_rollbackVars
  BY DEF ActionsNext

LEMMA EachIsAnAction == ActionsSpec => ExecutionSpec /\ RollbackSpec
<1>1. ActionsInit => ExecutionInit /\ RollbackInit
  BY DEF ActionsInit
<1> QED
  BY <1>1, ActionsMoveAlone, PTL DEF ActionsSpec, ExecutionSpec, RollbackSpec

(* However requests for approval and rollbacks overlap, every variable of  *)
(* both keeps the type that the code gives it.                             *)
THEOREM ActionsTypeCorrect == ActionsSpec => []ActionsTypeOK
<1>1. ExecutionTypeOK /\ RollbackTypeOK => ActionsTypeOK
  BY DEF ActionsTypeOK
<1> QED
  BY <1>1, ExecutionTypeCorrect, RollbackTypeCorrect, EachIsAnAction, PTL
=============================================================================
