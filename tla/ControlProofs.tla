---------------------------- MODULE ControlProofs ----------------------------
(***************************************************************************)
(* Proofs about KillSwitch, for every set of tenants, agents, calls and    *)
(* administrators, and whichever dependencies reject or hang; and about    *)
(* DowProtection on top of it, for every size of the window and of the     *)
(* hour and every limit.                                                   *)
(***************************************************************************)
EXTENDS DowProtection, SetSums

(* A call past publishKillSwitch() has published, and one past             *)
(* writeLedger() has recorded as well.                                     *)
Progress ==
    \A c \in Calls :
        /\ at[c] = "ledger" => c \in published
        /\ at[c] \in {"poll", "sleep", "notify"} => c \in published \cap ledger

\* Administrators are told once, at the end of a call whose deadline passed.
Escalated ==
    \A c \in Calls :
        /\ at[c] = "notify" => expired[c]
        /\ reported[c] # {} => at[c] \in Ended

IInv ==
    /\ TypeOK
    /\ FailSafe
    /\ Progress
    /\ ResolvedIsAccounted
    /\ RecordedIsPublished
    /\ Escalated
    /\ EscalationIsTrue

LEMMA TypeInit == Init => TypeOK
  BY DEF Init, TypeOK, CircuitState

LEMMA TypeStep == TypeOK /\ [Next]_vars => TypeOK'
<1> SUFFICES ASSUME TypeOK, [Next]_vars PROVE TypeOK'
  OBVIOUS
<1> USE DEF TypeOK, CircuitState, Awaits, Ended, Reject, Unconfirmed,
            breaker, call, effects, admin
<1>1. ASSUME NEW c \in Calls, NEW t \in Tenants, NEW as \in SUBSET Agents, Activate(c, t, as)
      PROVE  TypeOK'
  BY <1>1 DEF Activate, Opened
<1>2. ASSUME NEW c \in Calls, CallStep(c)
      PROVE  TypeOK'
  <2>1. CASE Publish(c) \/ PublishRejects(c)
    BY <2>1 DEF Publish, PublishRejects
  <2>2. CASE WriteLedger(c) \/ WriteLedgerRejects(c)
    BY <2>2 DEF WriteLedger, WriteLedgerRejects
  <2>3. ASSUME NEW a \in Agents, NEW halted \in BOOLEAN, PollAnswers(c, a, halted)
        PROVE  TypeOK'
    BY <2>3 DEF PollAnswers
  <2>4. ASSUME NEW a \in Agents, PollRejects(c, a)
        PROVE  TypeOK'
    BY <2>4 DEF PollRejects
  <2>5. CASE DeadlinePasses(c)
    BY <2>5 DEF DeadlinePasses
  <2>6. CASE Wake(c)
    BY <2>6 DEF Wake, WaitIsOver, Escalation
  <2>7. CASE Notify(c) \/ NotifyRejects(c)
    BY <2>7 DEF Notify, NotifyRejects
  <2> QED
    BY <1>2, <2>1, <2>2, <2>3, <2>4, <2>5, <2>6, <2>7 DEF CallStep
<1>3. ASSUME NEW m \in Admins, AdminStep(m)
      PROVE  TypeOK'
  BY <1>3 DEF AdminStep, Reset, Close, Closable, GiveUp
<1>4. CASE UNCHANGED vars
  BY <1>4 DEF vars
<1> QED
  BY <1>1, <1>2, <1>3, <1>4 DEF Next

(* Every variable of the breaker and of its calls keeps its type.          *)
THEOREM TypeCorrect == Spec => []TypeOK
  BY TypeInit, TypeStep, PTL DEF Spec

-----------------------------------------------------------------------------
LEMMA InvInit == Init => IInv
<1> SUFFICES ASSUME Init PROVE IInv
  OBVIOUS
<1>1. TypeOK
  BY TypeInit
<1>2. FailSafe /\ Progress /\ ResolvedIsAccounted /\ RecordedIsPublished
      /\ Escalated /\ EscalationIsTrue
  BY DEF Init, FailSafe, Progress, ResolvedIsAccounted, RecordedIsPublished,
         Escalated, EscalationIsTrue, Ended
<1> QED
  BY <1>1, <1>2 DEF IInv

(* Opening a circuit, resetting it and closing it: the only steps that     *)
(* touch what FailSafe is about.                                           *)
LEMMA FailSafeStep == TypeOK /\ FailSafe /\ [Next]_vars => FailSafe'
<1> SUFFICES ASSUME TypeOK, FailSafe, [Next]_vars PROVE FailSafe'
  OBVIOUS
<1> USE DEF TypeOK, FailSafe, breaker, call, effects, admin
<1>1. ASSUME NEW c \in Calls, NEW t \in Tenants, NEW as \in SUBSET Agents, Activate(c, t, as)
      PROVE  FailSafe'
  BY <1>1 DEF Activate, Opened
<1>2. ASSUME NEW c \in Calls, CallStep(c)
      PROVE  FailSafe'
  <2>1. UNCHANGED <<state, activation, acknowledged>>
    BY <1>2 DEF CallStep, Publish, PublishRejects, WriteLedger, WriteLedgerRejects,
                PollAnswers, PollRejects, DeadlinePasses, Wake, Notify, NotifyRejects
  <2> QED
    BY <2>1
<1>3. ASSUME NEW m \in Admins, NEW t \in Tenants, Reset(m, t)
      PROVE  FailSafe'
  BY <1>3 DEF Reset
<1>4. ASSUME NEW m \in Admins, Close(m)
      PROVE  FailSafe'
  BY <1>4 DEF Close, Closable
<1>5. ASSUME NEW m \in Admins, GiveUp(m)
      PROVE  FailSafe'
  BY <1>5 DEF GiveUp
<1>6. CASE UNCHANGED vars
  BY <1>6 DEF vars
<1> QED
  BY <1>1, <1>2, <1>3, <1>4, <1>5, <1>6 DEF Next, AdminStep

\* What the conjuncts about calls say of one call.
CallInv(c) ==
    /\ at[c] = "ledger" => c \in published
    /\ at[c] \in {"poll", "sleep", "notify"} => c \in published \cap ledger
    /\ at[c] = "resolved" => c \in published \cap ledger /\ Unconfirmed(c) \subseteq reported[c]
    /\ c \in ledger => c \in published
    /\ at[c] = "notify" => expired[c]
    /\ reported[c] # {} => at[c] \in Ended /\ expired[c] /\ reported[c] \cap confirmed[c] = {}

LEMMA CallInvMeaning ==
    ASSUME TypeOK
    PROVE  (\A c \in Calls : CallInv(c)) <=>
               /\ Progress /\ ResolvedIsAccounted /\ RecordedIsPublished
               /\ Escalated /\ EscalationIsTrue
  BY DEF TypeOK, CallInv, Progress, ResolvedIsAccounted, RecordedIsPublished,
         Escalated, EscalationIsTrue

(* The step of a call preserves what is known of that call.                *)
LEMMA OwnStep ==
    ASSUME TypeOK, NEW c \in Calls, CallInv(c), CallStep(c)
    PROVE  CallInv(c)'
<1> USE DEF TypeOK, CallInv, Awaits, Ended, Unconfirmed, Reject, breaker, effects, admin
<1>1. CASE Publish(c) \/ PublishRejects(c)
  BY <1>1 DEF Publish, PublishRejects
<1>2. CASE WriteLedger(c) \/ WriteLedgerRejects(c)
  BY <1>2 DEF WriteLedger, WriteLedgerRejects
<1>3. ASSUME NEW a \in Agents, NEW halted \in BOOLEAN, PollAnswers(c, a, halted)
      PROVE  CallInv(c)'
  BY <1>3 DEF PollAnswers
<1>4. ASSUME NEW a \in Agents, PollRejects(c, a)
      PROVE  CallInv(c)'
  BY <1>4 DEF PollRejects
<1>5. CASE DeadlinePasses(c)
  BY <1>5 DEF DeadlinePasses
<1>6. CASE Wake(c)
  BY <1>6 DEF Wake, WaitIsOver, Escalation
<1>7. CASE Notify(c) \/ NotifyRejects(c)
  BY <1>7 DEF Notify, NotifyRejects
<1> QED
  BY <1>1, <1>2, <1>3, <1>4, <1>5, <1>6, <1>7 DEF CallStep

(* It leaves every other call as it was.                                   *)
LEMMA OtherStep ==
    ASSUME TypeOK, NEW c \in Calls, NEW d \in Calls, c # d, CallInv(d), CallStep(c)
    PROVE  CallInv(d)'
<1>1. /\ at'[d] = at[d] /\ confirmed'[d] = confirmed[d] /\ agentsOf'[d] = agentsOf[d]
      /\ expired'[d] = expired[d] /\ reported'[d] = reported[d]
      /\ d \in published' <=> d \in published
      /\ d \in ledger' <=> d \in ledger
  BY DEF TypeOK, CallStep, Publish, PublishRejects, WriteLedger, WriteLedgerRejects,
         PollAnswers, PollRejects, DeadlinePasses, Wake, Escalation, Notify, NotifyRejects,
         Reject, breaker, effects, admin
<1> QED
  BY <1>1 DEF CallInv, Unconfirmed

LEMMA InvStep == IInv /\ [Next]_vars => IInv'
<1> SUFFICES ASSUME IInv, [Next]_vars PROVE IInv'
  OBVIOUS
<1>1. TypeOK /\ TypeOK'
  BY TypeStep DEF IInv
<1>2. FailSafe'
  BY FailSafeStep DEF IInv
<1>3. \A d \in Calls : CallInv(d)
  BY <1>1, CallInvMeaning DEF IInv
<1>4. \A d \in Calls : CallInv(d)'
  <2>1. ASSUME NEW c \in Calls, NEW t \in Tenants, NEW as \in SUBSET Agents, Activate(c, t, as),
               NEW d \in Calls
        PROVE  CallInv(d)'
    BY <1>1, <1>3, <2>1 DEF Activate, Opened, TypeOK, CallInv, Unconfirmed, Ended, effects, admin
  <2>2. ASSUME NEW c \in Calls, CallStep(c), NEW d \in Calls
        PROVE  CallInv(d)'
    BY <1>1, <1>3, <2>2, OwnStep, OtherStep
  <2>3. ASSUME NEW m \in Admins, AdminStep(m), NEW d \in Calls
        PROVE  CallInv(d)'
    BY <1>3, <2>3 DEF AdminStep, Reset, Close, Closable, GiveUp, CallInv, Unconfirmed, call, effects
  <2>4. ASSUME UNCHANGED vars, NEW d \in Calls
        PROVE  CallInv(d)'
    BY <1>3, <2>4 DEF vars, CallInv, Unconfirmed
  <2> QED
    BY <2>1, <2>2, <2>3, <2>4 DEF Next
<1>5. (Progress /\ ResolvedIsAccounted /\ RecordedIsPublished /\ Escalated /\ EscalationIsTrue)'
  <2> SUFFICES Progress' /\ ResolvedIsAccounted' /\ RecordedIsPublished'
               /\ Escalated' /\ EscalationIsTrue'
    OBVIOUS
  <2> QED
    BY <1>1, <1>4 DEF TypeOK, CallInv, Progress, ResolvedIsAccounted,
                      RecordedIsPublished, Escalated, EscalationIsTrue
<1> QED
  BY <1>1, <1>2, <1>5 DEF IInv

(* The invariant is kept by every step of the calls of activate(), of its   *)
(* dependencies and timers, and of the administrators.                     *)
THEOREM Invariance == Spec => []IInv
  BY InvInit, InvStep, PTL DEF Spec

(* No failure, overlap of calls or late answer leaves a circuit other than *)
(* OPEN without a reset that saw its latest activation.                    *)
THEOREM FailSafeHolds == Spec => []FailSafe
<1>1. IInv => FailSafe
  BY DEF IInv
<1> QED
  BY <1>1, Invariance, PTL

(* A resolved activation was published and recorded, and its agents are    *)
(* all confirmed or reported.                                              *)
THEOREM ResolvedIsAccountedHolds == Spec => []ResolvedIsAccounted
<1>1. IInv => ResolvedIsAccounted
  BY DEF IInv
<1> QED
  BY <1>1, Invariance, PTL

(* No activation is recorded whose halt event was not published.           *)
THEOREM RecordedIsPublishedHolds == Spec => []RecordedIsPublished
<1>1. IInv => RecordedIsPublished
  BY DEF IInv
<1> QED
  BY <1>1, Invariance, PTL

(* Only unconfirmed agents are reported, and only after the deadline.      *)
THEOREM EscalationIsTrueHolds == Spec => []EscalationIsTrue
<1>1. IInv => EscalationIsTrue
  BY DEF IInv
<1> QED
  BY <1>1, Invariance, PTL

-----------------------------------------------------------------------------
(* One administrator verifies one activation at a time. While he does, the *)
(* circuit can only be opened by a later activation, never left HALF_OPEN  *)
(* for it by somebody else.                                                *)
SingleAdmin == \A m, n \in Admins : m = n

\* The activation recorded for a tenant is a call that began for that tenant.
Home ==
    /\ \A t \in Tenants : activation[t] # None =>
           at[activation[t]] # "idle" /\ tenantOf[activation[t]] = t
    /\ \A t \in Tenants : state[t] # "CLOSED" => activation[t] # None
    /\ \A m \in Admins : verifying[m] # None =>
           at[verifying[m]] # "idle" /\ tenantOf[verifying[m]] \in Tenants

Current ==
    \A m \in Admins : verifying[m] # None =>
        \/ state[tenantOf[verifying[m]]] = "OPEN"
        \/ activation[tenantOf[verifying[m]]] = verifying[m]

VInv == TypeOK /\ Home /\ Current

\* The step of a call never touches a circuit, nor returns the call to idle.
LEMMA CallStepFrame ==
    ASSUME TypeOK, NEW c \in Calls, CallStep(c)
    PROVE  /\ UNCHANGED <<state, activation, tenantOf, verifying>>
           /\ \A d \in Calls : at[d] # "idle" => at'[d] # "idle"
  BY DEF TypeOK, CallStep, Publish, PublishRejects, WriteLedger, WriteLedgerRejects,
         PollAnswers, PollRejects, DeadlinePasses, Wake, Escalation, Notify, NotifyRejects,
         Reject, breaker, effects, admin

LEMMA HomeStep == TypeOK /\ Home /\ [Next]_vars => Home'
<1> SUFFICES ASSUME TypeOK, Home, [Next]_vars PROVE Home'
  OBVIOUS
<1> USE NoneAssumption DEF TypeOK, Home
<1>1. ASSUME NEW c \in Calls, NEW t \in Tenants, NEW as \in SUBSET Agents, Activate(c, t, as)
      PROVE  Home'
  BY <1>1 DEF Activate, Opened, effects, admin
<1>2. ASSUME NEW c \in Calls, CallStep(c)
      PROVE  Home'
  BY <1>2, CallStepFrame
<1>3. ASSUME NEW m \in Admins, NEW t \in Tenants, Reset(m, t)
      PROVE  Home'
  BY <1>3 DEF Reset, call, effects
<1>4. ASSUME NEW m \in Admins, Close(m)
      PROVE  Home'
  BY <1>4 DEF Close, Closable, call, effects
<1>5. ASSUME NEW m \in Admins, GiveUp(m)
      PROVE  Home'
  BY <1>5 DEF GiveUp, breaker, call, effects
<1>6. CASE UNCHANGED vars
  BY <1>6 DEF vars
<1> QED
  BY <1>1, <1>2, <1>3, <1>4, <1>5, <1>6 DEF Next, AdminStep

LEMMA CurrentStep == SingleAdmin /\ VInv /\ [Next]_vars => Current'
<1> SUFFICES ASSUME SingleAdmin, TypeOK, Home, Current, [Next]_vars PROVE Current'
  BY DEF VInv
<1> USE NoneAssumption DEF TypeOK, Home, Current
<1>1. ASSUME NEW c \in Calls, NEW t \in Tenants, NEW as \in SUBSET Agents, Activate(c, t, as)
      PROVE  Current'
  BY <1>1 DEF Activate, Opened, effects, admin
<1>2. ASSUME NEW c \in Calls, CallStep(c)
      PROVE  Current'
  BY <1>2, CallStepFrame
<1>3. ASSUME NEW m \in Admins, NEW t \in Tenants, Reset(m, t)
      PROVE  Current'
  BY <1>3 DEF Reset, SingleAdmin, call, effects
<1>4. ASSUME NEW m \in Admins, Close(m)
      PROVE  Current'
  BY <1>4 DEF Close, Closable, SingleAdmin, call, effects
<1>5. ASSUME NEW m \in Admins, GiveUp(m)
      PROVE  Current'
  BY <1>5 DEF GiveUp, breaker, call, effects
<1>6. CASE UNCHANGED vars
  BY <1>6 DEF vars
<1> QED
  BY <1>1, <1>2, <1>3, <1>4, <1>5, <1>6 DEF Next, AdminStep

(* With one administrator, a circuit closes only on a verification that    *)
(* began after the tenant's latest activation.                             *)
THEOREM CloseIsVerifiedHolds ==
    ASSUME SingleAdmin
    PROVE  Spec => CloseIsVerified
<1>1. Init => VInv
  BY TypeInit DEF Init, VInv, Home, Current
<1>2. VInv /\ [Next]_vars => VInv'
  BY TypeStep, HomeStep, CurrentStep DEF VInv
<1>3. ASSUME VInv, [Next]_vars, NEW t \in Tenants, state[t] # "CLOSED", state'[t] = "CLOSED"
      PROVE  \E m \in Admins : verifying[m] = activation[t] /\ verifying'[m] = None
  <2>1. PICK m \in Admins : Close(m)
    <3> USE <1>3 DEF VInv, TypeOK
    <3>1. ASSUME NEW c \in Calls, NEW u \in Tenants, NEW as \in SUBSET Agents, Activate(c, u, as)
          PROVE  FALSE
      BY <3>1 DEF Activate, Opened
    <3>2. ASSUME NEW c \in Calls, CallStep(c)
          PROVE  FALSE
      BY <3>2, CallStepFrame
    <3>3. ASSUME NEW m \in Admins, (\E u \in Tenants : Reset(m, u)) \/ GiveUp(m)
          PROVE  FALSE
      BY <3>3 DEF Reset, GiveUp, breaker
    <3>4. CASE UNCHANGED vars
      BY <3>4 DEF vars
    <3> QED
      BY <3>1, <3>2, <3>3, <3>4 DEF Next, AdminStep
  <2>2. tenantOf[verifying[m]] = t
    BY <1>3, <2>1 DEF Close, Closable, VInv, TypeOK
  <2>3. verifying[m] = activation[t]
    BY <1>3, <2>1, <2>2 DEF Close, Closable, VInv, Current
  <2> QED
    BY <1>3, <2>1, <2>3 DEF Close, Closable, VInv, TypeOK
<1>4. VInv /\ [Next]_vars =>
        [\A t \in Tenants : state[t] # "CLOSED" /\ state'[t] = "CLOSED" =>
             \E m \in Admins : verifying[m] = activation[t] /\ verifying'[m] = None]_vars
  BY <1>3
<1> QED
  BY <1>1, <1>2, <1>4, PTL DEF Spec, CloseIsVerified

-----------------------------------------------------------------------------
(* The accumulator trips the kill-switch only by the means of the switch.  *)
LEMMA DowStepIsSwitchStep == [DowNext]_allVars => [Next]_vars
<1> SUFFICES ASSUME [DowNext]_allVars PROVE [Next]_vars
  OBVIOUS
<1>1. ASSUME NEW c \in Calls, NEW t \in Tenants, NEW amount \in Amounts, Add(c, t, amount)
      PROVE  [Next]_vars
  BY <1>1 DEF Add, Next
<1>2. ASSUME NEW c \in Calls, ActivationSettles(c) \/ NotifyLimit(c) \/ NotifyLimitRejects(c)
      PROVE  [Next]_vars
  BY <1>2 DEF ActivationSettles, NotifyLimit, NotifyLimitRejects
<1>3. ASSUME NEW t \in Tenants, ResetBuckets(t)
      PROVE  [Next]_vars
  BY <1>3 DEF ResetBuckets
<1>4. CASE TimePasses
  BY <1>4 DEF TimePasses
<1>5. ASSUME NEW c \in Calls, NEW t \in Tenants, NEW as \in SUBSET Agents, ActivateByHand(c, t, as)
      PROVE  [Next]_vars
  BY <1>5 DEF ActivateByHand, Next
<1>6. ASSUME NEW c \in Calls, CallStep(c)
      PROVE  [Next]_vars
  BY <1>6 DEF Next
<1>7. ASSUME NEW m \in Admins, AdminActs(m)
      PROVE  [Next]_vars
  BY <1>7 DEF AdminActs, Next, AdminStep
<1>8. CASE UNCHANGED allVars
  BY <1>8 DEF allVars
<1> QED
  BY <1>1, <1>2, <1>3, <1>4, <1>5, <1>6, <1>7, <1>8 DEF DowNext

(* Seen from the kill-switch, the protection is one more caller of it: all *)
(* that is proved of the switch holds while the protection trips it.       *)
THEOREM ProtectionUsesSwitch == DowSpec => Spec
<1>1. DowInit => Init
  BY DEF DowInit
<1> QED
  BY <1>1, DowStepIsSwitchStep, PTL DEF DowSpec, Spec

-----------------------------------------------------------------------------
(* A call that exceeds the limit goes from the activation to the           *)
(* notification only when the activation resolved.                         *)
Accounted ==
    \A c \in Calls :
        /\ adding[c] \in {"activate", "notify"} => c \in exceeded
        /\ c \in exceeded => adding[c] # "idle"
        /\ c \in exceeded /\ adding[c] = "notify" => at[c] = "resolved"

\* What the switch does to the calls that were accounted for.
LEMMA SwitchFrame ==
    ASSUME TypeOK, [Next]_vars, NEW c \in Calls
    PROVE  /\ at[c] = "resolved" => at'[c] = "resolved"
           /\ c \in published => c \in published'
           /\ c \in ledger => c \in ledger'
<1> USE DEF TypeOK, breaker, call, effects, admin
<1>1. ASSUME NEW d \in Calls, NEW t \in Tenants, NEW as \in SUBSET Agents, Activate(d, t, as)
      PROVE  /\ at[c] = "resolved" => at'[c] = "resolved"
             /\ published \subseteq published' /\ ledger \subseteq ledger'
  BY <1>1 DEF Activate
<1>2. ASSUME NEW d \in Calls, CallStep(d)
      PROVE  /\ at[c] = "resolved" => at'[c] = "resolved"
             /\ published \subseteq published' /\ ledger \subseteq ledger'
  BY <1>2 DEF CallStep, Publish, PublishRejects, WriteLedger, WriteLedgerRejects,
         PollAnswers, PollRejects, DeadlinePasses, Wake, Escalation, Notify, NotifyRejects, Reject
<1>3. ASSUME NEW m \in Admins, AdminStep(m)
      PROVE  UNCHANGED <<at, published, ledger>>
  BY <1>3 DEF AdminStep, Reset, Close, GiveUp
<1>4. CASE UNCHANGED vars
  BY <1>4 DEF vars
<1> QED
  BY <1>1, <1>2, <1>3, <1>4 DEF Next

LEMMA AccountedInit == DowInit => Accounted /\ ExceededIsReported
  BY DEF DowInit, Accounted, ExceededIsReported

LEMMA AccountedStep ==
    IInv /\ DowTypeOK /\ Accounted /\ ExceededIsReported /\ [DowNext]_allVars
        => Accounted' /\ ExceededIsReported'
<1> SUFFICES ASSUME IInv, DowTypeOK, Accounted, ExceededIsReported, [DowNext]_allVars
             PROVE  Accounted' /\ ExceededIsReported'
  OBVIOUS
<1>1. \A c \in Calls : /\ at[c] = "resolved" => at'[c] = "resolved"
                       /\ c \in published => c \in published'
                       /\ c \in ledger => c \in ledger'
  BY DowStepIsSwitchStep, SwitchFrame DEF DowTypeOK
<1>2. ResolvedIsAccounted
  BY DEF IInv
<1> USE DEF DowTypeOK, Accounted, ExceededIsReported, Ended, spend, adder
<1>3. ASSUME NEW c \in Calls, NEW t \in Tenants, NEW amount \in Amounts, Add(c, t, amount)
      PROVE  Accounted' /\ ExceededIsReported'
  BY <1>1, <1>3 DEF Add, WithExceeded
<1>4. ASSUME NEW c \in Calls, ActivationSettles(c)
      PROVE  Accounted' /\ ExceededIsReported'
  BY <1>1, <1>4 DEF ActivationSettles
<1>5. ASSUME NEW c \in Calls, NotifyLimit(c)
      PROVE  Accounted' /\ ExceededIsReported'
  BY <1>1, <1>2, <1>5 DEF NotifyLimit, ResolvedIsAccounted
<1>6. ASSUME NEW c \in Calls, NotifyLimitRejects(c)
      PROVE  Accounted' /\ ExceededIsReported'
  BY <1>1, <1>6 DEF NotifyLimitRejects
<1>7. CASE UNCHANGED <<adding, exceeded, told>>
  BY <1>1, <1>7
<1>8. ASSUME NEW m \in Admins, AdminActs(m)
      PROVE  UNCHANGED <<adding, exceeded, told>>
  BY <1>8 DEF AdminActs, dowVars
<1> QED
  BY <1>3, <1>4, <1>5, <1>6, <1>7, <1>8
     DEF DowNext, ResetBuckets, TimePasses, ActivateByHand, dowVars, allVars

-----------------------------------------------------------------------------
(* The hour that a moment lies in.                                         *)
LEMMA HourLaw ==
    ASSUME NEW n \in Nat
    PROVE  /\ Hour(n) \in Nat
           /\ TicksPerHour * Hour(n) <= n
           /\ n < TicksPerHour * Hour(n) + TicksPerHour
<1> HIDE WindowAssumption
<1>1. ASSUME NEW K \in Nat \ {0}
      PROVE  n \div K \in Nat /\ K * (n \div K) <= n /\ n < K * (n \div K) + K
  BY SMTT(30)
<1> QED
  BY <1>1, WindowAssumption DEF Hour

LEMMA HourMonotone ==
    ASSUME NEW m \in Nat, NEW n \in Nat, m <= n
    PROVE  Hour(m) <= Hour(n)
<1>1. ASSUME NEW K \in Nat \ {0}, NEW a \in Nat, NEW b \in Nat, K * a <= m, n < K * b + K
      PROVE  a <= b
  <2>1. K * a < K * (b + 1)
    BY <1>1
  <2> QED
    BY <2>1, <1>1, SMTT(30)
<1> QED
  BY <1>1, HourLaw, WindowAssumption

LEMMA HoursAndTicks ==
    /\ IsFiniteSet(Hours) /\ IsFiniteSet(Ticks)
    /\ Hours \subseteq Nat /\ Ticks \subseteq Nat
    /\ \A n \in Ticks : Hour(n) \in Hours
<1>1. LastTick \in Nat /\ Hour(LastTick) \in Nat
  BY HourLaw, SpendAssumption
<1>2. IsFiniteSet(Hours) /\ IsFiniteSet(Ticks)
  BY <1>1, FS_Interval DEF Hours, Ticks
<1>3. ASSUME NEW n \in Ticks
      PROVE  Hour(n) \in Hours
  <2>1. n \in Nat /\ n <= LastTick
    BY <1>1 DEF Ticks
  <2>2. Hour(n) \in Nat /\ Hour(n) <= Hour(LastTick)
    BY <1>1, <2>1, HourLaw, HourMonotone
  <2> QED
    BY <1>1, <2>2 DEF Hours
<1> QED
  BY <1>1, <1>2, <1>3 DEF Hours, Ticks

-----------------------------------------------------------------------------
(* Every variable of the accumulator keeps its type.                       *)
LEMMA DowTypeInit == DowInit => DowTypeOK
<1> SUFFICES ASSUME DowInit PROVE DowTypeOK
  OBVIOUS
<1>1. TypeOK
  BY TypeInit DEF DowInit
<1> QED
  BY <1>1, SpendAssumption DEF DowInit, DowTypeOK, Ticks

LEMMA DowTypeStep == DowTypeOK /\ Accounted /\ [DowNext]_allVars => DowTypeOK'
<1> SUFFICES ASSUME DowTypeOK, Accounted, [DowNext]_allVars PROVE DowTypeOK'
  OBVIOUS
<1>0. TypeOK'
  BY DowStepIsSwitchStep, TypeStep DEF DowTypeOK
<1> USE DEF DowTypeOK, Ended, spend, adder
<1>1. ASSUME NEW c \in Calls, NEW t \in Tenants, NEW amount \in Amounts, Add(c, t, amount)
      PROVE  DowTypeOK'
  <2>1. amount \in Nat /\ Hour(tick) \in Hours
    BY SpendAssumption, HoursAndTicks
  <2>2. buckets' \in [Tenants -> [Hours -> Nat]] /\ spentAt' \in [Tenants -> [Ticks -> Nat]]
    BY <1>1, <2>1 DEF Add
  <2>3. tick' = tick /\ told' = told /\ since' \subseteq Tenants
    BY <1>1 DEF Add
  <2>4. adding' \in [Calls -> {"idle", "activate", "notify"} \cup Ended]
    BY <1>1 DEF Add
  <2>5. exceeded' \subseteq Calls /\ exceeded \subseteq exceeded'
    BY <1>1 DEF Add, WithExceeded
  <2> QED
    BY <1>0, <2>2, <2>3, <2>4, <2>5
<1>2. ASSUME NEW c \in Calls, ActivationSettles(c) \/ NotifyLimit(c) \/ NotifyLimitRejects(c)
      PROVE  DowTypeOK'
  BY <1>0, <1>2 DEF ActivationSettles, NotifyLimit, NotifyLimitRejects, Accounted
<1>3. ASSUME NEW t \in Tenants, ResetBuckets(t)
      PROVE  DowTypeOK'
  BY <1>0, <1>3 DEF ResetBuckets
<1>4. CASE TimePasses
  BY <1>0, <1>4, SpendAssumption DEF TimePasses, Ticks
<1>5. CASE UNCHANGED <<tick, buckets, adding, exceeded, told, spentAt>> /\ since' \subseteq since
  BY <1>0, <1>5
<1>6. ASSUME NEW m \in Admins, AdminActs(m)
      PROVE  UNCHANGED <<tick, buckets, adding, exceeded, told, spentAt>> /\ since' \subseteq since
  BY <1>6 DEF AdminActs, dowVars
<1> QED
  BY <1>1, <1>2, <1>3, <1>4, <1>5, <1>6 DEF DowNext, ActivateByHand, dowVars, allVars

-----------------------------------------------------------------------------
(* The sums of DowProtection are those of SetSums.                         *)
LEMMA TotalIsSum ==
    ASSUME NEW f, NEW S
    PROVE  Total(f, S) = SumOver(f, S)
  BY DEF Total, SumOver

\* The hours that rollingSum() adds up at a moment, and the moments of some hours.
WindowAt(n) == {h \in Hours : h <= Hour(n) /\ h > Hour(n) - Window}
TicksOf(HS) == {n \in Ticks : Hour(n) \in HS}

(* A bucket holds what was spent at the moments of its hour, and nothing   *)
(* has been spent in the future.                                           *)
BucketsAreSums ==
    \A t \in Tenants, h \in Hours : buckets[t][h] = SumOver(spentAt[t], TicksOf({h}))

FutureIsEmpty ==
    \A t \in Tenants, n \in Ticks : n > tick => spentAt[t][n] = 0

LEMMA TicksOfFinite ==
    ASSUME NEW HS
    PROVE  IsFiniteSet(TicksOf(HS))
<1>1. TicksOf(HS) \in SUBSET Ticks
  BY DEF TicksOf
<1> QED
  BY <1>1, HoursAndTicks, FS_Subset

LEMMA HistoryInit == DowInit => BucketsAreSums /\ FutureIsEmpty
<1> SUFFICES ASSUME DowInit PROVE BucketsAreSums /\ FutureIsEmpty
  OBVIOUS
<1>1. ASSUME NEW t \in Tenants, NEW h \in Hours
      PROVE  SumOver(spentAt[t], TicksOf({h})) = 0
  <2>1. \A n \in TicksOf({h}) : spentAt[t][n] = 0
    BY DEF DowInit, TicksOf
  <2> QED
    BY <2>1, TicksOfFinite, SumZero
<1> QED
  BY <1>1 DEF DowInit, BucketsAreSums, FutureIsEmpty

LEMMA HistoryStep ==
    DowTypeOK /\ BucketsAreSums /\ FutureIsEmpty /\ [DowNext]_allVars
        => BucketsAreSums' /\ FutureIsEmpty'
<1> SUFFICES ASSUME DowTypeOK, BucketsAreSums, FutureIsEmpty, [DowNext]_allVars
             PROVE  BucketsAreSums' /\ FutureIsEmpty'
  OBVIOUS
<1>1. ASSUME NEW c \in Calls, NEW t \in Tenants, NEW amount \in Amounts, Add(c, t, amount)
      PROVE  BucketsAreSums' /\ FutureIsEmpty'
  <2>1. /\ amount \in Nat /\ Hour(tick) \in Hours /\ tick \in Ticks
        /\ spentAt \in [Tenants -> [Ticks -> Nat]]
        /\ buckets \in [Tenants -> [Hours -> Nat]]
    BY SpendAssumption, HoursAndTicks DEF DowTypeOK
  <2>2. /\ tick' = tick
        /\ spentAt' = [spentAt EXCEPT ![t][tick] = @ + amount]
        /\ buckets' = [buckets EXCEPT ![t][Hour(tick)] = @ + amount]
    BY <1>1 DEF Add
  <2>3. FutureIsEmpty'
    <3> SUFFICES ASSUME NEW u \in Tenants, NEW n \in Ticks, n > tick
                 PROVE  spentAt'[u][n] = 0
      BY <2>2 DEF FutureIsEmpty
    <3>1. n # tick
      BY <2>1, HoursAndTicks
    <3>2. spentAt'[u][n] = spentAt[u][n]
      BY <2>1, <2>2, <3>1
    <3> QED
      BY <3>2 DEF FutureIsEmpty
  <2>4. ASSUME NEW u \in Tenants, NEW h \in Hours
        PROVE  buckets'[u][h] = SumOver(spentAt'[u], TicksOf({h}))
    <3> DEFINE f == spentAt[u]
               g == spentAt'[u]
               S == TicksOf({h})
    <3>1. /\ buckets[u][h] = SumOver(f, S) /\ IsFiniteSet(S)
          /\ \A n \in S : f[n] \in Int
      <4>1. buckets[u][h] = SumOver(f, S)
        BY DEF BucketsAreSums
      <4>2. IsFiniteSet(S)
        BY TicksOfFinite
      <4>3. \A n \in S : f[n] \in Int
        BY <2>1 DEF TicksOf
      <4> QED
        BY <4>1, <4>2, <4>3
    <3>2. CASE u = t /\ h = Hour(tick)
      <4>1. tick \in S /\ g[tick] = f[tick] + amount /\ \A n \in S \ {tick} : g[n] = f[n]
        BY <2>1, <2>2, <3>2 DEF TicksOf
      <4>2. SumOver(g, S) = SumOver(f, S) + amount
        <5> HIDE DEF f, g, S
        <5> QED
          BY <2>1, <3>1, <4>1, SumGrows
      <4>3. buckets'[u][h] = buckets[u][h] + amount
        BY <2>1, <2>2, <3>2
      <4> QED
        BY <3>1, <4>2, <4>3
    <3>3. CASE ~(u = t /\ h = Hour(tick))
      <4>1. \A n \in S : f[n] = g[n]
        BY <2>1, <2>2, <3>3 DEF TicksOf
      <4>2. SumOver(f, S) = SumOver(g, S)
        <5> HIDE DEF f, g, S
        <5> QED
          BY <3>1, <4>1, SumSame
      <4>3. buckets'[u][h] = buckets[u][h]
        BY <2>1, <2>2, <3>3
      <4> QED
        BY <3>1, <4>2, <4>3
    <3> QED
      BY <3>2, <3>3
  <2> QED
    BY <2>3, <2>4 DEF BucketsAreSums, TicksOf
<1>2. ASSUME NEW t \in Tenants, ResetBuckets(t)
      PROVE  BucketsAreSums' /\ FutureIsEmpty'
  <2>1. /\ tick' = tick
        /\ spentAt' = [spentAt EXCEPT ![t] = [n \in Ticks |-> 0]]
        /\ buckets' = [buckets EXCEPT ![t] = [h \in Hours |-> 0]]
        /\ spentAt \in [Tenants -> [Ticks -> Nat]]
        /\ buckets \in [Tenants -> [Hours -> Nat]]
    BY <1>2 DEF ResetBuckets, DowTypeOK
  <2>2. FutureIsEmpty'
    BY <2>1 DEF FutureIsEmpty
  <2>3. ASSUME NEW u \in Tenants, NEW h \in Hours
        PROVE  buckets'[u][h] = SumOver(spentAt'[u], TicksOf({h}))
    <3>1. CASE u = t
      <4>1. \A n \in TicksOf({h}) : spentAt'[u][n] = 0
        BY <2>1, <3>1 DEF TicksOf
      <4>2. SumOver(spentAt'[u], TicksOf({h})) = 0
        BY <4>1, TicksOfFinite, SumZero
      <4> QED
        BY <2>1, <3>1, <4>2
    <3>2. CASE u # t
      <4>1. spentAt'[u] = spentAt[u] /\ buckets'[u] = buckets[u]
        BY <2>1, <3>2
      <4> QED
        BY <4>1 DEF BucketsAreSums
    <3> QED
      BY <3>1, <3>2
  <2> QED
    BY <2>2, <2>3 DEF BucketsAreSums, TicksOf
<1>3. CASE TimePasses
  <2>1. tick' = tick + 1 /\ tick \in Nat /\ UNCHANGED <<buckets, spentAt>>
    BY <1>3, HoursAndTicks DEF TimePasses, spend, DowTypeOK
  <2>2. \A n \in Ticks : n > tick' => n > tick
    BY <2>1, HoursAndTicks
  <2> QED
    BY <2>1, <2>2 DEF BucketsAreSums, FutureIsEmpty, TicksOf
<1>4. CASE UNCHANGED <<tick, buckets, spentAt>>
  BY <1>4 DEF BucketsAreSums, FutureIsEmpty, TicksOf
<1>5. ASSUME NEW m \in Admins, AdminActs(m)
      PROVE  UNCHANGED <<tick, buckets, spentAt>>
  BY <1>5 DEF AdminActs, spend, dowVars
<1> QED
  BY <1>1, <1>2, <1>3, <1>4, <1>5
     DEF DowNext, ActivationSettles, NotifyLimit, NotifyLimitRejects, ActivateByHand,
         spend, dowVars, allVars

-----------------------------------------------------------------------------
(* The rolling sum is the sum over the hours of the window, and what was   *)
(* spent at the moments of these hours.                                    *)
LEMMA RollingSumIs ==
    ASSUME NEW t
    PROVE  RollingSum(t) = SumOver(buckets[t], WindowAt(tick))
  BY TotalIsSum DEF RollingSum, WindowAt

LEMMA WindowFinite ==
    ASSUME NEW n
    PROVE  WindowAt(n) \in SUBSET Hours /\ IsFiniteSet(WindowAt(n))
<1>1. WindowAt(n) \in SUBSET Hours
  BY DEF WindowAt
<1> QED
  BY <1>1, HoursAndTicks, FS_Subset

\* The hours after the present one are empty.
LEMMA FutureHoursAreEmpty ==
    ASSUME DowTypeOK, BucketsAreSums, FutureIsEmpty,
           NEW t \in Tenants, NEW h \in Hours, h > Hour(tick)
    PROVE  buckets[t][h] = 0
<1>1. ASSUME NEW n \in TicksOf({h})
      PROVE  spentAt[t][n] = 0
  <2>1. n \in Ticks /\ n \in Nat /\ Hour(n) = h /\ tick \in Nat
    BY HoursAndTicks DEF TicksOf, DowTypeOK
  <2>2. Hour(tick) \in Nat /\ Hour(n) \in Nat
    BY <2>1, HourLaw
  <2>3. n > tick
    <3>1. n <= tick => Hour(n) <= Hour(tick)
      BY <2>1, HourMonotone
    <3> QED
      BY <2>1, <2>2, <3>1
  <2> QED
    BY <2>1, <2>3 DEF FutureIsEmpty
<1>2. SumOver(spentAt[t], TicksOf({h})) = 0
  BY <1>1, TicksOfFinite, SumZero
<1> QED
  BY <1>2 DEF BucketsAreSums

(* The passing of time lowers the rolling sum or leaves it as it is.       *)
LEMMA SumOnlyFalls ==
    ASSUME DowTypeOK, BucketsAreSums, FutureIsEmpty, TimePasses, NEW t \in Tenants
    PROVE  RollingSum(t)' <= RollingSum(t)
<1> DEFINE Old == WindowAt(tick)
           New == WindowAt(tick')
           b == buckets[t]
<1>1. /\ tick \in Nat /\ tick' = tick + 1 /\ UNCHANGED buckets
      /\ b \in [Hours -> Nat] /\ Hours \subseteq Nat
  BY HoursAndTicks DEF TimePasses, spend, DowTypeOK
<1>2. Hour(tick) \in Nat /\ Hour(tick') \in Nat /\ Hour(tick) <= Hour(tick')
  BY <1>1, HourLaw, HourMonotone
<1>3. RollingSum(t)' = SumOver(b, New)
  BY <1>1, TotalIsSum DEF RollingSum, WindowAt
<1>4. \A h \in New \ Old : b[h] = 0
  <2> SUFFICES ASSUME NEW h \in New \ Old PROVE b[h] = 0
    OBVIOUS
  <2>1. h \in Hours /\ h > Hour(tick)
    BY <1>1, <1>2, WindowAssumption DEF WindowAt
  <2> QED
    BY <2>1, FutureHoursAreEmpty
<1>5. IsFiniteSet(Old) /\ IsFiniteSet(New) /\ Old \subseteq Hours /\ New \subseteq Hours
  BY WindowFinite
<1>6. IsFiniteSet(New \cap Old) /\ IsFiniteSet(New \ Old)
  BY <1>5, FS_Subset
<1> HIDE DEF Old, New, b
<1>7. SumOver(b, (New \cap Old) \cup (New \ Old)) = SumOver(b, New \cap Old) + SumOver(b, New \ Old)
  <2>1. (New \cap Old) \cap (New \ Old) = {}
    OBVIOUS
  <2>2. \A h \in (New \cap Old) \cup (New \ Old) : b[h] \in Int
    BY <1>1, <1>5
  <2> QED
    BY <1>6, <2>1, <2>2, SumUnion
<1>8. (New \cap Old) \cup (New \ Old) = New
  OBVIOUS
<1>9. SumOver(b, New \ Old) = 0
  BY <1>4, <1>6, SumZero
<1>10. SumOver(b, New \cap Old) <= SumOver(b, Old)
  <2>1. \A h \in Old : b[h] \in Nat
    BY <1>1, <1>5
  <2> QED
    BY <2>1, <1>5, SumMonotone
<1>11. SumOver(b, New \cap Old) \in Nat /\ SumOver(b, Old) \in Nat
  <2>1. \A h \in Old : b[h] \in Nat
    BY <1>1, <1>5
  <2> QED
    BY <2>1, <1>5, <1>6, SumNat
<1>12. SumOver(b, New) = SumOver(b, New \cap Old) + 0
  BY <1>7, <1>8, <1>9, Zenon
<1>13. RollingSum(t) = SumOver(b, Old)
  BY RollingSumIs DEF b, Old
<1> QED
  BY <1>3, <1>10, <1>11, <1>12, <1>13

-----------------------------------------------------------------------------
LEMMA OverLimitInit == DowInit => OverLimitIsStopped
  BY DEF DowInit, OverLimitIsStopped

(* Whatever raises the sum above the limit opens the circuit in the same   *)
(* step, and only a reset, which is after the latest spend, leaves OPEN.   *)
LEMMA OverLimitStep ==
    ASSUME DowTypeOK, DowTypeOK', BucketsAreSums, FutureIsEmpty, OverLimitIsStopped,
           [DowNext]_allVars
    PROVE  OverLimitIsStopped'
<1> SUFFICES ASSUME NEW t \in Tenants, RollingSum(t)' > Limit, t \in since'
             PROVE  state'[t] = "OPEN"
  BY Zenon DEF OverLimitIsStopped
<1>0. state \in [Tenants -> CircuitState] /\ TypeOK
  BY DEF DowTypeOK, TypeOK
<1>1. ASSUME NEW c \in Calls, NEW u \in Tenants, NEW amount \in Amounts, Add(c, u, amount)
      PROVE  state'[t] = "OPEN"
  <2>1. CASE u = t
    <3>1. Activate(c, t, {}) \/ RollingSum(t)' <= Limit
      BY <1>1, <2>1 DEF Add, SumAfter
    <3>2. RollingSum(t)' \in Nat
      <4>1. buckets' \in [Tenants -> [Hours -> Nat]]
        BY DEF DowTypeOK
      <4>2. RollingSum(t)' = SumOver(buckets'[t], WindowAt(tick'))
        BY TotalIsSum DEF RollingSum, WindowAt
      <4>3. \A h \in WindowAt(tick') : buckets'[t][h] \in Nat
        BY <4>1, WindowFinite
      <4>4. SumOver(buckets'[t], WindowAt(tick')) \in Nat
        BY <4>3, WindowFinite, SumNat
      <4> QED
        BY <4>2, <4>4
    <3>3. Activate(c, t, {})
      BY <3>1, <3>2, SpendAssumption
    <3> QED
      BY <3>3, <1>0 DEF Activate, Opened
  <2>2. CASE u # t
    <3>1. buckets'[t] = buckets[t] /\ tick' = tick /\ (t \in since' <=> t \in since)
      BY <1>1, <2>2 DEF Add, DowTypeOK
    <3>2. RollingSum(t)' = RollingSum(t)
      BY <3>1, TotalIsSum DEF RollingSum
    <3>3. state[t] = "OPEN"
      BY <3>1, <3>2 DEF OverLimitIsStopped
    <3>4. state' = [state EXCEPT ![u] = "OPEN"] \/ state' = state
      BY <1>1 DEF Add, Activate, Opened, vars
    <3> QED
      BY <1>0, <3>3, <3>4
  <2> QED
    BY <2>1, <2>2
<1>2. ASSUME NEW u \in Tenants, ResetBuckets(u)
      PROVE  state'[t] = "OPEN"
  <2>1. CASE u = t
    <3>1. \A h \in WindowAt(tick') : buckets'[t][h] = 0
      BY <1>2, <2>1, WindowFinite DEF ResetBuckets, DowTypeOK
    <3>2. SumOver(buckets'[t], WindowAt(tick')) = 0
      BY <3>1, WindowFinite, SumZero
    <3>3. RollingSum(t)' = 0
      BY <3>2, TotalIsSum DEF RollingSum, WindowAt
    <3> QED
      BY <3>3, SpendAssumption
  <2>2. CASE u # t
    <3>1. buckets'[t] = buckets[t] /\ UNCHANGED <<state, tick, since>>
      BY <1>2, <2>2 DEF ResetBuckets, DowTypeOK, vars
    <3>2. RollingSum(t)' = RollingSum(t)
      BY <3>1, TotalIsSum DEF RollingSum
    <3> QED
      BY <3>1, <3>2 DEF OverLimitIsStopped
  <2> QED
    BY <2>1, <2>2
<1>3. CASE TimePasses
  <2>1. RollingSum(t)' <= RollingSum(t)
    BY <1>3, SumOnlyFalls
  <2>2. RollingSum(t)' \in Nat /\ RollingSum(t) \in Nat
    <3>1. /\ buckets \in [Tenants -> [Hours -> Nat]] /\ buckets' = buckets
      BY <1>3 DEF TimePasses, spend, DowTypeOK
    <3>2. RollingSum(t) = SumOver(buckets[t], WindowAt(tick))
      BY RollingSumIs
    <3>3. RollingSum(t)' = SumOver(buckets'[t], WindowAt(tick'))
      BY TotalIsSum DEF RollingSum, WindowAt
    <3>4. /\ \A h \in WindowAt(tick) : buckets[t][h] \in Nat
          /\ \A h \in WindowAt(tick') : buckets'[t][h] \in Nat
      BY <3>1, WindowFinite
    <3>5. /\ SumOver(buckets[t], WindowAt(tick)) \in Nat
          /\ SumOver(buckets'[t], WindowAt(tick')) \in Nat
      BY <3>4, WindowFinite, SumNat
    <3> QED
      BY <3>2, <3>3, <3>5
  <2>3. RollingSum(t) > Limit
    BY <2>1, <2>2, SpendAssumption
  <2>4. UNCHANGED <<state, since>>
    BY <1>3 DEF TimePasses, vars
  <2> QED
    BY <2>3, <2>4 DEF OverLimitIsStopped
<1>4. ASSUME NEW c \in Calls, NEW u \in Tenants, NEW as \in SUBSET Agents, ActivateByHand(c, u, as)
      PROVE  state'[t] = "OPEN"
  <2>1. UNCHANGED <<buckets, tick, since>> /\ state' = [state EXCEPT ![u] = "OPEN"]
    BY <1>4 DEF ActivateByHand, dowVars, Activate, Opened
  <2>2. RollingSum(t)' = RollingSum(t)
    BY <2>1, TotalIsSum DEF RollingSum
  <2> QED
    BY <1>0, <2>1, <2>2 DEF OverLimitIsStopped
<1>5. ASSUME NEW m \in Admins, NEW u \in Tenants, Reset(m, u), since' = since \ {u},
             UNCHANGED <<tick, spend, adder>>
      PROVE  state'[t] = "OPEN"
  <2>1. t # u /\ t \in since /\ UNCHANGED <<buckets, tick>>
    BY <1>5 DEF spend
  <2>2. RollingSum(t)' = RollingSum(t)
    BY <2>1, TotalIsSum DEF RollingSum
  <2> QED
    BY <1>0, <1>5, <2>1, <2>2 DEF Reset, OverLimitIsStopped
<1>6. ASSUME NEW m \in Admins, Close(m) \/ GiveUp(m), UNCHANGED dowVars
      PROVE  state'[t] = "OPEN"
  <2>1. UNCHANGED <<buckets, tick, since>>
    BY <1>6 DEF dowVars
  <2>2. RollingSum(t)' = RollingSum(t)
    BY <2>1, TotalIsSum DEF RollingSum
  <2> QED
    BY <1>0, <1>6, <2>1, <2>2 DEF Close, Closable, GiveUp, breaker, OverLimitIsStopped
<1>7. CASE UNCHANGED <<state, buckets, tick, since>>
  <2>1. RollingSum(t)' = RollingSum(t)
    BY <1>7, TotalIsSum DEF RollingSum
  <2> QED
    BY <1>7, <2>1 DEF OverLimitIsStopped
<1>8. ASSUME NEW c \in Calls,
             \/ ActivationSettles(c) \/ NotifyLimit(c) \/ NotifyLimitRejects(c)
             \/ CallStep(c) /\ UNCHANGED dowVars
      PROVE  UNCHANGED <<state, buckets, tick, since>>
  BY <1>8, <1>0, CallStepFrame
     DEF ActivationSettles, NotifyLimit, NotifyLimitRejects, spend, vars, dowVars
<1>9. UNCHANGED allVars => UNCHANGED <<state, buckets, tick, since>>
  BY DEF allVars, vars, dowVars
<1> QED
  BY <1>1, <1>2, <1>3, <1>4, <1>5, <1>6, <1>7, <1>8, <1>9 DEF DowNext, AdminActs

-----------------------------------------------------------------------------
(* The moments of the last k hours, whole or in part.                      *)
LastTicks(k) == {n \in Ticks : n <= tick /\ n > tick - k * TicksPerHour}

(* Regrouping: the sum over some hours is the sum over their moments.      *)
LEMMA Regroup ==
    ASSUME DowTypeOK, BucketsAreSums, NEW t \in Tenants, NEW HS \in SUBSET Hours
    PROVE  SumOver(buckets[t], HS) = SumOver(spentAt[t], TicksOf(HS))
<1> DEFINE b == buckets[t]
           s == spentAt[t]
           Good == {T \in SUBSET HS : SumOver(b, T) = SumOver(s, TicksOf(T))}
<1>0. /\ IsFiniteSet(HS) /\ b \in [Hours -> Nat] /\ s \in [Ticks -> Nat]
      /\ \A h \in Hours : b[h] = SumOver(s, TicksOf({h}))
  BY HoursAndTicks, FS_Subset DEF DowTypeOK, BucketsAreSums
<1>1. ASSUME NEW T \in SUBSET HS, \A U \in SUBSET T : U # T => U \in Good
      PROVE  T \in Good
  <2>1. CASE T = {}
    <3>1. TicksOf({}) = {}
      BY DEF TicksOf
    <3> QED
      BY <2>1, <3>1, SumEmpty
  <2>2. CASE T # {}
    <3> DEFINE h == One(T)
               R == T \ {h}
    <3>1. h \in T /\ h \in Hours
      BY <2>2 DEF One
    <3>2. SumOver(b, R) = SumOver(s, TicksOf(R))
      BY <1>1, <3>1
    <3>3. SumOver(b, T) = b[h] + SumOver(b, R)
      BY <1>0, <2>2, SumOne, FS_Subset
    <3>4. b[h] = SumOver(s, TicksOf({h}))
      BY <1>0, <3>1
    <3>5. SumOver(s, TicksOf({h}) \cup TicksOf(R)) = SumOver(s, TicksOf({h})) + SumOver(s, TicksOf(R))
      <4>1. TicksOf({h}) \cap TicksOf(R) = {}
        BY DEF TicksOf
      <4>2. \A n \in TicksOf({h}) \cup TicksOf(R) : s[n] \in Int
        BY <1>0 DEF TicksOf
      <4>3. IsFiniteSet(TicksOf({h})) /\ IsFiniteSet(TicksOf(R))
        BY TicksOfFinite
      <4> HIDE DEF s, h, R
      <4> QED
        BY <4>1, <4>2, <4>3, SumUnion
    <3>6. TicksOf({h}) \cup TicksOf(R) = TicksOf(T)
      BY <3>1 DEF TicksOf
    <3> HIDE DEF b, s, h, R
    <3>7. SumOver(b, T) = SumOver(s, TicksOf(T))
      BY <3>2, <3>3, <3>4, <3>5, <3>6, Zenon
    <3> QED
      BY <3>7
  <2> QED
    BY <2>1, <2>2
<1> HIDE DEF Good
<1>2. \A T \in SUBSET HS : T \in Good
  BY <1>0, <1>1, StrictSubsets
<1> QED
  BY <1>2 DEF Good

\* A moment of the last k hours lies in one of the last k + 1 hours of the clock.
LEMMA RecentHour ==
    ASSUME NEW m \in Nat, NEW n \in Nat, NEW k \in Nat, m > n - k * TicksPerHour
    PROVE  Hour(m) > Hour(n) - (k + 1)
<1>1. ASSUME NEW K \in Nat \ {0}, NEW a \in Nat, NEW b \in Nat,
             K * a <= n, m < K * b + K, m > n - k * K
      PROVE  b > a - (k + 1)
  <2>1. K * a < K * (b + (k + 1))
    BY <1>1
  <2>2. a < b + (k + 1)
    BY <2>1, SMTT(30)
  <2> QED
    BY <2>2
<1> QED
  BY <1>1, HourLaw, WindowAssumption

\* A moment of the last k hours of the clock is one of the last k hours.
LEMMA RecentMoment ==
    ASSUME NEW m \in Nat, NEW n \in Nat, NEW k \in Nat, Hour(m) > Hour(n) - k
    PROVE  m > n - k * TicksPerHour
<1>1. ASSUME NEW K \in Nat \ {0}, NEW a \in Nat, NEW b \in Nat,
             n < K * a + K, K * b <= m, b > a - k
      PROVE  m > n - k * K
  <2>1. a + 1 <= b + k
    BY <1>1
  <2>2. K * (a + 1) <= K * (b + k)
    BY <2>1, SMTT(30)
  <2>3. K * (a + 1) = K * a + K /\ K * (b + k) = K * b + k * K
    BY SMTT(30)
  <2>4. K * a \in Int /\ K * b \in Int /\ k * K \in Int
    OBVIOUS
  <2> QED
    BY <1>1, <2>2, <2>3, <2>4
<1> QED
  BY <1>1, HourLaw, WindowAssumption

(* The hourly buckets count at least the last Window - 1 hours and at most *)
(* the last Window of them.                                                *)
LEMMA WindowFromHistory ==
    DowTypeOK /\ BucketsAreSums /\ FutureIsEmpty => WindowIsBounded
<1> SUFFICES ASSUME DowTypeOK, BucketsAreSums, FutureIsEmpty, NEW t \in Tenants
             PROVE  /\ Total(spentAt[t], LastTicks(Window - 1)) <= RollingSum(t)
                    /\ RollingSum(t) <= Total(spentAt[t], LastTicks(Window))
  BY Zenon DEF WindowIsBounded, LastTicks
<1> DEFINE s == spentAt[t]
           All == TicksOf(WindowAt(tick))
           Past == {n \in All : n <= tick}
           Few == LastTicks(Window - 1)
           Many == LastTicks(Window)
<1>1. /\ tick \in Nat /\ Ticks \subseteq Nat /\ s \in [Ticks -> Nat]
      /\ Window \in Nat /\ Window - 1 \in Nat /\ (Window - 1) + 1 = Window
  BY HoursAndTicks, WindowAssumption DEF DowTypeOK
<1>2. RollingSum(t) = SumOver(s, All)
  BY RollingSumIs, Regroup, WindowFinite
<1>3. Few \subseteq All
  <2> SUFFICES ASSUME NEW n \in Few PROVE n \in All
    OBVIOUS
  <2>1. n \in Ticks /\ n \in Nat /\ n <= tick /\ n > tick - (Window - 1) * TicksPerHour
    BY <1>1 DEF LastTicks
  <2>2. Hour(n) > Hour(tick) - Window
    BY <1>1, <2>1, RecentHour
  <2>3. Hour(n) <= Hour(tick) /\ Hour(n) \in Hours
    BY <1>1, <2>1, HourMonotone, HoursAndTicks
  <2> QED
    BY <2>1, <2>2, <2>3 DEF TicksOf, WindowAt
<1>4. Past \subseteq Many
  <2> SUFFICES ASSUME NEW n \in Past PROVE n \in Many
    OBVIOUS
  <2>1. n \in Ticks /\ n \in Nat /\ n <= tick /\ Hour(n) > Hour(tick) - Window
    BY <1>1 DEF TicksOf, WindowAt
  <2>2. n > tick - Window * TicksPerHour
    BY <1>1, <2>1, RecentMoment
  <2> QED
    BY <2>1, <2>2 DEF LastTicks
<1>5. \A n \in All \ Past : s[n] = 0
  BY <1>1 DEF FutureIsEmpty, TicksOf
<1>6. /\ IsFiniteSet(All) /\ IsFiniteSet(Past) /\ IsFiniteSet(All \ Past) /\ IsFiniteSet(Many)
      /\ All \subseteq Ticks /\ Many \subseteq Ticks /\ Past \subseteq All
  <2>1. All \subseteq Ticks /\ Many \subseteq Ticks
    BY DEF TicksOf, LastTicks
  <2>2. Past \subseteq All
    OBVIOUS
  <2> HIDE DEF All, Past, Many
  <2>3. IsFiniteSet(All) /\ IsFiniteSet(Many)
    BY <2>1, HoursAndTicks, FS_Subset
  <2>4. IsFiniteSet(Past) /\ IsFiniteSet(All \ Past)
    BY <2>2, <2>3, FS_Subset
  <2> QED
    BY <2>1, <2>2, <2>3, <2>4
<1>7. Total(s, Few) = SumOver(s, Few) /\ Total(s, Many) = SumOver(s, Many)
  BY TotalIsSum
<1> HIDE DEF s, All, Past, Few, Many
<1>8. /\ \A n \in All : s[n] \in Nat
      /\ \A n \in Many : s[n] \in Nat
  BY <1>1, <1>6
<1>9. SumOver(s, Few) <= SumOver(s, All)
  BY <1>3, <1>6, <1>8, SumMonotone
<1>10. SumOver(s, Past) <= SumOver(s, Many)
  BY <1>4, <1>6, <1>8, SumMonotone
<1>11. SumOver(s, All) = SumOver(s, Past)
  <2>1. SumOver(s, Past \cup (All \ Past)) = SumOver(s, Past) + SumOver(s, All \ Past)
    <3>1. Past \cap (All \ Past) = {}
      OBVIOUS
    <3>2. \A n \in Past \cup (All \ Past) : s[n] \in Int
      BY <1>6, <1>8
    <3> QED
      BY <1>6, <3>1, <3>2, SumUnion
  <2>2. Past \cup (All \ Past) = All
    BY <1>6
  <2>3. SumOver(s, All \ Past) = 0
    BY <1>5, <1>6, SumZero
  <2>4. SumOver(s, All) = SumOver(s, Past) + 0
    BY <2>1, <2>2, <2>3, Zenon
  <2>5. SumOver(s, Past) \in Int
    BY <1>6, <1>8, SumInt
  <2> QED
    BY <2>4, <2>5
<1>12. /\ Total(s, Few) <= RollingSum(t)
       /\ RollingSum(t) <= Total(s, Many)
  BY <1>2, <1>7, <1>9, <1>10, <1>11
<1> QED
  BY <1>12 DEF s, Few, Many

-----------------------------------------------------------------------------
(* What is inductive: the calls that exceeded, the history of the spending *)
(* and the limit itself.                                                   *)
DowInv ==
    /\ DowTypeOK
    /\ Accounted
    /\ ExceededIsReported
    /\ BucketsAreSums
    /\ FutureIsEmpty
    /\ OverLimitIsStopped

(* add() and the activations it begins keep the invariant, however the      *)
(* calls of all tenants interleave and the clock moves between them.       *)
THEOREM DowInvariance == DowSpec => []DowInv
<1>1. DowInit => DowInv
  BY DowTypeInit, AccountedInit, HistoryInit, OverLimitInit DEF DowInv
<1>2. IInv /\ DowInv /\ [DowNext]_allVars => DowInv'
  <2> SUFFICES ASSUME IInv, DowInv, [DowNext]_allVars PROVE DowInv'
    OBVIOUS
  <2>1. DowTypeOK'
    BY DowTypeStep DEF DowInv
  <2>2. Accounted' /\ ExceededIsReported'
    BY AccountedStep DEF DowInv
  <2>3. BucketsAreSums' /\ FutureIsEmpty'
    BY HistoryStep DEF DowInv
  <2>4. OverLimitIsStopped'
    BY <2>1, OverLimitStep DEF DowInv
  <2> QED
    BY <2>1, <2>2, <2>3, <2>4 DEF DowInv
<1>3. DowSpec => []IInv
  BY ProtectionUsesSwitch, Invariance, PTL
<1> QED
  BY <1>1, <1>2, <1>3, PTL DEF DowSpec

(* Every variable of the protection keeps its type.                        *)
THEOREM DowTypeCorrect == DowSpec => []DowTypeOK
<1>1. DowInv => DowTypeOK
  BY DEF DowInv
<1> QED
  BY <1>1, DowInvariance, PTL

(* While the rolling sum of a tenant is above its limit, its execution is  *)
(* stopped, unless a reset came after its latest spend.                    *)
THEOREM OverLimitIsStoppedHolds == DowSpec => []OverLimitIsStopped
<1>1. DowInv => OverLimitIsStopped
  BY DEF DowInv
<1> QED
  BY <1>1, DowInvariance, PTL

(* A call that resolves above the limit has tripped the switch, recorded   *)
(* it and told the administrators.                                         *)
THEOREM ExceededIsReportedHolds == DowSpec => []ExceededIsReported
<1>1. DowInv => ExceededIsReported
  BY DEF DowInv
<1> QED
  BY <1>1, DowInvariance, PTL

(* The rolling sum lies between what was spent in the last Window - 1 hours*)
(* and in the last Window hours, wherever in the hour the clock stands.    *)
THEOREM WindowIsBoundedHolds == DowSpec => []WindowIsBounded
<1>1. DowInv => WindowIsBounded
  BY WindowFromHistory DEF DowInv
<1> QED
  BY <1>1, DowInvariance, PTL
=============================================================================
