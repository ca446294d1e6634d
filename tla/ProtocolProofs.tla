---------------------------- MODULE ProtocolProofs ----------------------------
(***************************************************************************)
(* For any transactions, any amounts and any number of copies: a submitted *)
(* transaction whose mandate asks for the governor was approved before, and*)
(* transactions that are charged one by one stay within the limit together.*)
(* For any handlers, cards and messages: what is accepted was signed. For  *)
(* any payload and size of the chunks: a stream that arrived is the payload.*)
(* Then the Kafka clients and the ingestion, for any records and calls.    *)
(***************************************************************************)
EXTENDS AP2, A2A, MCP, Ingestion, Messaging, SetSums, SequenceTheorems

(* What an approval leaves on a copy, for as long as the copy exists.      *)
Approved ==
    \A v \in copies : v.status = "GOVERNOR_APPROVED" => v.validated # None

IInv ==
    /\ clock \in Ticks
    /\ copies \subseteq Copy
    /\ Approved
    /\ ApprovalPrecedesSubmission

(* The invariant survives a step that adds one copy and nothing else, when *)
(* the copy itself conforms.                                               *)
LEMMA OneMoreCopy ==
    ASSUME IInv, clock' = clock, NEW n \in Copy, copies' = copies \cup {n},
           n.status = "GOVERNOR_APPROVED" => n.validated # None,
           (n.status = "SUBMITTED" /\ n.approval) =>
               /\ n.validated # None /\ n.submitted # None
               /\ n.validated <= n.submitted
               /\ \E w \in CopiesOf(n.id) :
                      w.status = "GOVERNOR_APPROVED" /\ w.validated = n.validated
    PROVE  IInv'
<1>1. /\ clock' \in Ticks
      /\ (copies \subseteq Copy)'
    BY DEF IInv, Ticks
<1>2. Approved'
    BY DEF IInv, Approved
<1>3. ApprovalPrecedesSubmission'
    <2> SUFFICES ASSUME NEW v \in copies', v.status = "SUBMITTED", v.approval
                 PROVE  /\ v.validated # None /\ v.submitted # None
                        /\ v.validated <= v.submitted
                        /\ \E w \in CopiesOf(v.id)' :
                               w.status = "GOVERNOR_APPROVED" /\ w.validated = v.validated
        BY DEF ApprovalPrecedesSubmission
    <2>1. CopiesOf(v.id) \subseteq CopiesOf(v.id)'
        BY DEF CopiesOf
    <2>2. CASE v \in copies
        BY <2>1, <2>2 DEF IInv, ApprovalPrecedesSubmission
    <2>3. CASE v = n
        BY <2>1, <2>3
    <2> QED
        BY <2>2, <2>3
<1> QED
    BY <1>1, <1>2, <1>3 DEF IInv, Ticks

(* A step that touches neither clock nor copies cannot disturb it.         *)
LEMMA SameCopies ==
    ASSUME IInv, clock' \in Ticks, UNCHANGED copies
    PROVE  IInv'
BY DEF IInv, Approved, ApprovalPrecedesSubmission, CopiesOf, Ticks

LEMMA InitIInv == Init => IInv
BY NumbersAssumption
   DEF Init, IInv, Ticks, Approved, ApprovalPrecedesSubmission

LEMMA NextIInv == IInv /\ [Next]_vars => IInv'
<1> SUFFICES ASSUME IInv, [Next]_vars
             PROVE  IInv'
    OBVIOUS
<1>1. clock \in Ticks
    BY DEF IInv
<1>2. ASSUME NEW x \in Transactions, InitiateMalformed(x)
      PROVE  IInv'
    BY <1>1, <1>2, SameCopies DEF InitiateMalformed, Refuse
<1>3. ASSUME NEW x \in Transactions, NEW amount \in Amounts, NEW allowed \in BOOLEAN,
             NEW approval \in BOOLEAN, NEW formed \in BOOLEAN,
             NEW expires \in Ticks \cup {None},
             Initiate(x, amount, allowed, approval, formed, expires)
      PROVE  IInv'
    <2>1. ASSUME NEW e, Refuse(x, e)
          PROVE  IInv'
        BY <1>1, <2>1, SameCopies DEF Refuse
    <2>2. ASSUME Create(x, amount, approval)
          PROVE  IInv'
        <3> DEFINE n == [id |-> x, amount_usd |-> amount, approval |-> approval,
                         status |-> FirstStatus(approval), validated |-> None,
                         submitted |-> None]
        <3>1. n \in Copy
            BY DEF Copy, FirstStatus, Status
        <3>2. /\ n.status # "GOVERNOR_APPROVED"
              /\ ~(n.status = "SUBMITTED" /\ n.approval)
            BY DEF FirstStatus
        <3>3. clock' = clock /\ copies' = copies \cup {n}
            BY <2>2 DEF Create
        <3> HIDE DEF n
        <3> QED
            BY <3>1, <3>2, <3>3, OneMoreCopy
    <2> QED
        BY <1>3, <2>1, <2>2 DEF Initiate
<1>4. ASSUME NEW v \in copies, NEW valid \in BOOLEAN, ApplyGovernorApproval(v, valid)
      PROVE  IInv'
    <2> DEFINE n == [v EXCEPT !.status = IF valid THEN "GOVERNOR_APPROVED"
                                                  ELSE "GOVERNOR_REJECTED",
                              !.validated = clock]
    <2>1. v \in Copy
        BY DEF IInv
    <2>2. n \in Copy
        BY <1>1, <2>1 DEF Copy, Status
    <2>3. n.validated # None /\ n.status # "SUBMITTED"
        BY <1>1, <2>1, NoneAssumption DEF Copy, Ticks
    <2>4. clock' = clock /\ copies' = copies \cup {n}
        BY <1>4 DEF ApplyGovernorApproval, Add
    <2> HIDE DEF n
    <2> QED
        BY <2>2, <2>3, <2>4, OneMoreCopy
<1>5. ASSUME NEW v \in copies, SubmitTransaction(v)
      PROVE  IInv'
    <2> DEFINE n == [v EXCEPT !.status = "SUBMITTED", !.submitted = clock]
    <2>1. v \in Copy
        BY DEF IInv
    <2>2. /\ n \in Copy
          /\ n.id = v.id /\ n.approval = v.approval /\ n.validated = v.validated
          /\ n.status = "SUBMITTED" /\ n.submitted = clock
        BY <1>1, <2>1 DEF Copy, Status
    <2>3. ASSUME n.approval
          PROVE  /\ n.validated # None /\ n.submitted # None
                 /\ n.validated <= n.submitted
                 /\ v \in CopiesOf(n.id)
                 /\ v.status = "GOVERNOR_APPROVED" /\ v.validated = n.validated
        <3>1. v.status = "GOVERNOR_APPROVED"
            BY <1>5, <2>2, <2>3 DEF SubmitTransaction
        <3>2. v.validated # None
            BY <3>1 DEF IInv, Approved
        <3>3. v.validated <= clock
            BY <1>5, <3>2 DEF SubmitTransaction, InOrder
        <3> QED
            BY <1>1, <2>2, <3>1, <3>2, <3>3, NoneAssumption DEF CopiesOf, Ticks
    <2>4. clock' = clock /\ copies' = copies \cup {n}
        BY <1>5 DEF SubmitTransaction, Add
    <2> HIDE DEF n
    <2> QED
        BY <2>2, <2>3, <2>4, OneMoreCopy
<1>6. ASSUME NEW v \in copies, Charge(v)
      PROVE  IInv'
    BY <1>1, <1>6, SameCopies DEF Charge
<1>7. ASSUME NEW n \in Ticks, SetClock(n)
      PROVE  IInv'
    BY <1>7, SameCopies DEF SetClock
<1>8. CASE UNCHANGED vars
    BY <1>1, <1>8, SameCopies DEF vars
<1> QED
    BY <1>2, <1>3, <1>4, <1>5, <1>6, <1>7, <1>8 DEF Next

(* In every reachable state a submitted transaction whose mandate asks for *)
(* the governor carries the timestamp of an earlier approval of it.        *)
THEOREM ApprovalPrecedesSubmissionHolds == Spec => []ApprovalPrecedesSubmission
<1>1. IInv => ApprovalPrecedesSubmission
    BY DEF IInv
<1> QED
    BY InitIInv, NextIInv, <1>1, PTL DEF Spec

-----------------------------------------------------------------------------
(* The transactions that were created, and the amount of each: the sum that *)
(* TotalIsWithinLimit is about runs over the ones and adds up the others.  *)
Created == {x \in Transactions : CopiesOf(x) # {}}
AmountsOf(x) == {v.amount_usd : v \in CopiesOf(x)}
AmountOf == [x \in Transactions |-> Max(AmountsOf(x))]

\* No operation changes the amount of a transaction.
SameAmount == \A v, w \in copies : v.id = w.id => v.amount_usd = w.amount_usd

(* What the owner of the mandate has added up is what was charged, and he  *)
(* charges only what was created.                                          *)
Accounts ==
    /\ charged \subseteq Created
    /\ IsFiniteSet(Created)
    /\ spent = SumOver(AmountOf, charged)
    /\ Serial => SumOver(AmountOf, Created) <= Limit

MandateInv == TypeOK /\ SameAmount /\ Accounts

LEMMA AmountIs ==
    ASSUME TypeOK, SameAmount, NEW v \in copies
    PROVE  AmountOf[v.id] = v.amount_usd /\ v.id \in Created
<1>1. v \in Copy
  BY DEF TypeOK
<1>2. v.id \in Transactions /\ v.amount_usd \in Int
  <2>1. v.id \in Transactions /\ v.amount_usd \in Amounts
    BY <1>1 DEF Copy
  <2>2. Amounts \subseteq Int
    BY NumbersAssumption
  <2> QED
    BY <2>1, <2>2
<1>3. v \in CopiesOf(v.id)
  BY DEF CopiesOf
<1>4. AmountsOf(v.id) = {v.amount_usd}
  BY <1>3 DEF AmountsOf, CopiesOf, SameAmount
<1>5. Max({v.amount_usd}) = v.amount_usd
  BY <1>2 DEF Max
<1> QED
  BY <1>2, <1>3, <1>4, <1>5 DEF AmountOf, Created

LEMMA AmountsAreNat ==
    ASSUME TypeOK, SameAmount
    PROVE  \A x \in Created : AmountOf[x] \in Nat
<1> SUFFICES ASSUME NEW x \in Created PROVE AmountOf[x] \in Nat
  OBVIOUS
<1>1. PICK v \in copies : v.id = x
  BY DEF Created, CopiesOf
<1>2. AmountOf[x] = v.amount_usd
  BY <1>1, AmountIs
<1> QED
  BY <1>2, NumbersAssumption DEF TypeOK, Copy

LEMMA MandateInit == Init => MandateInv
<1> SUFFICES ASSUME Init PROVE MandateInv
  OBVIOUS
<1>1. TypeOK /\ SameAmount
  BY NumbersAssumption DEF Init, TypeOK, SameAmount, Ticks, CopiesOf, Copy
<1>2. Created = {} /\ charged = {} /\ spent = 0
  BY DEF Init, Created, CopiesOf
<1> QED
  BY <1>1, <1>2, SumEmpty, FS_EmptySet, NumbersAssumption DEF MandateInv, Accounts

(* Another copy of the same transaction with the same amount.              *)
LEMMA MoreCopies ==
    ASSUME MandateInv, NEW v \in copies, NEW n \in Copy, Add(n),
           n.id = v.id, n.amount_usd = v.amount_usd
    PROVE  MandateInv'
<1>1. copies' = copies \cup {n} /\ UNCHANGED <<clock, spent, outcome, charged>>
  BY DEF Add
<1>2. SameAmount'
  BY <1>1 DEF MandateInv, SameAmount
<1>3. \A x \in Transactions : AmountsOf(x)' = AmountsOf(x)
  BY <1>1 DEF AmountsOf, CopiesOf
<1>4. \A x \in Transactions : CopiesOf(x) # {} <=> CopiesOf(x)' # {}
  BY <1>1 DEF CopiesOf
<1>5. Created' = Created /\ AmountOf' = AmountOf
  BY <1>3, <1>4 DEF Created, AmountOf
<1>6. TypeOK'
  BY <1>1, <1>4 DEF MandateInv, TypeOK, Ticks
<1> QED
  BY <1>1, <1>2, <1>5, <1>6 DEF MandateInv, Accounts

(* A transaction is created when all the earlier ones are charged, so that *)
(* spent is what they all came to.                                         *)
LEMMA Creation ==
    ASSUME MandateInv, NEW x \in Transactions, NEW amount \in Amounts, NEW approval \in BOOLEAN,
           MayInitiate(x), WithinLimit(amount), Create(x, amount, approval)
    PROVE  MandateInv'
<1> DEFINE n == [id |-> x, amount_usd |-> amount, approval |-> approval,
                 status |-> FirstStatus(approval), validated |-> None, submitted |-> None]
<1>1. n \in Copy /\ n.id = x /\ n.amount_usd = amount
  BY DEF Copy, FirstStatus, Status
<1>2. /\ copies' = copies \cup {n} /\ UNCHANGED <<clock, spent, charged>>
      /\ outcome' = [outcome EXCEPT ![x] = "created"]
  BY DEF Create
<1> HIDE DEF n
<1>3. CopiesOf(x) = {} /\ x \notin Created /\ x \notin charged
  BY DEF MayInitiate, MandateInv, TypeOK, Errors, Created, Accounts
<1>4. CopiesOf(x)' = {n} /\ \A y \in Transactions \ {x} : CopiesOf(y)' = CopiesOf(y)
  BY <1>1, <1>2, <1>3 DEF CopiesOf
<1>5. Created' = Created \cup {x}
  BY <1>4 DEF Created
<1>6. TypeOK'
  <2>1. copies' \subseteq Copy
    BY <1>1, <1>2 DEF MandateInv, TypeOK
  <2>2. outcome' \in [Transactions -> {"none", "created"} \cup Errors]
    BY <1>2 DEF MandateInv, TypeOK
  <2>3. \A y \in Transactions : outcome'[y] = "created" <=> CopiesOf(y)' # {}
    BY <1>2, <1>4 DEF MandateInv, TypeOK
  <2> QED
    BY <1>2, <2>1, <2>2, <2>3 DEF MandateInv, TypeOK, Ticks
<1>7. SameAmount'
  BY <1>1, <1>2, <1>3 DEF MandateInv, SameAmount, CopiesOf
<1>8. \A y \in Created : AmountOf'[y] = AmountOf[y]
  BY <1>3, <1>4 DEF AmountOf, AmountsOf, Created
<1>9. AmountOf'[x] = amount
  <2>1. AmountsOf(x)' = {amount}
    BY <1>1, <1>4 DEF AmountsOf
  <2>2. amount \in Int
    BY NumbersAssumption
  <2>3. Max({amount}) = amount
    BY <2>2 DEF Max
  <2> QED
    BY <2>1, <2>3 DEF AmountOf
<1>10. IsFiniteSet(Created) /\ IsFiniteSet(Created') /\ IsFiniteSet(charged)
  BY <1>5, FS_AddElement, FS_Subset DEF MandateInv, Accounts
<1>11. spent' = SumOver(AmountOf', charged')
  <2>1. \A y \in charged : AmountOf[y] = AmountOf'[y]
    BY <1>8 DEF MandateInv, Accounts
  <2>2. SumOver(AmountOf, charged) = SumOver(AmountOf', charged)
    BY <2>1, <1>10, SumSame
  <2> QED
    BY <1>2, <2>2 DEF MandateInv, Accounts
<1>12. ASSUME Serial PROVE SumOver(AmountOf', Created') <= Limit
  <2>1. charged = Created
    <3>1. \A y \in Transactions : outcome[y] = "created" => y \in charged
      BY <1>12 DEF MayInitiate
    <3>2. Created \subseteq charged
      BY <3>1 DEF Created, MandateInv, TypeOK
    <3> QED
      BY <3>2 DEF MandateInv, Accounts
  <2>2. \A y \in Created' : AmountOf'[y] \in Int
    BY <1>5, <1>8, <1>9, AmountsAreNat, NumbersAssumption DEF MandateInv
  <2>3. SumOver(AmountOf', Created') = AmountOf'[x] + SumOver(AmountOf', Created' \ {x})
    BY <1>5, <1>10, <2>2, SumRemove
  <2>4. Created' \ {x} = charged
    BY <1>3, <1>5, <2>1
  <2>5. SumOver(AmountOf', charged) = spent
    BY <1>2, <1>11
  <2>6. SumOver(AmountOf', Created') = amount + spent
    BY <1>9, <2>3, <2>4, <2>5, Zenon
  <2> QED
    BY <2>6, NumbersAssumption DEF WithinLimit, MandateInv, TypeOK
<1>13. charged' \subseteq Created'
  BY <1>2, <1>5 DEF MandateInv, Accounts
<1> QED
  BY <1>6, <1>7, <1>10, <1>11, <1>12, <1>13 DEF MandateInv, Accounts

(* The owner of the mandate adds what a transaction amounts to, once.      *)
LEMMA Charging ==
    ASSUME MandateInv, NEW v \in copies, Charge(v)
    PROVE  MandateInv'
<1> DEFINE x == v.id
<1>1. /\ x \notin charged /\ charged' = charged \cup {x} /\ spent' = spent + v.amount_usd
      /\ UNCHANGED <<clock, copies, outcome>>
  BY DEF Charge
<1>2. AmountOf[x] = v.amount_usd /\ x \in Created /\ x \in Transactions /\ v.amount_usd \in Nat
  BY AmountIs, NumbersAssumption DEF MandateInv, TypeOK, Copy
<1>3. Created' = Created /\ AmountOf' = AmountOf /\ SameAmount'
  BY <1>1 DEF Created, AmountOf, AmountsOf, CopiesOf, SameAmount, MandateInv
<1>4. \A y \in Created : AmountOf[y] \in Int
  BY AmountsAreNat DEF MandateInv
<1>5. charged' \subseteq Created /\ IsFiniteSet(charged')
  BY <1>1, <1>2, FS_Subset DEF MandateInv, Accounts
<1>6. SumOver(AmountOf, charged') = AmountOf[x] + SumOver(AmountOf, charged' \ {x})
  BY <1>1, <1>4, <1>5, SumRemove
<1>7. charged' \ {x} = charged
  BY <1>1
<1>8. SumOver(AmountOf, charged) = spent
  BY DEF MandateInv, Accounts
<1>9. SumOver(AmountOf, charged') = v.amount_usd + spent
  BY <1>2, <1>6, <1>7, <1>8, Zenon
<1>10. spent \in Nat
  BY DEF MandateInv, TypeOK
<1>11. TypeOK'
  BY <1>1, <1>2, <1>10 DEF MandateInv, TypeOK, Ticks, CopiesOf
<1>12. spent' = SumOver(AmountOf', charged')
  BY <1>1, <1>2, <1>3, <1>9, <1>10
<1> QED
  BY <1>1, <1>3, <1>5, <1>11, <1>12 DEF MandateInv, Accounts

LEMMA MandateStep == MandateInv /\ [Next]_vars => MandateInv'
<1> SUFFICES ASSUME MandateInv, [Next]_vars PROVE MandateInv'
  OBVIOUS
<1>1. ASSUME clock' \in Ticks, UNCHANGED <<spent, copies, charged>>,
             outcome' \in [Transactions -> {"none", "created"} \cup Errors],
             \A x \in Transactions : outcome'[x] = "created" <=> outcome[x] = "created"
      PROVE  MandateInv'
  BY <1>1 DEF MandateInv, TypeOK, SameAmount, Accounts, Created, AmountOf, AmountsOf, CopiesOf, Ticks
<1>2. ASSUME NEW x \in Transactions, NEW e \in Errors, MayInitiate(x), Refuse(x, e)
      PROVE  MandateInv'
  BY <1>1, <1>2 DEF MayInitiate, Refuse, MandateInv, TypeOK, Errors
<1>3. ASSUME NEW x \in Transactions, InitiateMalformed(x)
      PROVE  MandateInv'
  BY <1>2, <1>3 DEF InitiateMalformed, Errors
<1>4. ASSUME NEW x \in Transactions, NEW amount \in Amounts, NEW allowed \in BOOLEAN,
             NEW approval \in BOOLEAN, NEW formed \in BOOLEAN,
             NEW expires \in Ticks \cup {None},
             Initiate(x, amount, allowed, approval, formed, expires)
      PROVE  MandateInv'
  BY <1>2, <1>4, Creation DEF Initiate, Errors
<1>5. ASSUME NEW v \in copies, NEW valid \in BOOLEAN, ApplyGovernorApproval(v, valid)
      PROVE  MandateInv'
  <2> DEFINE n == [v EXCEPT !.status = IF valid THEN "GOVERNOR_APPROVED"
                                                ELSE "GOVERNOR_REJECTED",
                            !.validated = clock]
  <2>1. n \in Copy /\ n.id = v.id /\ n.amount_usd = v.amount_usd
    BY DEF MandateInv, TypeOK, Copy, Status
  <2>2. Add(n)
    BY <1>5 DEF ApplyGovernorApproval
  <2> HIDE DEF n
  <2> QED
    BY <2>1, <2>2, MoreCopies
<1>6. ASSUME NEW v \in copies, SubmitTransaction(v)
      PROVE  MandateInv'
  <2> DEFINE n == [v EXCEPT !.status = "SUBMITTED", !.submitted = clock]
  <2>1. n \in Copy /\ n.id = v.id /\ n.amount_usd = v.amount_usd
    BY DEF MandateInv, TypeOK, Copy, Status
  <2>2. Add(n)
    BY <1>6 DEF SubmitTransaction
  <2> HIDE DEF n
  <2> QED
    BY <2>1, <2>2, MoreCopies
<1>7. ASSUME NEW v \in copies, Charge(v)
      PROVE  MandateInv'
  BY <1>7, Charging
<1>8. ASSUME NEW n \in Ticks, SetClock(n)
      PROVE  MandateInv'
  BY <1>1, <1>8 DEF SetClock, MandateInv, TypeOK
<1>9. CASE UNCHANGED vars
  BY <1>1, <1>9 DEF vars, MandateInv, TypeOK
<1> QED
  BY <1>3, <1>4, <1>5, <1>6, <1>7, <1>8, <1>9 DEF Next

(* When each transaction is charged before the next one is initiated, the  *)
(* check of a single amount against what was spent keeps the sum of all    *)
(* transactions, also of those not yet charged, within the limit.          *)
THEOREM TotalIsWithinLimitHolds == Spec => []TotalIsWithinLimit
<1>1. MandateInv => TotalIsWithinLimit
  <2> SUFFICES ASSUME MandateInv, Serial PROVE TotalIsWithinLimit
    BY DEF TotalIsWithinLimit
  <2>1. IsFiniteSet(Created) /\ SumOver(AmountOf, Created) <= Limit
    BY DEF MandateInv, Accounts
  <2>2. MapThenSumSet(LAMBDA x : Max(AmountsOf(x)), Created) = SumOver(AmountOf, Created)
    <3> DEFINE SumsMax(g) ==
                   g = [T \in SUBSET Created |->
                           IF T = {} THEN 0 ELSE Max(AmountsOf(One(T))) + g[T \ {One(T)}]]
               m == CHOOSE g : SumsMax(g)
    <3>1. \A T \in SUBSET Created : T # {} => AmountOf[One(T)] = Max(AmountsOf(One(T)))
      BY DEF One, AmountOf, Created
    <3>2. ASSUME NEW g PROVE IsSum(g, AmountOf, Created) <=> SumsMax(g)
      <4> DEFINE F == [T \in SUBSET Created |->
                          IF T = {} THEN 0 ELSE AmountOf[One(T)] + g[T \ {One(T)}]]
                 G == [T \in SUBSET Created |->
                          IF T = {} THEN 0 ELSE Max(AmountsOf(One(T))) + g[T \ {One(T)}]]
      <4>1. F = G
        BY <3>1
      <4> QED
        BY <4>1 DEF IsSum
    <3>3. SumsMax(m)
      BY <2>1, <3>2, SumExists
    <3>4. MapThenSumSet(LAMBDA x : Max(AmountsOf(x)), Created) = m[Created]
      BY DEF MapThenSumSet, MapThenFoldSet, One
    <3>5. PICK g : IsSum(g, AmountOf, Created) /\ SumOver(AmountOf, Created) = g[Created]
      BY <2>1, SumOverIsSum
    <3> HIDE DEF m, SumsMax
    <3>6. m[Created] = g[Created]
      BY <2>1, <3>2, <3>3, <3>5, SumIsUnique
    <3> QED
      BY <3>4, <3>5, <3>6
  <2> QED
    BY <2>1, <2>2 DEF TotalIsWithinLimit, Created, AmountsOf
<1> QED
  BY <1>1, MandateInit, MandateStep, PTL DEF Spec

-----------------------------------------------------------------------------
(* Messages between agents.                                                 *)
\* A message that was sent has its own canonical form in its signature.
SentOK(m) ==
    /\ m = [message_id |-> m.message_id, from_agent |-> m.from_agent, to_agent |-> m.to_agent,
            tenant_id |-> m.tenant_id, task_type |-> m.task_type, payload |-> m.payload,
            valid |-> m.valid, signature |-> m.signature]
    /\ m.valid = TRUE /\ m.message_id < MaxMessages
    /\ m.signature = [secret |-> m.signature.secret, of |-> Canonical(m)]

A2AStrong ==
    /\ \A m \in sent : SentOK(m)
    /\ accepted # NoMessage => accepted.by \in A2AHandlers /\ accepted.message.valid
    /\ AcceptedWasSigned
    /\ DOMAIN trustedAgents = A2AHandlers
    /\ \A h \in A2AHandlers : \A c, d \in trustedAgents[h] : c.agent_id = d.agent_id => c = d
    /\ TrustHasGround
    /\ \A x \in handlers : x.handler \in A2AHandlers
    /\ SuccessIsDelivery

LEMMA A2AImplies == A2AStrong => A2AInv
  BY DEF A2AStrong, A2AInv, A2ATypeOK, SentOK

LEMMA A2AInitial == A2AInit => A2AStrong
  BY DEF A2AInit, A2AStrong, AcceptedWasSigned, TrustHasGround, SuccessIsDelivery

LEMMA MessageFacts ==
    ASSUME NEW h, NEW request, Cardinality(sent) < MaxMessages
    PROVE  /\ SentOK(Message(h, request))
           /\ Message(h, request).signature = Signature(h.secret, Message(h, request))
           /\ Message(h, request).signature.secret = h.secret
           /\ Message(h, request).tenant_id = request.tenant_id
<1> DEFINE m == Message(h, request)
           id == Cardinality(sent)
           form == <<id, h.agent_id, request.to_agent, request.tenant_id, request.task_type>>
<1>1. m = [message_id |-> id, from_agent |-> h.agent_id, to_agent |-> request.to_agent,
           tenant_id |-> request.tenant_id, task_type |-> request.task_type,
           payload |-> request.payload, valid |-> TRUE,
           signature |-> [secret |-> h.secret, of |-> form]]
  BY DEF Message
<1>2. Canonical(m) = form
  BY <1>1 DEF Canonical
<1> QED
  BY <1>1, <1>2 DEF SentOK, Signature

\* A message more changes nothing of what was accepted before.
LEMMA SendKeeps ==
    ASSUME A2AStrong, NEW h, NEW request, Send(h, request)
    PROVE  A2AStrong'
<1>1. /\ Cardinality(sent) < MaxMessages /\ sent' = sent \cup {Message(h, request)}
      /\ UNCHANGED <<accepted, trustedAgents, handlers, response>>
  BY DEF Send
<1>2. SentOK(Message(h, request))
  BY <1>1, MessageFacts
<1>3. \A m \in sent' : SentOK(m)
  BY <1>1, <1>2 DEF A2AStrong
<1>4. AcceptedWasSigned'
  BY <1>1 DEF A2AStrong, AcceptedWasSigned
<1> QED
  BY <1>1, <1>3, <1>4 DEF A2AStrong, TrustHasGround, SuccessIsDelivery

LEMMA ReceiveKeeps ==
    ASSUME A2AStrong, NEW h \in A2AHandlers, NEW m \in sent, Receive(h, m)
    PROVE  A2AStrong'
<1>1. PICK id \in 0..(MaxMessages - 1), from \in AgentNames, to \in AgentNames,
           tenant \in A2ATenants, task \in A2ATasks, content \in Payloads, valid \in BOOLEAN :
        LET arrived == [message_id |-> id, from_agent |-> from, to_agent |-> to,
                        tenant_id |-> tenant, task_type |-> task, payload |-> content,
                        valid |-> valid, signature |-> m.signature]
        IN  /\ accepted' = IF Verdict(h, arrived) = "ok" THEN [by |-> h, message |-> arrived] ELSE NoMessage
            /\ UNCHANGED <<sent, trustedAgents, handlers, response>>
  BY Zenon DEF Receive
<1> DEFINE arrived == [message_id |-> id, from_agent |-> from, to_agent |-> to,
                       tenant_id |-> tenant, task_type |-> task, payload |-> content,
                       valid |-> valid, signature |-> m.signature]
<1>2. UNCHANGED <<sent, trustedAgents, handlers, response>>
  BY <1>1
<1>3. SentOK(m)
  BY DEF A2AStrong
<1>4. arrived.signature = m.signature
  OBVIOUS
<1>5. accepted' = IF Verdict(h, arrived) = "ok" THEN [by |-> h, message |-> arrived] ELSE NoMessage
  BY <1>1
<1> HIDE DEF arrived
<1>6. CASE Verdict(h, arrived) = "ok"
  <2>1. arrived.valid /\ arrived.tenant_id = h.tenant_id /\ m.signature = Signature(h.secret, arrived)
    BY <1>4, <1>6 DEF Verdict
  <2>2. accepted'.by = h /\ accepted'.message = arrived
    BY <1>5, <1>6
  <2>3. m.signature.secret = h.secret /\ Canonical(m) = Canonical(arrived)
    BY <1>3, <2>1 DEF SentOK, Signature
  <2>4. m.tenant_id = h.tenant_id
    BY <2>1, <2>3 DEF Canonical
  <2>5. AcceptedWasSigned'
    BY <1>2, <2>2, <2>3, <2>4 DEF AcceptedWasSigned
  <2> QED
    BY <1>2, <2>1, <2>2, <2>5 DEF A2AStrong, SuccessIsDelivery, TrustHasGround
<1>7. CASE Verdict(h, arrived) # "ok"
  <2>1. accepted' = NoMessage
    BY <1>5, <1>7
  <2> QED
    BY <1>2, <2>1 DEF A2AStrong, AcceptedWasSigned, SuccessIsDelivery, TrustHasGround
<1> QED
  BY <1>6, <1>7

LEMMA NegotiateKeeps ==
    ASSUME A2AStrong, NEW h \in A2AHandlers, NEW card, Negotiate(h, card)
    PROVE  A2AStrong'
<1>1. UNCHANGED <<sent, accepted, handlers, response>>
  BY DEF Negotiate
<1>2. CASE ~Acceptable(h, card)
  <2>1. trustedAgents' = trustedAgents
    BY <1>2 DEF Negotiate
  <2> QED
    BY <1>1, <2>1 DEF A2AStrong, AcceptedWasSigned, SuccessIsDelivery, TrustHasGround
<1>3. CASE Acceptable(h, card)
  <2>1. trustedAgents' = [trustedAgents EXCEPT ![h] = {c \in @ : c.agent_id # card.agent_id} \cup {card}]
    BY <1>3 DEF Negotiate
  <2>2. /\ DOMAIN trustedAgents' = A2AHandlers
        /\ trustedAgents'[h] = {c \in trustedAgents[h] : c.agent_id # card.agent_id} \cup {card}
        /\ \A g \in A2AHandlers \ {h} : trustedAgents'[g] = trustedAgents[g]
    BY <2>1 DEF A2AStrong
  <2>3. \A g \in A2AHandlers : \A c, d \in trustedAgents'[g] : c.agent_id = d.agent_id => c = d
    BY <2>2 DEF A2AStrong
  <2>4. TrustHasGround'
    BY <1>3, <2>2 DEF A2AStrong, TrustHasGround, Acceptable
  <2> QED
    BY <1>1, <2>2, <2>3, <2>4 DEF A2AStrong, AcceptedWasSigned, SuccessIsDelivery
<1> QED
  BY <1>2, <1>3

LEMMA RegisterKeeps ==
    ASSUME A2AStrong, NEW name, NEW h \in A2AHandlers, RegisterHandler(name, h)
    PROVE  A2AStrong'
<1>1. /\ handlers' = {x \in handlers : x.name # name} \cup {[name |-> name, handler |-> h]}
      /\ UNCHANGED <<sent, accepted, trustedAgents, response>>
  BY DEF RegisterHandler
<1>2. \A x \in handlers' : x.handler \in A2AHandlers
  BY <1>1 DEF A2AStrong
<1> QED
  BY <1>1, <1>2 DEF A2AStrong, AcceptedWasSigned, SuccessIsDelivery, TrustHasGround

LEMMA CoordinateKeeps ==
    ASSUME A2AStrong, NEW request, Coordinate(request)
    PROVE  A2AStrong'
<1>1. UNCHANGED <<trustedAgents, handlers>>
  BY DEF Coordinate
<1>2. ASSUME NEW error \in {"Sender agent not registered", "Target agent not registered"},
             response' = [request |-> request, success |-> error = "none", error |-> error, of |-> <<>>],
             UNCHANGED <<sent, accepted>>
      PROVE  A2AStrong'
  <2>1. response'.success = FALSE /\ response'.of = <<>>
    BY <1>2
  <2>2. SuccessIsDelivery'
    BY <2>1 DEF SuccessIsDelivery
  <2> QED
    BY <1>1, <1>2, <2>2 DEF A2AStrong, AcceptedWasSigned, TrustHasGround
<1>3. ASSUME Cardinality(sent) < MaxMessages, NEW from \in A2AHandlers, NEW to \in A2AHandlers,
             LET m == Message(from, request)
                 ok == Verdict(to, m) = "ok"
                 error == IF ok THEN "none" ELSE Verdict(to, m)
             IN  /\ response' = [request |-> request, success |-> error = "none", error |-> error,
                                 of |-> <<from, to>>]
                 /\ sent' = sent \cup {m}
                 /\ accepted' = IF ok THEN [by |-> to, message |-> m] ELSE NoMessage
      PROVE  A2AStrong'
  <2> DEFINE m == Message(from, request)
             error == IF Verdict(to, m) = "ok" THEN "none" ELSE Verdict(to, m)
  <2>1. /\ response' = [request |-> request, success |-> error = "none", error |-> error, of |-> <<from, to>>]
        /\ sent' = sent \cup {m}
        /\ accepted' = IF Verdict(to, m) = "ok" THEN [by |-> to, message |-> m] ELSE NoMessage
    BY <1>3
  <2>2. /\ SentOK(m) /\ m.signature = Signature(from.secret, m) /\ m.signature.secret = from.secret
        /\ m.tenant_id = request.tenant_id
    BY <1>3, MessageFacts
  <2> HIDE DEF m
  <2>3. Signature(from.secret, m) = Signature(to.secret, m) <=> from.secret = to.secret
    BY DEF Signature
  <2>4. Verdict(to, m) = "ok" <=> request.tenant_id = to.tenant_id /\ from.secret = to.secret
    BY <2>2, <2>3 DEF Verdict, SentOK
  <2>5. Verdict(to, m) \in {"schema", "tenant", "signature", "ok"}
    BY DEF Verdict
  <2>6. SuccessIsDelivery'
    <3>1. response'.success <=> Verdict(to, m) = "ok"
      BY <2>1, <2>5
    <3>2. /\ response'.of = <<from, to>> /\ response'.request = request
          /\ response'.of[1] = from /\ response'.of[2] = to /\ response'.of # <<>>
      BY <2>1
    <3> QED
      BY <2>4, <3>1, <3>2 DEF SuccessIsDelivery
  <2>7. \A x \in sent' : SentOK(x)
    BY <2>1, <2>2 DEF A2AStrong
  <2>8. /\ accepted' # NoMessage => accepted'.by \in A2AHandlers /\ accepted'.message.valid
        /\ AcceptedWasSigned'
    <3>1. CASE Verdict(to, m) = "ok"
      <4>1. accepted'.by = to /\ accepted'.message = m /\ m \in sent'
        BY <2>1, <3>1
      <4> QED
        BY <2>2, <2>4, <3>1, <4>1 DEF AcceptedWasSigned, SentOK
    <3>2. CASE Verdict(to, m) # "ok"
      BY <2>1, <3>2 DEF AcceptedWasSigned
    <3> QED
      BY <3>1, <3>2
  <2> QED
    BY <1>1, <2>6, <2>7, <2>8 DEF A2AStrong, TrustHasGround
<1> DEFINE registered(name) == {x.handler : x \in {y \in handlers : y.name = name}}
<1>4. \A name : registered(name) \subseteq A2AHandlers
  BY DEF A2AStrong
<1> QED
  BY <1>2, <1>3, <1>4 DEF Coordinate

LEMMA A2AIdle == A2AStrong /\ UNCHANGED a2aVars => A2AStrong'
  BY DEF A2AStrong, a2aVars, SentOK, AcceptedWasSigned, TrustHasGround, SuccessIsDelivery

LEMMA A2AStep == A2AStrong /\ [A2ANext]_a2aVars => A2AStrong'
  BY A2AIdle, SendKeeps, ReceiveKeeps, NegotiateKeeps, RegisterKeeps, CoordinateKeeps
     DEF A2ANext, A2AMessageNext, A2ATrustNext, A2ACoordinationNext, Delegate

-----------------------------------------------------------------------------
(* Chunks of a payload.                                                     *)
Upto(i) == IF i * CHUNK_SIZE > Len(payload) THEN Len(payload) ELSE i * CHUNK_SIZE
DataOf(i) == SubSeq(payload, (i - 1) * CHUNK_SIZE + 1, Upto(i))
ChunkOf(i) == [sequence |-> i - 1, total_chunks |-> TotalChunks, data |-> DataOf(i)]

MCPStrong ==
    /\ payload \in BoundedSeq(Bytes, MaxBytes) /\ payload \in Seq(Bytes)
    /\ \E S : chunks \in Seq(S)
    /\ Len(chunks) <= TotalChunks
    /\ \A i \in 1..Len(chunks) : chunks[i] = ChunkOf(i)
    /\ delivered \subseteq ToSet(chunks) /\ (delivered # {} => Len(chunks) = TotalChunks)
    /\ mcpAnswer.id \in {0, 7} /\ AnswersMatch

LEMMA BoundedIsSeq == \A p \in BoundedSeq(Bytes, MaxBytes) : p \in Seq(Bytes)
<1> SUFFICES ASSUME NEW p \in BoundedSeq(Bytes, MaxBytes) PROVE p \in Seq(Bytes)
  OBVIOUS
<1>1. PICK n \in 0..MaxBytes : p \in [1..n -> Bytes]
  BY DEF BoundedSeq, SeqOf
<1> QED
  BY <1>1, MCPAssumption

\* How the number of chunks is related to the length.
LEMMA Division ==
    ASSUME NEW l \in Nat, NEW c \in Nat \ {0}, NEW t, t = (l + c - 1) \div c
    PROVE  /\ t \in Nat /\ l <= t * c /\ (t > 0 => (t - 1) * c < l)
           /\ (t = 0 <=> l = 0)
<1>1. /\ t \in Int /\ c * t <= l + c - 1 /\ l + c - 1 < c * t + c
  BY SMTT(30)
<1>2. t >= 0
  <2>1. ASSUME t <= -1 PROVE FALSE
    <3>1. c * t <= c * (-1)
      BY <1>1, <2>1, SMTT(30)
    <3> QED
      BY <1>1, <3>1
  <2> QED
    BY <1>1, <2>1
<1>3. c * t = t * c /\ (t - 1) * c = t * c - c
  BY <1>1
<1>4. t = 0 <=> l = 0
  <2>1. t = 0 => l = 0
    BY <1>1
  <2>2. ASSUME l = 0, t >= 1 PROVE FALSE
    <3>1. c * t >= c
      BY <1>1, <2>2, SMTT(30)
    <3> QED
      BY <1>1, <2>2, <3>1
  <2> QED
    BY <1>1, <1>2, <2>1, <2>2
<1> QED
  BY <1>1, <1>2, <1>3, <1>4

\* The pieces up to the number of chunks: none is empty, and each begins where the one
\* before it ends.
LEMMA DataFacts ==
    ASSUME payload \in Seq(Bytes), NEW i \in 1..TotalChunks
    PROVE  /\ (i - 1) * CHUNK_SIZE \in 0..(Len(payload) - 1) /\ Upto(i) \in ((i - 1) * CHUNK_SIZE + 1)..Len(payload)
           /\ DataOf(i) \in Seq(Bytes) /\ Len(DataOf(i)) \in 1..CHUNK_SIZE
           /\ i > 1 => Upto(i - 1) = (i - 1) * CHUNK_SIZE
           /\ Upto(TotalChunks) = Len(payload)
<1> DEFINE l == Len(payload)
           c == CHUNK_SIZE
           t == TotalChunks
<1>1. l \in Nat /\ c \in Nat \ {0} /\ DOMAIN payload = 1..l /\ \A k \in 1..l : payload[k] \in Bytes
  BY MCPAssumption, LenProperties, ElementOfSeq
<1>2. t = (l + c - 1) \div c
  BY DEF TotalChunks
<1> HIDE DEF l, c, t
<1>3. t \in Nat /\ l <= t * c /\ (t > 0 => (t - 1) * c < l)
  BY <1>1, <1>2, Division
<1>4. i \in 1..t
  BY DEF t
<1>5. (i - 1) * c <= (t - 1) * c
  <2>1. i - 1 \in Nat /\ t - i \in Nat /\ t - 1 = (i - 1) + (t - i)
    BY <1>3, <1>4
  <2>2. (t - i) * c \in Nat
    BY <1>1, <2>1
  <2>3. ((i - 1) + (t - i)) * c = (i - 1) * c + (t - i) * c
    BY <1>1, <2>1, SMTT(30)
  <2>4. (i - 1) * c \in Nat
    BY <1>1, <2>1
  <2> QED
    BY <2>1, <2>2, <2>3, <2>4
<1>6. (i - 1) * c \in Nat /\ i * c = (i - 1) * c + c
  BY <1>1, <1>3, <1>4, SMTT(30)
<1>7. (i - 1) * c < l
  <2>1. (t - 1) * c \in Int /\ (t - 1) * c < l
    BY <1>1, <1>3, <1>4
  <2> QED
    BY <1>1, <1>5, <1>6, <2>1
<1>8. Upto(i) = (IF (i - 1) * c + c > l THEN l ELSE (i - 1) * c + c)
  BY <1>6 DEF Upto, l, c
<1> DEFINE b == (i - 1) * c
<1> HIDE DEF b
<1>9. b \in Nat /\ b < l /\ Upto(i) = (IF b + c > l THEN l ELSE b + c)
  BY <1>6, <1>7, <1>8 DEF b
<1>10. Upto(i) \in (b + 1)..l /\ Upto(i) - b \in 1..c /\ b \in 0..(l - 1)
  BY <1>1, <1>9
<1>11. DataOf(i) \in Seq(Bytes) /\ Len(DataOf(i)) = Upto(i) - b
  <2>1. DataOf(i) = SubSeq(payload, b + 1, Upto(i))
    BY DEF DataOf, b, c
  <2>2. \A k \in (b + 1)..Upto(i) : payload[k] \in Bytes
    BY <1>1, <1>9, <1>10
  <2>3. b + 1 \in Int /\ Upto(i) \in Int /\ b + 1 <= Upto(i)
    BY <1>1, <1>9, <1>10
  <2>4. /\ SubSeq(payload, b + 1, Upto(i)) \in Seq(Bytes)
        /\ Len(SubSeq(payload, b + 1, Upto(i))) = Upto(i) - (b + 1) + 1
    BY <2>2, <2>3, SubSeqProperties
  <2> QED
    BY <1>9, <2>1, <2>3, <2>4
<1>12. i > 1 => Upto(i - 1) = b
  BY <1>1, <1>9 DEF Upto, b, c, l
<1>13. Upto(t) = l
  <2>1. Upto(t) = IF t * c > l THEN l ELSE t * c
    BY DEF Upto, c, l
  <2>2. t * c \in Nat
    BY <1>1, <1>3
  <2> QED
    BY <1>1, <1>3, <2>1, <2>2
<1> QED
  BY <1>10, <1>11, <1>12, <1>13 DEF b, c, l, t

\* Put together, the first n pieces are the payload up to where the last of them ends.
IsFlat(f, s) == f = [i \in 1..Len(s) |-> IF i = 1 THEN s[i] ELSE f[i - 1] \o s[i]]

LEMMA FlattenIsPayload ==
    ASSUME payload \in Seq(Bytes), TotalChunks > 0
    PROVE  FlattenSeq([i \in 1..TotalChunks |-> DataOf(i)]) = payload
<1> DEFINE t == TotalChunks
           s == [i \in 1..t |-> DataOf(i)]
           f == [i \in 1..t |-> SubSeq(payload, 1, Upto(i))]
           g == CHOOSE h : IsFlat(h, s)
<1>1. t \in Nat \ {0} /\ Len(payload) \in Nat
  <2>1. Len(payload) \in Nat
    BY LenProperties
  <2>2. TotalChunks \in Nat
    BY <2>1, MCPAssumption, Division DEF TotalChunks
  <2> QED
    BY <2>1, <2>2
<1>2. \A i \in 1..t : /\ DataOf(i) \in Seq(Bytes) /\ Upto(i) \in 1..Len(payload)
                      /\ DataOf(i) = SubSeq(payload, (i - 1) * CHUNK_SIZE + 1, Upto(i))
                      /\ (i - 1) * CHUNK_SIZE \in 0..Len(payload) /\ (i - 1) * CHUNK_SIZE <= Upto(i)
                      /\ i > 1 => Upto(i - 1) = (i - 1) * CHUNK_SIZE
  <2> SUFFICES ASSUME NEW i \in 1..TotalChunks
               PROVE  /\ DataOf(i) \in Seq(Bytes) /\ Upto(i) \in 1..Len(payload)
                      /\ DataOf(i) = SubSeq(payload, (i - 1) * CHUNK_SIZE + 1, Upto(i))
                      /\ (i - 1) * CHUNK_SIZE \in 0..Len(payload) /\ (i - 1) * CHUNK_SIZE <= Upto(i)
                      /\ i > 1 => Upto(i - 1) = (i - 1) * CHUNK_SIZE
    OBVIOUS
  <2> DEFINE b == (i - 1) * CHUNK_SIZE
  <2>1. /\ b \in 0..(Len(payload) - 1) /\ Upto(i) \in (b + 1)..Len(payload)
        /\ DataOf(i) \in Seq(Bytes) /\ (i > 1 => Upto(i - 1) = b)
    BY DataFacts
  <2>2. DataOf(i) = SubSeq(payload, b + 1, Upto(i))
    BY DEF DataOf
  <2> HIDE DEF b
  <2>3. Upto(i) \in 1..Len(payload) /\ b \in 0..Len(payload) /\ b <= Upto(i)
    BY <1>1, <2>1
  <2> QED
    BY <2>1, <2>2, <2>3 DEF b
<1>3. Upto(t) = Len(payload)
  <2>1. t \in 1..TotalChunks
    BY <1>1
  <2> QED
    BY <2>1, DataFacts
<1> HIDE DEF t
<1>4. Len(s) = t
  <2>1. s \in [1..t -> Seq(Bytes)]
    BY <1>2
  <2> QED
    BY <1>1, <2>1
<1>5. ASSUME NEW i \in 1..t PROVE f[i] = IF i = 1 THEN s[i] ELSE f[i - 1] \o s[i]
  <2>1. CASE i = 1
    BY <1>1, <1>2, <2>1, MCPAssumption
  <2>2. CASE i # 1
    <3> DEFINE k == (i - 1) * CHUNK_SIZE
    <3>0. i - 1 \in 1..t /\ i > 1
      BY <1>1, <2>2
    <3>1. f[i - 1] = SubSeq(payload, 1, Upto(i - 1)) /\ Upto(i - 1) = k
      <4>1. f[i - 1] = SubSeq(payload, 1, Upto(i - 1))
        BY <3>0
      <4>2. i > 1 => Upto(i - 1) = (i - 1) * CHUNK_SIZE
        BY <1>2
      <4> QED
        BY <3>0, <4>1, <4>2
    <3>2. s[i] = SubSeq(payload, k + 1, Upto(i)) /\ f[i] = SubSeq(payload, 1, Upto(i))
      BY <1>2
    <3>3. k \in 0..Len(payload) /\ Upto(i) \in k..Len(payload) /\ 1 \in 1..(Len(payload) + 1)
      BY <1>1, <1>2
    <3> HIDE DEF k
    <3>4. SubSeq(payload, 1, k) \o SubSeq(payload, k + 1, Upto(i)) = SubSeq(payload, 1, Upto(i))
      <4>1. k \in (1 - 1)..Len(payload)
        BY <3>3
      <4> QED
        BY <3>3, <4>1, ConcatAdjacentSubSeq
    <3> QED
      BY <2>2, <3>1, <3>2, <3>4
  <2> QED
    BY <2>1, <2>2
<1>6. IsFlat(f, s)
  <2> DEFINE h == [i \in 1..t |-> IF i = 1 THEN s[i] ELSE f[i - 1] \o s[i]]
  <2>1. \A i \in 1..t : f[i] = h[i]
    BY <1>5
  <2>2. f = [i \in 1..t |-> f[i]]
    <3> HIDE DEF h, s
    <3> QED
      OBVIOUS
  <2> HIDE DEF f
  <2>4. h = [i \in 1..t |-> h[i]]
    <3> HIDE DEF s
    <3> QED
      OBVIOUS
  <2>3. f = h
    <3> HIDE DEF h
    <3> QED
      BY <2>1, <2>2, <2>4
  <2> HIDE DEF s
  <2> QED
    BY <1>4, <2>3 DEF IsFlat
<1> HIDE DEF f, s
<1>7. IsFlat(g, s)
  BY <1>6
<1>8. FlattenSeq(s) = g[t]
  BY <1>1, <1>4 DEF FlattenSeq, IsFlat
<1> HIDE DEF g
<1>9. \A i \in 1..t : g[i] = f[i]
  <2> DEFINE Bad == {i \in 1..t : g[i] # f[i]}
  <2> SUFFICES ASSUME Bad # {} PROVE FALSE
    OBVIOUS
  <2>1. IsFiniteSet(1..t)
    BY <1>1, FS_Interval
  <2>2. Bad \subseteq 1..t
    OBVIOUS
  <2>3. IsFiniteSet(Bad) /\ Bad \subseteq Int
    <3>1. IsFiniteSet(Bad)
      BY <2>1, <2>2, FS_Subset
    <3> QED
      BY <1>1, <2>2, <3>1
  <2>4. Min(Bad) \in Bad /\ \A k \in Bad : Min(Bad) <= k
    <3> HIDE DEF Bad
    <3> QED
      BY <2>3, MinIs
  <2> DEFINE i == Min(Bad)
  <2>5. i \in 1..t /\ g[i] # f[i]
    BY <2>4
  <2> HIDE DEF i
  <2>6. /\ g[i] = IF i = 1 THEN s[i] ELSE g[i - 1] \o s[i]
        /\ f[i] = IF i = 1 THEN s[i] ELSE f[i - 1] \o s[i]
    BY <1>4, <1>6, <1>7, <2>5 DEF IsFlat
  <2>7. i # 1
    BY <2>5, <2>6
  <2>8. i - 1 \in 1..t /\ ~(i <= i - 1)
    BY <1>1, <2>5, <2>7
  <2>9. i - 1 \notin Bad
    BY <2>4, <2>8 DEF i
  <2>10. g[i - 1] = f[i - 1]
    BY <2>8, <2>9
  <2> QED
    BY <2>5, <2>6, <2>7, <2>10
<1>10. f[t] = SubSeq(payload, 1, Len(payload))
  BY <1>1, <1>3 DEF f
<1>11. SubSeq(payload, 1, Len(payload)) = payload
  BY SubSeqFull
<1>12. FlattenSeq(s) = payload
  BY <1>1, <1>8, <1>9, <1>10, <1>11
<1> QED
  BY <1>12 DEF s, t

\* What is delivered are pieces, all of them if there are as many numbers as chunks.
LEMMA StreamFacts ==
    MCPStrong => /\ MCPTypeOK
                 /\ TotalChunks \in Nat
                 /\ \A d \in delivered : \E i \in 1..TotalChunks : d = ChunkOf(i)
<1> SUFFICES ASSUME MCPStrong
             PROVE  /\ MCPTypeOK
                    /\ TotalChunks \in Nat
                    /\ \A d \in delivered : \E i \in 1..TotalChunks : d = ChunkOf(i)
  OBVIOUS
<1>1. TotalChunks \in Nat
  <2>1. Len(payload) \in Nat
    BY LenProperties DEF MCPStrong
  <2> QED
    BY <2>1, MCPAssumption, Division, ZenonT(60) DEF TotalChunks
<1>2. PICK S : chunks \in Seq(S)
  BY DEF MCPStrong
<1>3. DOMAIN chunks = 1..Len(chunks) /\ Len(chunks) \in Nat
  BY <1>2, LenProperties
<1>4. ASSUME NEW d \in delivered
      PROVE  \E i \in 1..TotalChunks : d = ChunkOf(i)
  <2>1. d \in ToSet(chunks) /\ Len(chunks) = TotalChunks
    BY <1>4 DEF MCPStrong
  <2>2. PICK i \in 1..Len(chunks) : d = chunks[i]
    BY <2>1, <1>3 DEF ToSet
  <2>3. chunks[i] = ChunkOf(i)
    BY DEF MCPStrong
  <2> QED
    BY <2>1, <2>2, <2>3
<1> QED
  BY <1>1, <1>4 DEF MCPStrong, MCPTypeOK

LEMMA MCPStrongComplete == MCPStrong => StreamIsComplete
<1> SUFFICES ASSUME MCPStrong, NEW c \in delivered,
                    Cardinality({d.sequence : d \in delivered}) = c.total_chunks
             PROVE  /\ FlattenSeq([i \in 1..c.total_chunks |->
                           (CHOOSE d \in delivered : d.sequence = i - 1).data]) = payload
                    /\ \A d \in delivered : Len(d.data) \in 1..CHUNK_SIZE
  BY DEF StreamIsComplete
<1> DEFINE D == {d.sequence : d \in delivered}
           t == TotalChunks
           found(i) == CHOOSE d \in delivered : d.sequence = i - 1
<1>1. t \in Nat /\ \A d \in delivered : \E i \in 1..t : d = ChunkOf(i)
  BY StreamFacts
<1>2. \A i \in 1..t : ChunkOf(i).sequence = i - 1 /\ ChunkOf(i).total_chunks = t /\ ChunkOf(i).data = DataOf(i)
  BY DEF ChunkOf
<1>3. payload \in Seq(Bytes)
  BY DEF MCPStrong
<1>4. \A d \in delivered : Len(d.data) \in 1..CHUNK_SIZE
  <2> SUFFICES ASSUME NEW d \in delivered PROVE Len(d.data) \in 1..CHUNK_SIZE
    OBVIOUS
  <2>1. PICK i \in 1..t : d = ChunkOf(i)
    BY <1>1
  <2>2. Len(DataOf(i)) \in 1..CHUNK_SIZE
    BY <1>3, DataFacts
  <2> QED
    BY <1>2, <2>1, <2>2
<1> HIDE DEF t
<1>5. c.total_chunks = t /\ t > 0
  BY <1>1, <1>2
<1>6. D = 0..(t - 1)
  <2>1. D \subseteq 0..(t - 1)
    <3> SUFFICES ASSUME NEW d \in delivered PROVE d.sequence \in 0..(t - 1)
      OBVIOUS
    <3>1. PICK i \in 1..t : d = ChunkOf(i)
      BY <1>1
    <3> QED
      BY <1>1, <1>2, <3>1
  <2>2. IsFiniteSet(0..(t - 1)) /\ Cardinality(0..(t - 1)) = t
    <3>1. t - 1 \in Int /\ ~(0 > t - 1) /\ (t - 1) - 0 + 1 = t
      BY <1>1, <1>5
    <3>2. /\ IsFiniteSet(0..(t - 1))
          /\ Cardinality(0..(t - 1)) = IF 0 > t - 1 THEN 0 ELSE (t - 1) - 0 + 1
      BY <3>1, FS_Interval
    <3> QED
      BY <3>1, <3>2
  <2>3. Cardinality(D) = t
    BY <1>5
  <2> HIDE DEF D
  <2> QED
    BY <2>1, <2>2, <2>3, FS_Subset
<1>7. ASSUME NEW i \in 1..t PROVE found(i).data = DataOf(i)
  <2>1. i - 1 \in D
    <3>1. i - 1 \in 0..(t - 1)
      BY <1>1
    <3> HIDE DEF D
    <3> QED
      BY <1>6, <3>1
  <2>2. \E d \in delivered : d.sequence = i - 1
    BY <2>1
  <2>3. found(i) \in delivered /\ found(i).sequence = i - 1
    BY <2>2
  <2> HIDE DEF found
  <2>4. PICK j \in 1..t : found(i) = ChunkOf(j)
    BY <1>1, <2>3
  <2>5. j = i
    BY <1>1, <1>2, <2>3, <2>4
  <2> QED
    BY <1>2, <2>4, <2>5
<1>8. [i \in 1..t |-> found(i).data] = [i \in 1..t |-> DataOf(i)]
  <2> HIDE DEF found
  <2> QED
    BY <1>7
<1>9. FlattenSeq([i \in 1..t |-> DataOf(i)]) = payload
  BY <1>3, <1>5, FlattenIsPayload DEF t
<1>10. FlattenSeq([i \in 1..t |-> found(i).data]) = payload
  BY <1>8, <1>9, Zenon
<1> QED
  BY <1>4, <1>5, <1>10

LEMMA MCPInitial == MCPInit => MCPStrong
<1> SUFFICES ASSUME MCPInit PROVE MCPStrong
  OBVIOUS
<1>1. payload \in Seq(Bytes)
  BY BoundedIsSeq DEF MCPInit
<1>2. TotalChunks \in Nat
  <2>1. Len(payload) \in Nat
    BY <1>1, LenProperties
  <2> QED
    BY <2>1, MCPAssumption, Division DEF TotalChunks
<1>3. chunks \in Seq({}) /\ Len(chunks) = 0 /\ ToSet(chunks) = {}
  BY DEF MCPInit, ToSet
<1>4. Len(chunks) <= TotalChunks
  BY <1>2, <1>3
<1>5. \E S : chunks \in Seq(S)
  BY <1>3
<1>6. \A i \in 1..Len(chunks) : chunks[i] = ChunkOf(i)
  BY <1>3
<1>7. mcpAnswer.id \in {0, 7} /\ AnswersMatch
  BY DEF MCPInit, AnswersMatch
<1> QED
  BY <1>1, <1>3, <1>4, <1>5, <1>6, <1>7 DEF MCPStrong, MCPInit

LEMMA MCPIdle == MCPStrong /\ UNCHANGED mcpVars => MCPStrong'
  BY ZenonT(60) DEF MCPStrong, mcpVars, TotalChunks, ChunkOf, DataOf, Upto, AnswersMatch, ToSet

LEMMA KeepsStream == ASSUME MCPStrong, NEW c \in ToSet(chunks), DeliverChunk(c) PROVE MCPStrong'
  BY DEF MCPStrong, DeliverChunk, TotalChunks, ChunkOf, DataOf, Upto, AnswersMatch, ToSet

LEMMA AddsAChunk == ASSUME MCPStrong, StreamChunk PROVE MCPStrong'
<1> DEFINE i == Len(chunks)
           e == chunks'[i + 1]
<1>0. payload' = payload /\ UNCHANGED <<delivered, mcpRequest, mcpAnswer>> /\ i < TotalChunks
  BY DEF StreamChunk
<1>1. PICK S : chunks \in Seq(S)
  BY DEF MCPStrong
<1>2. i \in Nat /\ TotalChunks \in Nat
  BY <1>1, LenProperties, StreamFacts
<1> DEFINE slice == IF (i + 1) * CHUNK_SIZE > Len(payload)
                    THEN SubSeq(payload, i * CHUNK_SIZE + 1, Len(payload)) ELSE Slice(i)
           x == [sequence |-> i, total_chunks |-> TotalChunks, data |-> slice]
<1>3. chunks' = Append(chunks, x)
  BY DEF StreamChunk
<1>4. x = ChunkOf(i + 1)
  <2>1. (i + 1) - 1 = i
    BY <1>2
  <2>2. slice = DataOf(i + 1)
    BY <2>1 DEF DataOf, Upto, Slice
  <2> QED
    BY <2>1, <2>2 DEF ChunkOf
<1> HIDE DEF x
<1>5. chunks' \in Seq(S \cup {x}) /\ Len(chunks') = i + 1 /\ chunks'[i + 1] = x
      /\ \A k \in 1..i : chunks'[k] = chunks[k]
  <2>1. chunks \in Seq(S \cup {x})
    BY <1>1
  <2> QED
    BY <1>3, <2>1, AppendProperties
<1> HIDE DEF i
<1>6. \A k \in 1..Len(chunks') : chunks'[k] = ChunkOf(k)
  <2> SUFFICES ASSUME NEW k \in 1..(i + 1) PROVE chunks'[k] = ChunkOf(k)
    BY <1>5
  <2>1. CASE k = i + 1
    BY <1>4, <1>5, <2>1
  <2>2. CASE k # i + 1
    <3>1. k \in 1..i
      BY <1>2, <2>2
    <3> QED
      BY <1>5, <3>1 DEF MCPStrong, i
  <2> QED
    BY <2>1, <2>2
<1>7. \A k \in 1..Len(chunks') : chunks'[k] = ChunkOf(k)'
  BY <1>0, <1>6 DEF ChunkOf, DataOf, Upto, TotalChunks
<1>8. TotalChunks' = TotalChunks /\ delivered = {}
  BY <1>0, <1>2 DEF TotalChunks, MCPStrong, i
<1>9. Len(chunks') <= TotalChunks'
  BY <1>0, <1>2, <1>5, <1>8 DEF i
<1>10. (\E R : chunks \in Seq(R))'
  BY <1>5
<1>11. (mcpAnswer.id \in {0, 7} /\ AnswersMatch)'
  BY <1>0 DEF MCPStrong, AnswersMatch
<1> QED
  BY <1>0, <1>7, <1>8, <1>9, <1>10, <1>11 DEF MCPStrong

LEMMA KeepsAnswers == ASSUME MCPStrong, NEW r \in McpRequests, Handle(r) PROVE MCPStrong'
<1>0. UNCHANGED <<payload, chunks, delivered>> /\ mcpRequest' = r
  BY DEF Handle
<1>1. ParseError(r) # "TypeError"
  BY DEF ParseError
<1>2. ASSUME ParseError(r) = "none"
      PROVE  /\ r.json /\ r.rpc /\ r.method # "other"
             /\ r.method = "context/submit" => r.params = "complete" /\ r.context_tokens <= MAX_CONTEXT_TOKENS
  <2>1. r.json
    BY <1>2 DEF ParseError
  <2>2. r.rpc
    BY <1>2, <2>1 DEF ParseError
  <2>3. r.method # "other"
    BY <1>2, <2>1, <2>2 DEF ParseError
  <2>4. r.method = "context/submit" => r.params = "complete"
    BY <1>2, <2>1, <2>2 DEF ParseError
  <2>5. r.method = "context/submit" => ~(r.context_tokens > MAX_CONTEXT_TOKENS)
    BY <1>2, <2>1, <2>2, <2>4 DEF ParseError
  <2>6. r.context_tokens \in {MAX_CONTEXT_TOKENS, MAX_CONTEXT_TOKENS + 1}
    BY DEF McpRequests
  <2> QED
    BY <2>1, <2>2, <2>3, <2>4, <2>5, <2>6, MCPAssumption
<1>3. r.method \in {"context/submit", "context/ack", "context/error", "other"} /\ r.id \in {0, 7}
  BY DEF McpRequests
<1>4. CASE ParseError(r) # "none"
  <2>1. mcpAnswer' = [id |-> ErrorId(r), error |-> ParseError(r)]
    BY <1>4 DEF Handle
  <2>2. mcpAnswer'.id = ErrorId(r) /\ mcpAnswer'.error = ParseError(r)
    BY <2>1
  <2>3. ErrorId(r) \in {0, 7} /\ (r.json /\ r.rpc => ErrorId(r) = r.id)
    BY <1>3 DEF ErrorId
  <2>4. AnswersMatch' /\ mcpAnswer'.id \in {0, 7}
    BY <1>0, <1>1, <1>4, <2>2, <2>3 DEF AnswersMatch
  <2> QED
    BY <1>0, <2>4 DEF MCPStrong, TotalChunks, ChunkOf, DataOf, Upto, ToSet
<1>5. CASE ParseError(r) = "none" /\ r.params = "no content"
  <2>1. mcpAnswer' = [id |-> 0, error |-> "TypeError"]
    BY <1>5 DEF Handle
  <2>2. mcpAnswer'.id = 0 /\ mcpAnswer'.error = "TypeError"
    BY <2>1
  <2>4. AnswersMatch' /\ mcpAnswer'.id \in {0, 7}
    BY <1>0, <1>2, <1>3, <1>5, <2>2 DEF AnswersMatch
  <2> QED
    BY <1>0, <2>4 DEF MCPStrong, TotalChunks, ChunkOf, DataOf, Upto, ToSet
<1>6. CASE ParseError(r) = "none" /\ r.params # "no content"
  <2>2. mcpAnswer'.id = r.id /\ mcpAnswer'.error = "none"
    BY <1>6 DEF Handle
  <2>4. AnswersMatch' /\ mcpAnswer'.id \in {0, 7}
    BY <1>0, <1>2, <1>3, <1>6, <2>2 DEF AnswersMatch
  <2> QED
    BY <1>0, <2>4 DEF MCPStrong, TotalChunks, ChunkOf, DataOf, Upto, ToSet
<1> QED
  BY <1>4, <1>5, <1>6

LEMMA MCPStep == MCPStrong /\ [MCPNext]_mcpVars => MCPStrong'
  BY MCPIdle, KeepsStream, AddsAChunk, KeepsAnswers
  DEF MCPNext, MCPStreamNext, MCPHandleNext

LEMMA MCPImplies == MCPStrong => MCPInv
  BY StreamFacts, MCPStrongComplete DEF MCPInv, MCPStrong

-----------------------------------------------------------------------------
LEMMA AppendIs ==
    ASSUME NEW S, NEW w \in Seq(S), NEW x \in S
    PROVE  /\ Append(w, x) \in Seq(S) /\ Len(w) \in Nat /\ Len(Append(w, x)) = Len(w) + 1
           /\ \A i \in 1..Len(w) : Append(w, x)[i] = w[i]
           /\ Append(w, x)[Len(w) + 1] = x
  BY AppendProperties, LenProperties
\* A sequence with another element at one place.
LEMMA ChangeOne ==
    ASSUME NEW S, NEW w \in Seq(S), NEW k, NEW x \in S
    PROVE  /\ [w EXCEPT ![k] = x] \in Seq(S) /\ Len([w EXCEPT ![k] = x]) = Len(w)
           /\ \A i \in 1..Len(w) : [w EXCEPT ![k] = x][i] = IF i = k THEN x ELSE w[i]
<1>1. DOMAIN w = 1..Len(w) /\ Len(w) \in Nat
  BY LenProperties
<1>2. CASE k \in 1..Len(w)
  BY <1>2, ExceptSeq
<1>3. CASE k \notin 1..Len(w)
  <2>1. [w EXCEPT ![k] = x] = [i \in DOMAIN w |-> w[i]]
    BY <1>1, <1>3
  <2>2. [i \in DOMAIN w |-> w[i]] = w
    BY LenProperties
  <2>3. [w EXCEPT ![k] = x] = w
    BY <2>1, <2>2
  <2> QED
    BY <1>3, <2>3
<1> QED
  BY <1>2, <1>3

(***************************************************************************)
(* The records of the kill-switch topic and their handler.                 *)
(***************************************************************************)
RecordsTyped ==
    /\ records \in Seq(BOOLEAN) /\ handled \in Seq(Nat)
    /\ expired \in 0..Len(records) /\ resumedAt \in 0..Len(records)
    /\ offset \in -1..Len(records) /\ position \in -1..Len(records) /\ subscribedAt \in -1..Len(records)
    /\ \A k \in 1..Len(handled) : handled[k] \in 1..Len(records)
\* What was read since the resumption was handled, and before what follows it.
HandledBehind(i) == \E j \in 1..Len(handled) : handled[j] = i
ReadIsHandled ==
    \A i \in (resumedAt + 1)..Len(records) : records[i] /\ (i <= position \/ i <= offset) => HandledBehind(i)
HandledFirst ==
    \A k \in 1..Len(handled) : \A i \in (resumedAt + 1)..(handled[k] - 1) :
        records[i] => \E j \in 1..(k - 1) : handled[j] = i
RecordsOK == RecordsTyped /\ ReadIsHandled /\ HandledFirst

LEMMA RecordsInitial == MessagingInit => RecordsOK
<1> SUFFICES ASSUME MessagingInit PROVE RecordsOK
  OBVIOUS
<1>1. /\ records = <<>> /\ expired = 0 /\ handled = <<>> /\ offset = -1 /\ position = -1
      /\ subscribedAt = -1 /\ resumedAt = 0
  BY DEF MessagingInit, NoOffset
<1>2. /\ records \in Seq(BOOLEAN) /\ handled \in Seq(Nat) /\ Len(records) = 0 /\ Len(handled) = 0
  BY <1>1, EmptySeq
<1> QED
  BY <1>1, <1>2 DEF RecordsOK, RecordsTyped, ReadIsHandled, HandledFirst

\* What moves no record and nothing handled, and reads no further than what was handled.
LEMMA ReadAgain ==
    ASSUME RecordsOK, UNCHANGED <<records, handled>>, expired' \in 0..Len(records),
           offset' \in -1..Len(records), position' \in -1..Len(records), subscribedAt' \in -1..Len(records),
           \/ resumedAt' = Len(records)
           \/ (resumedAt' = resumedAt /\ offset' \in {offset, position} /\ position' \in {offset, position})
    PROVE  RecordsOK'
<1>1. Len(records) \in Nat /\ Len(handled) \in Nat
  BY LenProperties DEF RecordsOK, RecordsTyped
<1>2. RecordsTyped'
  BY <1>1 DEF RecordsOK, RecordsTyped
<1>3. CASE resumedAt' = Len(records)
  <2>1. \A k \in 1..Len(handled) : handled[k] \in 1..Len(records)
    BY DEF RecordsOK, RecordsTyped
  <2>2. ReadIsHandled'
    BY <1>1, <1>3 DEF ReadIsHandled
  <2>3. HandledFirst'
    BY <1>1, <1>3, <2>1 DEF HandledFirst
  <2> QED
    BY <1>2, <2>2, <2>3 DEF RecordsOK
<1>4. CASE resumedAt' = resumedAt /\ offset' \in {offset, position} /\ position' \in {offset, position}
  BY <1>1, <1>2, <1>4, SMTT(30) DEF RecordsOK, RecordsTyped, ReadIsHandled, HandledFirst, HandledBehind
<1> QED
  BY <1>3, <1>4

LEMMA AppendRecordKeeps == ASSUME RecordsOK, NEW valid \in BOOLEAN, AppendRecord(valid) PROVE RecordsOK'
<1>1. /\ records \in Seq(BOOLEAN) /\ handled \in Seq(Nat) /\ Len(records) \in Nat /\ Len(handled) \in Nat
  BY LenProperties DEF RecordsOK, RecordsTyped
<1>2. records' = Append(records, valid) /\ UNCHANGED <<expired, offset, position, handled, subscribedAt, resumedAt>>
  BY DEF AppendRecord
<1>3. /\ records' \in Seq(BOOLEAN) /\ Len(records') = Len(records) + 1
      /\ \A i \in 1..Len(records) : records'[i] = records[i]
  BY <1>1, <1>2, AppendIs
<1>4. RecordsTyped'
  BY <1>1, <1>2, <1>3 DEF RecordsOK, RecordsTyped
<1>5. position <= Len(records) /\ offset <= Len(records) /\ position \in Int /\ offset \in Int /\ resumedAt \in Nat
  BY <1>1 DEF RecordsOK, RecordsTyped
<1>6. ReadIsHandled'
  <2> SUFFICES ASSUME NEW i \in (resumedAt + 1)..(Len(records) + 1), records'[i], i <= position \/ i <= offset
               PROVE  HandledBehind(i)'
    BY <1>2, <1>3 DEF ReadIsHandled
  <2>1. i \in (resumedAt + 1)..Len(records)
    BY <1>1, <1>5
  <2>2. records[i]
    BY <1>1, <1>3, <1>5, <2>1
  <2> QED
    BY <1>2, <2>1, <2>2 DEF RecordsOK, ReadIsHandled, HandledBehind
<1>7. HandledFirst'
  <2> SUFFICES ASSUME NEW k \in 1..Len(handled'), NEW i \in (resumedAt' + 1)..(handled'[k] - 1), records'[i]
               PROVE  \E j \in 1..(k - 1) : handled'[j] = i
    BY DEF HandledFirst
  <2>1. handled' = handled /\ resumedAt' = resumedAt
    BY <1>2
  <2>2. k \in 1..Len(handled) /\ i \in (resumedAt + 1)..(handled[k] - 1)
    BY <2>1
  <2>3. handled[k] \in 1..Len(records)
    BY <2>2 DEF RecordsOK, RecordsTyped
  <2>4. i \in 1..Len(records)
    BY <1>1, <1>5, <2>2, <2>3
  <2>5. records[i]
    BY <1>3, <2>4
  <2>6. \E j \in 1..(k - 1) : handled[j] = i
    BY <2>2, <2>5 DEF RecordsOK, HandledFirst
  <2> QED
    BY <2>1, <2>6
<1> QED
  BY <1>4, <1>6, <1>7 DEF RecordsOK

LEMMA EachMessageKeeps == ASSUME RecordsOK, EachMessage PROVE RecordsOK'
<1>1. /\ records \in Seq(BOOLEAN) /\ handled \in Seq(Nat) /\ Len(records) \in Nat /\ Len(handled) \in Nat
      /\ position \in -1..Len(records) /\ offset \in -1..Len(records) /\ resumedAt \in 0..Len(records)
  BY LenProperties DEF RecordsOK, RecordsTyped
<1>2. /\ position # -1 /\ position < Len(records)
      /\ UNCHANGED <<records, expired, offset, subscribedAt, resumedAt>>
  BY DEF EachMessage, NoOffset
<1>3. position + 1 \in 1..Len(records)
  BY <1>1, <1>2
<1>4. CASE ~records[position + 1] /\ position' = position + 1 /\ UNCHANGED handled
  <2>1. RecordsTyped'
    BY <1>1, <1>2, <1>3, <1>4 DEF RecordsOK, RecordsTyped
  <2>2. ReadIsHandled'
    BY <1>1, <1>2, <1>3, <1>4 DEF RecordsOK, ReadIsHandled, HandledBehind
  <2>3. HandledFirst'
    BY <1>2, <1>4 DEF RecordsOK, HandledFirst
  <2> QED
    BY <2>1, <2>2, <2>3 DEF RecordsOK
<1>5. CASE records[position + 1] /\ handled' = Append(handled, position + 1) /\ position' \in {position, position + 1}
  <2>1. /\ handled' \in Seq(Nat) /\ Len(handled') = Len(handled) + 1
        /\ \A i \in 1..Len(handled) : handled'[i] = handled[i]
        /\ handled'[Len(handled) + 1] = position + 1
    BY <1>1, <1>3, <1>5, AppendIs
  <2>2. position' \in -1..Len(records)
    BY <1>1, <1>3, <1>5
  <2>3. \A k \in 1..Len(handled') : handled'[k] \in 1..Len(records)
    <3> SUFFICES ASSUME NEW k \in 1..Len(handled') PROVE handled'[k] \in 1..Len(records)
      OBVIOUS
    <3>1. CASE k = Len(handled) + 1
      BY <1>3, <2>1, <3>1
    <3>2. CASE k \in 1..Len(handled)
      BY <2>1, <3>2 DEF RecordsOK, RecordsTyped
    <3> QED
      BY <1>1, <2>1, <3>1, <3>2
  <2>4. RecordsTyped'
    BY <1>2, <2>1, <2>2, <2>3 DEF RecordsOK, RecordsTyped
  <2>5. \A i : HandledBehind(i) => HandledBehind(i)'
    <3> SUFFICES ASSUME NEW i, NEW j \in 1..Len(handled), handled[j] = i PROVE HandledBehind(i)'
      BY DEF HandledBehind
    <3>1. j \in 1..Len(handled') /\ handled'[j] = i
      BY <1>1, <2>1, SMTT(30)
    <3> QED
      BY <3>1 DEF HandledBehind
  <2>6. \E j \in 1..Len(handled') : handled'[j] = position + 1
    <3>1. Len(handled) + 1 \in 1..Len(handled')
      BY <1>1, <2>1
    <3> QED
      BY <2>1, <3>1
  <2>7. ReadIsHandled'
    <3> SUFFICES ASSUME NEW i \in (resumedAt + 1)..Len(records), records[i], i <= position' \/ i <= offset
                 PROVE  HandledBehind(i)'
      BY <1>2 DEF ReadIsHandled
    <3>1. CASE i <= position \/ i <= offset
      BY <2>5, <3>1 DEF RecordsOK, ReadIsHandled
    <3>2. CASE ~(i <= position \/ i <= offset)
      <4>1. i = position + 1
        BY <1>1, <1>5, <3>2
      <4> QED
        BY <2>6, <4>1 DEF HandledBehind
    <3> QED
      BY <3>1, <3>2
  <2>8. HandledFirst'
    <3> SUFFICES ASSUME NEW k \in 1..Len(handled'), NEW i \in (resumedAt + 1)..(handled'[k] - 1), records[i]
                 PROVE  \E j \in 1..(k - 1) : handled'[j] = i
      BY <1>2 DEF HandledFirst
    <3>1. CASE k \in 1..Len(handled)
      <4>1. handled'[k] = handled[k]
        BY <2>1, <3>1
      <4>2. PICK j \in 1..(k - 1) : handled[j] = i
        BY <3>1, <4>1 DEF RecordsOK, HandledFirst
      <4>3. handled'[j] = i
        <5>1. j \in 1..Len(handled)
          BY <1>1, <3>1, <4>2
        <5> QED
          BY <2>1, <4>2, <5>1
      <4> QED
        BY <4>3
    <3>2. CASE k = Len(handled) + 1
      <4>1. i \in (resumedAt + 1)..position
        BY <1>1, <2>1, <3>2
      <4>2. HandledBehind(i)
        <5>1. i \in (resumedAt + 1)..Len(records) /\ i <= position
          BY <1>1, <4>1
        <5> QED
          BY <5>1 DEF RecordsOK, ReadIsHandled
      <4>3. PICK j \in 1..Len(handled) : handled[j] = i
        BY <4>2 DEF HandledBehind
      <4>4. j \in 1..(k - 1) /\ handled'[j] = i
        BY <1>1, <2>1, <3>2, <4>3, SMTT(30)
      <4> QED
        BY <4>4
    <3> QED
      BY <1>1, <2>1, <3>1, <3>2
  <2> QED
    BY <2>4, <2>7, <2>8 DEF RecordsOK
<1> QED
  BY <1>4, <1>5 DEF EachMessage

LEMMA RecordsStep == RecordsOK /\ [RecordNext]_recordVars => RecordsOK'
<1> SUFFICES ASSUME RecordsOK, [RecordNext]_recordVars PROVE RecordsOK'
  OBVIOUS
<1>1. /\ Len(records) \in Nat /\ expired \in 0..Len(records) /\ resumedAt \in 0..Len(records)
      /\ offset \in -1..Len(records) /\ position \in -1..Len(records) /\ subscribedAt \in -1..Len(records)
  BY LenProperties DEF RecordsOK, RecordsTyped
<1>2. CASE Expire
  <2>1. expired' \in 0..Len(records)
    BY <1>1, <1>2 DEF Expire
  <2> QED
    BY <1>1, <1>2, <2>1, ReadAgain DEF Expire
<1>3. CASE Join
  <2>1. UNCHANGED <<records, expired, offset, handled>>
    BY <1>3 DEF Join
  <2>2. position' \in -1..Len(records) /\ subscribedAt' \in -1..Len(records)
    BY <1>1, <1>3 DEF Join
  <2>3. resumedAt' = Len(records) \/ (resumedAt' = resumedAt /\ position' = offset)
    BY <1>3 DEF Join
  <2> QED
    BY <1>1, <2>1, <2>2, <2>3, ReadAgain
<1>4. CASE CommitOffset
  BY <1>1, <1>4, ReadAgain DEF CommitOffset
<1>5. CASE UNCHANGED recordVars
  BY <1>1, <1>5, ReadAgain DEF recordVars
<1> QED
  BY <1>2, <1>3, <1>4, <1>5, AppendRecordKeeps, EachMessageKeeps DEF RecordNext

LEMMA RecordsImply == RecordsOK => HandledInOrder /\ RecordsTyped
<1> SUFFICES ASSUME RecordsOK PROVE HandledInOrder
  BY DEF RecordsOK
<1>1. Len(handled) \in Nat /\ DOMAIN handled = 1..Len(handled)
  BY LenProperties DEF RecordsOK, RecordsTyped
<1>2. \A i : HandledBehind(i) => i \in ToSet(handled)
  BY <1>1 DEF HandledBehind, ToSet
<1> QED
  BY <1>1, <1>2 DEF HandledInOrder, RecordsOK, ReadIsHandled, HandledFirst

-----------------------------------------------------------------------------
(***************************************************************************)
(* Topics and access lists.                                                *)
(***************************************************************************)
TopicsOK ==
    /\ \A topic \in topics : topic \in SystemTopics \/ topic.first \in TopicTenants
    /\ systemCreated => \A topic \in SystemTopics : topic.first \notin TopicTenants => topic \in topics
    /\ \A topic \in deletion.listed : topic.first \in TopicTenants

LEMMA TopicsInitial == MessagingInit => TopicsOK
  BY DEF MessagingInit, TopicsOK, NoDeletion

LEMMA TopicsStep == TopicsOK /\ [TopicNext]_topicVars => TopicsOK'
<1> SUFFICES ASSUME TopicsOK, [TopicNext]_topicVars PROVE TopicsOK'
  OBVIOUS
<1>1. CASE CreateSystemTopics
  <2>1. topics' = topics \cup SystemTopics /\ UNCHANGED deletion
    BY <1>1 DEF CreateSystemTopics
  <2> QED
    BY <2>1 DEF TopicsOK
<1>2. CASE DeleteListed
  <2>1. topics' = topics \ deletion.listed /\ deletion' = NoDeletion /\ UNCHANGED systemCreated
    BY <1>2 DEF DeleteListed
  <2> QED
    BY <2>1 DEF TopicsOK, NoDeletion
<1>3. ASSUME NEW tenant \in TopicTenants, CreateTenantTopics(tenant) PROVE TopicsOK'
  <2>1. topics' = topics \cup {TenantTopic(tenant, type) : type \in EventTypes} /\ UNCHANGED <<systemCreated, deletion>>
    BY <1>3 DEF CreateTenantTopics
  <2>2. \A type \in EventTypes : TenantTopic(tenant, type).first \in TopicTenants
    BY DEF TenantTopic
  <2> QED
    BY <2>1, <2>2 DEF TopicsOK
<1>4. ASSUME NEW tenant \in TopicTenants, ListTopics(tenant) PROVE TopicsOK'
  <2>1. /\ deletion' = [busy |-> TRUE, listed |-> {topic \in topics : HasPrefix(topic, tenant)}]
        /\ UNCHANGED <<topics, systemCreated>>
    BY <1>4 DEF ListTopics
  <2> QED
    BY <2>1 DEF TopicsOK, HasPrefix
<1>5. CASE UNCHANGED topicVars
  BY <1>5 DEF topicVars, TopicsOK
<1> QED
  BY <1>1, <1>2, <1>3, <1>4, <1>5 DEF TopicNext

LEMMA TopicsImply == TopicsOK => TopicsAreOfTenants
<1> SUFFICES ASSUME TopicsOK PROVE TopicsAreOfTenants
  OBVIOUS
<1>1. ASSUME NEW topic \in topics, NEW tenant \in TopicTenants, NEW role \in {"producer", "consumer"}
      PROVE  TenantMay(tenant, role, topic) # {} <=>
                 IF ServiceMay(SystemTopics, {"WRITE"}, topic) = {} THEN ExtractTenantId(topic) = {tenant}
                 ELSE topic.first = tenant
  <2>1. TenantMay(tenant, role, topic) # {} <=> topic.first = tenant
    BY DEF TenantMay, HasPrefix
  <2>2. CASE topic \in SystemTopics
    BY <2>1, <2>2 DEF ServiceMay
  <2>3. CASE topic \notin SystemTopics
    <3>1. ServiceMay(SystemTopics, {"WRITE"}, topic) = {} /\ ExtractTenantId(topic) = {topic.first}
      BY <2>3 DEF ServiceMay, ExtractTenantId
    <3>2. {topic.first} = {tenant} <=> topic.first = tenant
      OBVIOUS
    <3> QED
      BY <2>1, <3>1, <3>2
  <2> QED
    BY <2>2, <2>3
<1> QED
  BY <1>1 DEF TopicsAreOfTenants, TopicsOK

-----------------------------------------------------------------------------
(***************************************************************************)
(* The producer.                                                           *)
(***************************************************************************)
ClientStates == {"connecting", "connected", "failed", "closed"}
OnGovernance(c) == [topic |-> "governance", of |-> c] \in stored
OnKillSwitch(c) == [topic |-> "kill_switch", of |-> c] \in stored

\* A call is at the second topic only when it has written the first.
PublicationOK(c) ==
    /\ publication[c] = [phase |-> publication[c].phase, topic |-> publication[c].topic, client |-> publication[c].client]
    /\ publication[c].phase \in {"idle", "connecting", "sending", "done", "rejected"}
    /\ publication[c].client \in 0..Len(clients)
    /\ publication[c].phase \in {"connecting", "sending"} => publication[c].topic \in {"governance", "kill_switch"}
    /\ publication[c].topic = "kill_switch" => c \in KillEvents /\ OnGovernance(c)
    /\ publication[c].phase = "done" => OnGovernance(c) /\ (c \in KillEvents => OnKillSwitch(c))

StoredOK ==
    \A e \in stored : e.topic = "kill_switch" => e.of \in KillEvents /\ OnGovernance(e.of)

ProducerOK ==
    /\ clients \in Seq(ClientStates) /\ producer \in 0..Len(clients)
    /\ DOMAIN publication = Publications /\ StoredOK
    /\ \A c \in Publications : PublicationOK(c)

LEMMA ProducerInitial == MessagingInit => ProducerOK
<1> SUFFICES ASSUME MessagingInit PROVE ProducerOK
  OBVIOUS
<1>1. /\ clients = <<>> /\ producer = 0 /\ stored = {}
      /\ publication = [c \in Publications |-> [phase |-> "idle", topic |-> "none", client |-> 0]]
  BY DEF MessagingInit, NoClient
<1>2. clients \in Seq(ClientStates) /\ Len(clients) = 0
  BY <1>1, EmptySeq
<1>3. \A c \in Publications : publication[c] = [phase |-> "idle", topic |-> "none", client |-> 0]
  BY <1>1
<1>4. \A c \in Publications : PublicationOK(c)
  BY <1>2, <1>3 DEF PublicationOK
<1> QED
  BY <1>1, <1>2, <1>4 DEF ProducerOK, StoredOK

LEMMA ProducerFacts ==
    ASSUME ProducerOK
    PROVE  /\ clients \in Seq(ClientStates) /\ Len(clients) \in Nat /\ DOMAIN clients = 1..Len(clients)
           /\ producer \in 0..Len(clients) /\ DOMAIN publication = Publications
           /\ \A c \in Publications : PublicationOK(c)
  BY LenProperties DEF ProducerOK

\* One call moves, clients may be made and events stored.
LEMMA OnePublication ==
    ASSUME ProducerOK, NEW c \in Publications,
           clients' \in Seq(ClientStates), Len(clients) <= Len(clients'), producer' \in 0..Len(clients'),
           DOMAIN publication' = Publications, \A b \in Publications \ {c} : publication'[b] = publication[b],
           stored \subseteq stored', StoredOK', PublicationOK(c)'
    PROVE  ProducerOK'
<1>1. ASSUME NEW b \in Publications \ {c} PROVE PublicationOK(b)'
  <2>1. PublicationOK(b) /\ publication'[b] = publication[b]
    BY ProducerFacts
  <2>2. (OnGovernance(b) => OnGovernance(b)') /\ (OnKillSwitch(b) => OnKillSwitch(b)')
    BY DEF OnGovernance, OnKillSwitch
  <2>3. Len(clients) \in Nat /\ Len(clients') \in Nat
    BY ProducerFacts, LenProperties
  <2>4. publication[b].client \in 0..Len(clients) => publication[b].client \in 0..Len(clients')
    BY <2>3
  <2> QED
    BY <2>1, <2>2, <2>4 DEF PublicationOK
<1> QED
  BY <1>1 DEF ProducerOK

\* publish() up to its first await, on a topic the call may write.
LEMMA BeginPublishKeeps ==
    ASSUME ProducerOK, NEW c \in Publications, NEW topic \in {"governance", "kill_switch"},
           BeginPublish(c, topic), stored \subseteq stored', StoredOK',
           topic = "kill_switch" => c \in KillEvents /\ OnGovernance(c)'
    PROVE  ProducerOK'
<1>1. /\ clients \in Seq(ClientStates) /\ Len(clients) \in Nat
      /\ producer \in 0..Len(clients) /\ DOMAIN publication = Publications
  BY ProducerFacts
<1>2. PICK phase \in {"connecting", "sending"} :
          /\ publication' = [publication EXCEPT ![c] = [phase |-> phase, topic |-> topic, client |-> producer']]
          /\ \/ UNCHANGED <<producer, clients>>
             \/ clients' = Append(clients, "connecting") /\ producer' = Len(clients')
  BY DEF BeginPublish
<1>3. clients' \in Seq(ClientStates) /\ Len(clients') \in Nat /\ Len(clients) <= Len(clients') /\ producer' \in 0..Len(clients')
  <2>1. CASE UNCHANGED <<producer, clients>>
    BY <1>1, <2>1
  <2>2. CASE clients' = Append(clients, "connecting") /\ producer' = Len(clients')
    <3>1. "connecting" \in ClientStates
      BY DEF ClientStates
    <3>2. clients' \in Seq(ClientStates) /\ Len(clients') = Len(clients) + 1
      BY <1>1, <2>2, <3>1, AppendIs
    <3> QED
      BY <1>1, <2>2, <3>2
  <2> QED
    BY <1>2, <2>1, <2>2
<1>4. /\ publication'[c] = [phase |-> phase, topic |-> topic, client |-> producer']
      /\ DOMAIN publication' = Publications /\ \A b \in Publications \ {c} : publication'[b] = publication[b]
  BY <1>1, <1>2
<1>5. PublicationOK(c)'
  BY <1>3, <1>4 DEF PublicationOK
<1> QED
  BY <1>3, <1>4, <1>5, OnePublication

LEMMA ConnectKeeps ==
    ASSUME ProducerOK, NEW c \in Publications, NEW ok \in BOOLEAN, ConnectReturns(c, ok)
    PROVE  ProducerOK'
<1>1. /\ clients \in Seq(ClientStates) /\ Len(clients) \in Nat
      /\ producer \in 0..Len(clients) /\ DOMAIN publication = Publications /\ PublicationOK(c)
  BY ProducerFacts
<1>2. /\ publication[c].phase = "connecting" /\ producer' = producer /\ stored' = stored
      /\ clients' = [clients EXCEPT ![publication[c].client] =
                         IF @ = "closed" THEN @ ELSE IF ok THEN "connected" ELSE "failed"]
  BY DEF ConnectReturns
<1>3. PICK phase \in {"sending", "rejected"} :
          publication' = [publication EXCEPT ![c].client = producer, ![c].phase = phase]
  BY DEF ConnectReturns
<1>4. clients' \in Seq(ClientStates) /\ Len(clients') = Len(clients)
  <2>1. PICK state \in ClientStates : clients' = [clients EXCEPT ![publication[c].client] = state]
    <3>1. CASE clients[publication[c].client] = "closed"
      BY <1>2, <3>1 DEF ClientStates
    <3>2. CASE clients[publication[c].client] # "closed"
      BY <1>2, <3>2 DEF ClientStates
    <3> QED
      BY <3>1, <3>2
  <2> QED
    BY <1>1, <2>1, ChangeOne
<1>5. DOMAIN publication' = Publications /\ \A b \in Publications \ {c} : publication'[b] = publication[b]
  BY <1>1, <1>3
<1>6. publication'[c] = [phase |-> phase, topic |-> publication[c].topic, client |-> producer]
  <2>1. publication'[c] = [[publication[c] EXCEPT !.client = producer] EXCEPT !.phase = phase]
    BY <1>1, <1>3
  <2> QED
    BY <1>1, <2>1 DEF PublicationOK
<1>7. PublicationOK(c)'
  BY <1>1, <1>2, <1>4, <1>6 DEF PublicationOK, OnGovernance, OnKillSwitch
<1>8. StoredOK'
  BY <1>2 DEF ProducerOK, StoredOK, OnGovernance
<1> QED
  BY <1>1, <1>2, <1>4, <1>5, <1>7, <1>8, OnePublication

\* A call that ends keeps its topic.
LEMMA CallEnds ==
    ASSUME ProducerOK, NEW c \in Publications, NEW phase, publication' = [publication EXCEPT ![c].phase = phase]
    PROVE  /\ DOMAIN publication' = Publications /\ \A b \in Publications \ {c} : publication'[b] = publication[b]
           /\ publication'[c] = [phase |-> phase, topic |-> publication[c].topic, client |-> publication[c].client]
<1>1. DOMAIN publication = Publications /\ PublicationOK(c)
  BY ProducerFacts
<1>2. publication'[c] = [publication[c] EXCEPT !.phase = phase]
  BY <1>1
<1>3. [publication[c] EXCEPT !.phase = phase] = [phase |-> phase, topic |-> publication[c].topic, client |-> publication[c].client]
  BY <1>1 DEF PublicationOK
<1> QED
  BY <1>1, <1>2, <1>3

\* What a call that sends may have stored by then.
LEMMA StoredGrows ==
    ASSUME ProducerOK, NEW c \in Publications, publication[c].phase = "sending", stored' = stored \cup {InTopic(c)}
    PROVE  /\ StoredOK'
           /\ publication[c].topic = "governance" => OnGovernance(c)'
           /\ publication[c].topic = "kill_switch" => c \in KillEvents /\ OnGovernance(c)' /\ OnKillSwitch(c)'
<1>1. PublicationOK(c)
  BY ProducerFacts
<1>2. InTopic(c) = [topic |-> publication[c].topic, of |-> c] /\ InTopic(c) \in stored'
  BY DEF InTopic
<1>3. \A b : OnGovernance(b) => OnGovernance(b)'
  BY DEF OnGovernance
<1>4. publication[c].topic = "kill_switch" => c \in KillEvents /\ OnGovernance(c)'
  BY <1>1, <1>3 DEF PublicationOK
<1>5. StoredOK'
  <2> SUFFICES ASSUME NEW e \in stored', e.topic = "kill_switch" PROVE e.of \in KillEvents /\ OnGovernance(e.of)'
    BY DEF StoredOK
  <2>1. CASE e \in stored
    BY <2>1, <1>3 DEF ProducerOK, StoredOK
  <2>2. CASE e = InTopic(c)
    <3>1. e.topic = publication[c].topic /\ e.of = c
      BY <2>2, <1>2
    <3> QED
      BY <3>1, <1>4
  <2> QED
    BY <2>1, <2>2
<1> QED
  BY <1>2, <1>4, <1>5 DEF OnGovernance, OnKillSwitch

LEMMA SendKeepsOrder ==
    ASSUME ProducerOK, NEW c \in Publications, SendReturns(c)
    PROVE  ProducerOK'
<1> DEFINE next == TopicAfter(c, publication[c].topic)
<1>1. /\ publication[c].phase = "sending" /\ stored' = stored \cup {InTopic(c)}
      /\ \/ next # "none" /\ BeginPublish(c, next)
         \/ /\ next = "none" /\ publication' = [publication EXCEPT ![c].phase = "done"]
            /\ UNCHANGED <<producer, clients>>
  BY DEF SendReturns
<1>2. PublicationOK(c) /\ publication[c].topic \in {"governance", "kill_switch"}
  BY <1>1, ProducerFacts DEF PublicationOK
<1>3. /\ StoredOK' /\ stored \subseteq stored' /\ OnGovernance(c)'
      /\ publication[c].topic = "kill_switch" => c \in KillEvents /\ OnKillSwitch(c)'
  BY <1>1, <1>2, StoredGrows
<1>4. CASE next # "none" /\ BeginPublish(c, next)
  <2>1. next = "kill_switch" /\ c \in KillEvents
    BY <1>4 DEF TopicAfter
  <2>2. BeginPublish(c, "kill_switch")
    BY <1>4, <2>1
  <2> HIDE DEF next
  <2> QED
    BY <1>3, <2>1, <2>2, BeginPublishKeeps
<1>5. CASE next = "none" /\ publication' = [publication EXCEPT ![c].phase = "done"] /\ UNCHANGED <<producer, clients>>
  <2>1. /\ DOMAIN publication' = Publications /\ \A b \in Publications \ {c} : publication'[b] = publication[b]
        /\ publication'[c] = [phase |-> "done", topic |-> publication[c].topic, client |-> publication[c].client]
    BY <1>5, CallEnds
  <2>2. c \in KillEvents => OnKillSwitch(c)'
    <3>1. c \in KillEvents => publication[c].topic = "kill_switch"
      BY <1>2, <1>5 DEF TopicAfter
    <3> QED
      BY <1>3, <3>1
  <2>3. PublicationOK(c)'
    BY <1>2, <1>3, <1>5, <2>1, <2>2 DEF PublicationOK
  <2> QED
    BY <1>3, <1>5, <2>1, <2>3, ProducerFacts, OnePublication
<1> QED
  BY <1>1, <1>4, <1>5

LEMMA RejectionKeepsOrder ==
    ASSUME ProducerOK, NEW c \in Publications, SendRejects(c)
    PROVE  ProducerOK'
<1>1. /\ publication[c].phase = "sending" /\ publication' = [publication EXCEPT ![c].phase = "rejected"]
      /\ stored' = stored \/ stored' = stored \cup {InTopic(c)}
      /\ UNCHANGED <<producer, clients>>
  BY DEF SendRejects
<1>2. /\ DOMAIN publication' = Publications /\ \A b \in Publications \ {c} : publication'[b] = publication[b]
      /\ publication'[c] = [phase |-> "rejected", topic |-> publication[c].topic, client |-> publication[c].client]
  BY <1>1, CallEnds
<1>3. PublicationOK(c)
  BY ProducerFacts
<1>4. StoredOK' /\ stored \subseteq stored'
  <2>1. CASE stored' = stored
    BY <2>1 DEF ProducerOK, StoredOK, OnGovernance
  <2>2. CASE stored' = stored \cup {InTopic(c)}
    BY <1>1, <2>2, StoredGrows
  <2> QED
    BY <1>1, <2>1, <2>2
<1>5. OnGovernance(c) => OnGovernance(c)'
  BY <1>4 DEF OnGovernance
<1>6. PublicationOK(c)'
  BY <1>1, <1>2, <1>3, <1>5 DEF PublicationOK
<1> QED
  BY <1>1, <1>2, <1>4, <1>6, ProducerFacts, OnePublication

LEMMA ProducerStep == ProducerOK /\ [ProducerNext]_producerVars => ProducerOK'
<1> SUFFICES ASSUME ProducerOK, [ProducerNext]_producerVars PROVE ProducerOK'
  OBVIOUS
<1>1. ASSUME NEW c \in Publications, Publish(c) PROVE ProducerOK'
  <2>1. BeginPublish(c, "governance") /\ stored' = stored
    BY <1>1 DEF Publish
  <2>2. StoredOK'
    BY <2>1 DEF ProducerOK, StoredOK, OnGovernance
  <2> QED
    BY <2>1, <2>2, BeginPublishKeeps
<1>2. ASSUME UNCHANGED <<publication, stored>>, clients' \in Seq(ClientStates), Len(clients') = Len(clients),
             producer' \in 0..Len(clients)
      PROVE  ProducerOK'
  BY <1>2 DEF ProducerOK, StoredOK, OnGovernance, PublicationOK, OnKillSwitch
<1>3. CASE Disconnect
  <2>1. /\ clients' = [clients EXCEPT ![producer] = "closed"] /\ producer # NoClient
        /\ UNCHANGED <<producer, publication, stored>>
    BY <1>3 DEF Disconnect
  <2>2. clients' \in Seq(ClientStates) /\ Len(clients') = Len(clients)
    <3>1. "closed" \in ClientStates
      BY DEF ClientStates
    <3> QED
      BY <2>1, <3>1, ProducerFacts, ChangeOne
  <2> QED
    BY <1>2, <2>1, <2>2, ProducerFacts
<1>4. CASE DisconnectReturns
  <2>1. producer' = 0 /\ UNCHANGED <<clients, publication, stored>>
    BY <1>4 DEF DisconnectReturns, NoClient
  <2> QED
    BY <1>2, <2>1, ProducerFacts
<1>5. CASE UNCHANGED producerVars
  <2>1. UNCHANGED <<producer, clients, publication, stored>>
    BY <1>5 DEF producerVars
  <2> QED
    BY <1>2, <2>1, ProducerFacts
<1> QED
  BY <1>1, <1>3, <1>4, <1>5, ConnectKeeps, SendKeepsOrder, RejectionKeepsOrder DEF ProducerNext

LEMMA ProducerImplies ==
    ProducerOK =>
        /\ ActivationIsGoverned
        /\ producer \in 0..Len(clients) /\ ToSet(clients) \subseteq ClientStates
        /\ \A c \in Publications : publication[c].phase \in {"idle", "connecting", "sending", "done", "rejected"}
<1> SUFFICES ASSUME ProducerOK
             PROVE  /\ ActivationIsGoverned
                    /\ producer \in 0..Len(clients) /\ ToSet(clients) \subseteq ClientStates
                    /\ \A c \in Publications :
                           publication[c].phase \in {"idle", "connecting", "sending", "done", "rejected"}
  OBVIOUS
<1>1. ToSet(clients) \subseteq ClientStates
  BY ProducerFacts, ElementOfSeq DEF ToSet
<1>2. ActivationIsGoverned
  BY ProducerFacts DEF ActivationIsGoverned, ProducerOK, StoredOK, PublicationOK, OnGovernance, OnKillSwitch
<1> QED
  BY <1>1, <1>2, ProducerFacts DEF PublicationOK

-----------------------------------------------------------------------------
(***************************************************************************)
(* Start and stop of the kill-switch consumer.                             *)
(***************************************************************************)
KsStates == {"open", "subscribed", "consuming", "closed"}
Starting == {"connect", "subscribe", "run"}

\* A call that waits names a client, and no other does.
StartOK(c) ==
    /\ starts[c] = [phase |-> starts[c].phase, client |-> starts[c].client]
    /\ starts[c].client \in 0..Len(ksClients)
    /\ starts[c].client # 0 <=> starts[c].phase \in Starting
StopOK(c) ==
    /\ stops[c] = [phase |-> stops[c].phase, client |-> stops[c].client]
    /\ stops[c].client # 0 <=> stops[c].phase = "disconnect"

NothingConsumes == \A k \in 1..Len(ksClients) : ksClients[k] # "consuming"

\* Nothing waits; or one start() that has come so far; or one stop().
KsAtRest ==
    /\ Quiet
    /\ running <=> ksConsumer # 0
    /\ \A k \in 1..Len(ksClients) : ksClients[k] = "consuming" <=> (running /\ k = ksConsumer)
OneStarts ==
    /\ NothingConsumes /\ ksConsumer # 0 /\ Waiting(stops) = {}
    /\ \E c \in StartCalls :
           /\ Waiting(starts) = {c} /\ starts[c].client = ksConsumer
           /\ \/ starts[c].phase \in {"connect", "subscribe"} /\ running = FALSE /\ ksClients[ksConsumer] = "open"
              \/ starts[c].phase = "run" /\ running = TRUE /\ ksClients[ksConsumer] = "subscribed"
OneStops ==
    /\ NothingConsumes /\ running = FALSE /\ Waiting(starts) = {}
    /\ \E c \in StopCalls : Waiting(stops) = {c}

KsTyped ==
    /\ ksClients \in Seq(KsStates) /\ ksConsumer \in 0..Len(ksClients)
    /\ running \in BOOLEAN /\ disturbed \in BOOLEAN
    /\ DOMAIN starts = StartCalls /\ \A c \in StartCalls : StartOK(c)
    /\ DOMAIN stops = StopCalls /\ \A c \in StopCalls : StopOK(c)

KsOK == KsTyped /\ (~disturbed => KsAtRest \/ OneStarts \/ OneStops)

LEMMA KsInitial == MessagingInit => KsOK
<1> SUFFICES ASSUME MessagingInit PROVE KsOK
  OBVIOUS
<1>1. /\ ksConsumer = 0 /\ running = FALSE /\ ksClients = <<>> /\ disturbed = FALSE
      /\ starts = [c \in StartCalls |-> [phase |-> "idle", client |-> 0]]
      /\ stops = [c \in StopCalls |-> [phase |-> "idle", client |-> 0]]
  BY DEF MessagingInit, NoClient, Idle
<1>2. ksClients \in Seq(KsStates) /\ Len(ksClients) = 0
  BY <1>1, EmptySeq
<1>3. /\ \A c \in StartCalls : starts[c] = [phase |-> "idle", client |-> 0]
      /\ \A c \in StopCalls : stops[c] = [phase |-> "idle", client |-> 0]
  BY <1>1
<1>4. KsTyped
  <2>1. \A c \in StartCalls : StartOK(c)
    BY <1>2, <1>3 DEF StartOK, Starting
  <2>2. \A c \in StopCalls : StopOK(c)
    BY <1>3 DEF StopOK
  <2>3. DOMAIN starts = StartCalls /\ DOMAIN stops = StopCalls
    BY <1>1
  <2>5. 0 \in 0..0
    OBVIOUS
  <2>4. ksConsumer \in 0..Len(ksClients) /\ running \in BOOLEAN /\ disturbed \in BOOLEAN
    BY <1>1, <1>2, <2>5, Zenon
  <2> QED
    BY <1>2, <2>1, <2>2, <2>3, <2>4 DEF KsTyped
<1>5. KsAtRest
  BY <1>1, <1>2, <1>3 DEF KsAtRest, Quiet, Waiting, NoClient
<1> QED
  BY <1>4, <1>5 DEF KsOK

LEMMA KsFacts ==
    ASSUME KsTyped
    PROVE  /\ ksClients \in Seq(KsStates) /\ Len(ksClients) \in Nat /\ DOMAIN ksClients = 1..Len(ksClients)
           /\ ksConsumer \in 0..Len(ksClients) /\ running \in BOOLEAN /\ disturbed \in BOOLEAN
           /\ DOMAIN starts = StartCalls /\ DOMAIN stops = StopCalls
           /\ \A c \in StartCalls : StartOK(c)
           /\ \A c \in StopCalls : StopOK(c)
           /\ Waiting(starts) = {c \in StartCalls : starts[c].phase \in Starting}
           /\ Waiting(stops) = {c \in StopCalls : stops[c].phase = "disconnect"}
<1>1. /\ ksClients \in Seq(KsStates) /\ Len(ksClients) \in Nat /\ DOMAIN ksClients = 1..Len(ksClients)
      /\ ksConsumer \in 0..Len(ksClients) /\ running \in BOOLEAN /\ disturbed \in BOOLEAN
      /\ DOMAIN starts = StartCalls /\ DOMAIN stops = StopCalls
      /\ \A c \in StartCalls : StartOK(c)
      /\ \A c \in StopCalls : StopOK(c)
  BY LenProperties DEF KsTyped
<1>2. /\ Waiting(starts) = {c \in StartCalls : starts[c].phase \in Starting}
      /\ Waiting(stops) = {c \in StopCalls : stops[c].phase = "disconnect"}
  BY <1>1 DEF Waiting, NoClient, StartOK, StopOK
<1> QED
  BY <1>1, <1>2

\* A step of a call of start(), which leaves the calls of stop() alone.
LEMMA StartMoves ==
    ASSUME KsTyped, NEW c \in StartCalls, NEW phase, NEW client \in 0..Len(ksClients'),
           starts' = [starts EXCEPT ![c] = [phase |-> phase, client |-> client]], UNCHANGED stops,
           client # 0 <=> phase \in Starting,
           ksClients' \in Seq(KsStates), Len(ksClients) <= Len(ksClients'), ksConsumer' \in 0..Len(ksClients'),
           running' \in BOOLEAN, disturbed' \in BOOLEAN
    PROVE  /\ KsTyped' /\ Waiting(stops)' = Waiting(stops)
           /\ Waiting(starts)' = IF client = 0 THEN Waiting(starts) \ {c} ELSE Waiting(starts) \cup {c}
           /\ starts'[c] = [phase |-> phase, client |-> client]
           /\ \A b \in StartCalls \ {c} : starts'[b] = starts[b]
<1>1. DOMAIN starts = StartCalls /\ Len(ksClients) \in Nat /\ Len(ksClients') \in Nat
  BY KsFacts, LenProperties
<1>2. /\ starts'[c] = [phase |-> phase, client |-> client] /\ DOMAIN starts' = StartCalls
      /\ \A b \in StartCalls \ {c} : starts'[b] = starts[b]
  BY <1>1
<1>3. ASSUME NEW b \in StartCalls PROVE StartOK(b)'
  <2>1. CASE b = c
    BY <1>2, <2>1 DEF StartOK
  <2>2. CASE b # c
    <3>1. StartOK(b) /\ starts'[b] = starts[b]
      BY <1>2, <2>2, KsFacts
    <3>2. starts[b].client \in 0..Len(ksClients) => starts[b].client \in 0..Len(ksClients')
      BY <1>1
    <3> QED
      BY <3>1, <3>2 DEF StartOK
  <2> QED
    BY <2>1, <2>2
<1>4. \A b \in StopCalls : StopOK(b)'
  BY KsFacts DEF StopOK
<1>5. Waiting(starts)' = IF client = 0 THEN Waiting(starts) \ {c} ELSE Waiting(starts) \cup {c}
  BY <1>1, <1>2 DEF Waiting, NoClient
<1>6. DOMAIN stops' = StopCalls
  BY KsFacts
<1>7. KsTyped'
  BY <1>2, <1>3, <1>4, <1>6 DEF KsTyped
<1> QED
  BY <1>2, <1>5, <1>7

\* The same of stop().
LEMMA StopMoves ==
    ASSUME KsTyped, NEW c \in StopCalls, NEW phase, NEW client,
           stops' = [stops EXCEPT ![c] = [phase |-> phase, client |-> client]], UNCHANGED starts,
           client # 0 <=> phase = "disconnect",
           ksClients' \in Seq(KsStates), Len(ksClients') = Len(ksClients), ksConsumer' \in 0..Len(ksClients),
           running' \in BOOLEAN, disturbed' \in BOOLEAN
    PROVE  /\ KsTyped' /\ Waiting(starts)' = Waiting(starts)
           /\ Waiting(stops)' = IF client = 0 THEN Waiting(stops) \ {c} ELSE Waiting(stops) \cup {c}
<1>1. DOMAIN stops = StopCalls
  BY KsFacts
<1>2. /\ stops'[c] = [phase |-> phase, client |-> client] /\ DOMAIN stops' = StopCalls
      /\ \A b \in StopCalls \ {c} : stops'[b] = stops[b]
  BY <1>1
<1>3. ASSUME NEW b \in StopCalls PROVE StopOK(b)'
  <2>1. CASE b = c
    BY <1>2, <2>1 DEF StopOK
  <2>2. CASE b # c
    BY <1>2, <2>2, KsFacts DEF StopOK
  <2> QED
    BY <2>1, <2>2
<1>4. \A b \in StartCalls : StartOK(b)'
  BY KsFacts DEF StartOK
<1>5. Waiting(stops)' = IF client = 0 THEN Waiting(stops) \ {c} ELSE Waiting(stops) \cup {c}
  BY <1>1, <1>2 DEF Waiting, NoClient
<1>6. DOMAIN starts' = StartCalls
  BY KsFacts
<1>7. KsTyped'
  BY <1>2, <1>3, <1>4, <1>6 DEF KsTyped
<1>8. Waiting(starts)' = Waiting(starts)
  BY DEF Waiting
<1> QED
  BY <1>5, <1>7, <1>8

\* A call that changes its phase and waits for nothing.
LEMMA StartIdles ==
    ASSUME KsTyped, NEW c \in StartCalls, starts[c].phase = "idle", starts' = [starts EXCEPT ![c].phase = "done"]
    PROVE  starts' = [starts EXCEPT ![c] = [phase |-> "done", client |-> 0]] /\ c \notin Waiting(starts)
<1>1. StartOK(c) /\ DOMAIN starts = StartCalls
  BY KsFacts
<1>2. starts[c] = [phase |-> "idle", client |-> 0]
  BY <1>1 DEF StartOK, Starting
<1>3. [starts[c] EXCEPT !.phase = "done"] = [phase |-> "done", client |-> 0]
  BY <1>2
<1>4. starts' = [starts EXCEPT ![c] = [starts[c] EXCEPT !.phase = "done"]]
  OBVIOUS
<1> QED
  BY <1>2, <1>3, <1>4 DEF Waiting, NoClient
LEMMA StopIdles ==
    ASSUME KsTyped, NEW c \in StopCalls, stops[c].phase = "idle", stops' = [stops EXCEPT ![c].phase = "done"]
    PROVE  stops' = [stops EXCEPT ![c] = [phase |-> "done", client |-> 0]] /\ c \notin Waiting(stops)
<1>1. StopOK(c) /\ DOMAIN stops = StopCalls
  BY KsFacts
<1>2. stops[c] = [phase |-> "idle", client |-> 0]
  BY <1>1 DEF StopOK
<1>3. [stops[c] EXCEPT !.phase = "done"] = [phase |-> "done", client |-> 0]
  BY <1>2
<1>4. stops' = [stops EXCEPT ![c] = [stops[c] EXCEPT !.phase = "done"]]
  OBVIOUS
<1> QED
  BY <1>2, <1>3, <1>4 DEF Waiting, NoClient

\* Calls that wait for nothing disturb no other.
LEMMA OthersWait ==
    ASSUME UNCHANGED <<running, ksClients, ksConsumer>>, Waiting(starts)' = Waiting(starts),
           Waiting(stops)' = Waiting(stops), \A d \in Waiting(starts) : starts'[d] = starts[d],
           KsAtRest \/ OneStarts \/ OneStops
    PROVE  KsAtRest' \/ OneStarts' \/ OneStops'
<1>1. NothingConsumes => NothingConsumes'
  BY DEF NothingConsumes
<1>2. KsAtRest => KsAtRest'
  BY DEF KsAtRest, Quiet
<1>3. OneStops => OneStops'
  BY <1>1 DEF OneStops
<1>4. ASSUME OneStarts PROVE OneStarts'
  <2>1. PICK c \in StartCalls :
            /\ Waiting(starts) = {c} /\ starts[c].client = ksConsumer
            /\ \/ starts[c].phase \in {"connect", "subscribe"} /\ running = FALSE /\ ksClients[ksConsumer] = "open"
               \/ starts[c].phase = "run" /\ running = TRUE /\ ksClients[ksConsumer] = "subscribed"
    BY <1>4 DEF OneStarts
  <2>2. starts'[c] = starts[c]
    BY <2>1
  <2>3. NothingConsumes' /\ ksConsumer' # 0 /\ Waiting(stops)' = {}
    BY <1>1, <1>4 DEF OneStarts
  <2> QED
    BY <2>1, <2>2, <2>3 DEF OneStarts
<1> QED
  BY <1>2, <1>3, <1>4

LEMMA OnlyStart ==
    ASSUME KsOK, ~disturbed, NEW c \in Waiting(starts)
    PROVE  /\ NothingConsumes /\ ksConsumer # 0 /\ Waiting(stops) = {} /\ Waiting(starts) = {c}
           /\ starts[c].client = ksConsumer
           /\ \/ starts[c].phase \in {"connect", "subscribe"} /\ running = FALSE /\ ksClients[ksConsumer] = "open"
              \/ starts[c].phase = "run" /\ running = TRUE /\ ksClients[ksConsumer] = "subscribed"
<1>1. OneStarts
  BY DEF KsOK, KsAtRest, Quiet, OneStops
<1> QED
  BY <1>1 DEF OneStarts

LEMMA OnlyStop ==
    ASSUME KsOK, ~disturbed, NEW c \in Waiting(stops)
    PROVE  NothingConsumes /\ running = FALSE /\ Waiting(starts) = {} /\ Waiting(stops) = {c}
<1>1. OneStops
  BY DEF KsOK, KsAtRest, Quiet, OneStarts
<1> QED
  BY <1>1 DEF OneStops

LEMMA KsStartKeeps ==
    ASSUME KsOK, NEW c \in StartCalls, Start(c)
    PROVE  KsOK'
<1>1. KsTyped /\ starts[c].phase = "idle" /\ UNCHANGED <<running, stops>>
  BY DEF KsOK, Start
<1>2. CASE running /\ starts' = [starts EXCEPT ![c].phase = "done"] /\ UNCHANGED <<ksConsumer, ksClients, disturbed>>
  <2>1. starts' = [starts EXCEPT ![c] = [phase |-> "done", client |-> 0]] /\ c \notin Waiting(starts)
    BY <1>1, <1>2, StartIdles
  <2>2. /\ 0 \in 0..Len(ksClients') /\ "done" \notin Starting /\ Len(ksClients) <= Len(ksClients')
        /\ ksClients' \in Seq(KsStates) /\ ksConsumer' \in 0..Len(ksClients')
        /\ running' \in BOOLEAN /\ disturbed' \in BOOLEAN
    BY <1>1, <1>2, KsFacts DEF Starting
  <2>3. /\ KsTyped' /\ Waiting(stops)' = Waiting(stops) /\ Waiting(starts)' = Waiting(starts) \ {c}
        /\ \A b \in StartCalls \ {c} : starts'[b] = starts[b]
    BY <1>1, <2>1, <2>2, StartMoves
  <2>4. Waiting(starts)' = Waiting(starts) /\ \A d \in Waiting(starts) : starts'[d] = starts[d]
    BY <1>1, <2>1, <2>3, KsFacts
  <2>5. ~disturbed => KsAtRest' \/ OneStarts' \/ OneStops'
    BY <1>1, <1>2, <2>3, <2>4, OthersWait DEF KsOK
  <2> QED
    BY <1>2, <2>3, <2>5 DEF KsOK
<1>3. CASE /\ ~running /\ ksClients' = Append(ksClients, "open") /\ ksConsumer' = Len(ksClients')
           /\ starts' = [starts EXCEPT ![c] = [phase |-> "connect", client |-> ksConsumer']]
           /\ disturbed' = (disturbed \/ ~Quiet)
  <2>1. /\ ksClients' \in Seq(KsStates) /\ Len(ksClients') = Len(ksClients) + 1 /\ Len(ksClients) \in Nat
        /\ \A i \in 1..Len(ksClients) : ksClients'[i] = ksClients[i]
        /\ ksClients'[Len(ksClients) + 1] = "open"
    <3>1. "open" \in KsStates
      BY DEF KsStates
    <3> QED
      BY <1>1, <1>3, <3>1, KsFacts, AppendIs
  <2>2. /\ ksConsumer' \in 0..Len(ksClients') /\ ksConsumer' # 0 /\ "connect" \in Starting
        /\ Len(ksClients) <= Len(ksClients') /\ disturbed' \in BOOLEAN
    BY <1>1, <1>3, <2>1, KsFacts DEF Starting
  <2>3. /\ KsTyped' /\ Waiting(stops)' = Waiting(stops) /\ Waiting(starts)' = Waiting(starts) \cup {c}
        /\ starts'[c] = [phase |-> "connect", client |-> ksConsumer']
    BY <1>1, <1>3, <2>1, <2>2, KsFacts, StartMoves
  <2>4. ASSUME ~disturbed' PROVE OneStarts'
    <3>1. ~disturbed /\ Waiting(starts) = {} /\ Waiting(stops) = {}
      BY <1>3, <2>4 DEF Quiet
    <3>2. KsAtRest
      BY <3>1 DEF KsOK, OneStarts, OneStops
    <3>3. NothingConsumes'
      BY <1>3, <2>1, <3>2 DEF NothingConsumes, KsAtRest
    <3>4. ksClients'[ksConsumer'] = "open" /\ running' = FALSE
      BY <1>1, <1>3, <2>1, KsFacts
    <3> QED
      BY <2>2, <2>3, <3>1, <3>3, <3>4 DEF OneStarts
  <2> QED
    BY <2>3, <2>4 DEF KsOK
<1> QED
  BY <1>2, <1>3 DEF Start

\* The next await of start(), when nothing interferes.
LEMMA ConnectedKeeps ==
    ASSUME KsOK, NEW c \in StartCalls, ConnectedConsumer(c)
    PROVE  KsOK'
<1>1. /\ KsTyped /\ starts[c].phase = "connect" /\ starts' = [starts EXCEPT ![c] = Calls(c, "subscribe")]
      /\ UNCHANGED <<ksConsumer, running, ksClients, stops, disturbed>>
  BY DEF KsOK, ConnectedConsumer
<1>2. c \in Waiting(starts)
  BY <1>1, KsFacts DEF Starting
<1>3. "subscribe" \in Starting /\ "failed" \notin Starting /\ 0 \in 0..Len(ksClients') /\ Len(ksClients) <= Len(ksClients')
  BY <1>1, KsFacts DEF Starting
<1>4. CASE ksConsumer = 0
  <2>1. starts' = [starts EXCEPT ![c] = [phase |-> "failed", client |-> 0]]
    BY <1>1, <1>4 DEF Calls, NoClient
  <2>2. KsTyped'
    BY <1>1, <1>3, <2>1, KsFacts, StartMoves
  <2>3. disturbed
    BY <1>2, <1>4, OnlyStart
  <2> QED
    BY <1>1, <2>2, <2>3 DEF KsOK
<1>5. CASE ksConsumer # 0
  <2>1. starts' = [starts EXCEPT ![c] = [phase |-> "subscribe", client |-> ksConsumer]]
    BY <1>1, <1>5 DEF Calls, NoClient
  <2>2. /\ KsTyped' /\ Waiting(stops)' = Waiting(stops) /\ Waiting(starts)' = Waiting(starts) \cup {c}
        /\ starts'[c] = [phase |-> "subscribe", client |-> ksConsumer]
    BY <1>1, <1>3, <1>5, <2>1, KsFacts, StartMoves
  <2>3. ASSUME ~disturbed PROVE OneStarts'
    <3>1. /\ NothingConsumes /\ Waiting(stops) = {} /\ Waiting(starts) = {c}
          /\ running = FALSE /\ ksClients[ksConsumer] = "open"
      BY <1>1, <1>2, <2>3, OnlyStart
    <3>2. NothingConsumes'
      BY <1>1, <3>1 DEF NothingConsumes
    <3>3. starts'[c].phase = "subscribe" /\ starts'[c].client = ksConsumer'
      BY <1>1, <2>2
    <3>4. ksConsumer' # 0 /\ running' = FALSE /\ ksClients'[ksConsumer'] = "open"
      BY <1>1, <1>5, <3>1
    <3>5. Waiting(starts)' = {c} /\ Waiting(stops)' = {}
      BY <2>2, <3>1
    <3> QED
      BY <3>2, <3>3, <3>4, <3>5 DEF OneStarts
  <2> QED
    BY <1>1, <2>2, <2>3 DEF KsOK
<1> QED
  BY <1>4, <1>5

LEMMA SubscribedKeeps ==
    ASSUME KsOK, NEW c \in StartCalls, Subscribed(c)
    PROVE  KsOK'
<1>1. /\ KsTyped /\ starts[c].phase = "subscribe" /\ starts' = [starts EXCEPT ![c] = Calls(c, "run")]
      /\ running' = TRUE /\ UNCHANGED <<ksConsumer, stops, disturbed>>
  BY DEF KsOK, Subscribed
<1>2. c \in Waiting(starts) /\ starts[c].client \in 1..Len(ksClients)
  <2>1. c \in Waiting(starts)
    BY <1>1, KsFacts DEF Starting
  <2>2. starts[c].client # 0 /\ starts[c].client \in 0..Len(ksClients)
    BY <1>1, KsFacts DEF StartOK, Starting
  <2> QED
    BY <1>1, <2>1, <2>2, KsFacts
<1>3. PICK state \in KsStates :
          /\ ksClients' = [ksClients EXCEPT ![starts[c].client] = state]
          /\ ksClients[starts[c].client] = "open" => state = "subscribed"
  <2>1. ksClients[starts[c].client] \in KsStates /\ "subscribed" \in KsStates
    BY <1>1, <1>2, KsFacts, ElementOfSeq DEF KsStates
  <2>2. ksClients' = [ksClients EXCEPT ![starts[c].client] = IF @ = "open" THEN "subscribed" ELSE @]
    BY DEF Subscribed
  <2>3. CASE ksClients[starts[c].client] = "open"
    BY <2>1, <2>2, <2>3
  <2>4. CASE ksClients[starts[c].client] # "open"
    BY <2>1, <2>2, <2>4
  <2> QED
    BY <2>3, <2>4
<1>4. /\ ksClients' \in Seq(KsStates) /\ Len(ksClients') = Len(ksClients)
      /\ \A i \in 1..Len(ksClients) : ksClients'[i] = IF i = starts[c].client THEN state ELSE ksClients[i]
  <2>1. ksClients \in Seq(KsStates)
    BY <1>1, KsFacts
  <2>2. ksClients' = [ksClients EXCEPT ![starts[c].client] = state]
    BY <1>3
  <2> QED
    BY <2>1, <2>2, ChangeOne
<1>5. "run" \in Starting /\ "failed" \notin Starting /\ 0 \in 0..Len(ksClients') /\ Len(ksClients) <= Len(ksClients')
  BY <1>1, <1>4, KsFacts DEF Starting
<1>8. ksConsumer' \in 0..Len(ksClients') /\ running' \in BOOLEAN /\ disturbed' \in BOOLEAN
  BY <1>1, <1>4, KsFacts
<1>6. CASE ksConsumer = 0
  <2>1. starts' = [starts EXCEPT ![c] = [phase |-> "failed", client |-> 0]]
    BY <1>1, <1>6 DEF Calls, NoClient
  <2>2. KsTyped'
    BY <1>1, <1>4, <1>5, <1>8, <2>1, StartMoves
  <2>3. disturbed
    BY <1>2, <1>6, OnlyStart
  <2> QED
    BY <1>1, <2>2, <2>3 DEF KsOK
<1>7. CASE ksConsumer # 0
  <2>1. starts' = [starts EXCEPT ![c] = [phase |-> "run", client |-> ksConsumer]]
    BY <1>1, <1>7 DEF Calls, NoClient
  <2>4. ksConsumer \in 0..Len(ksClients')
    BY <1>1, <1>8
  <2>2. /\ KsTyped' /\ Waiting(stops)' = Waiting(stops) /\ Waiting(starts)' = Waiting(starts) \cup {c}
        /\ starts'[c] = [phase |-> "run", client |-> ksConsumer]
    <3>1. /\ KsTyped /\ UNCHANGED stops /\ (ksConsumer # 0 <=> "run" \in Starting)
          /\ ksClients' \in Seq(KsStates) /\ Len(ksClients) <= Len(ksClients')
      BY <1>1, <1>4, <1>5, <1>7
    <3> QED
      BY <1>7, <1>8, <2>1, <2>4, <3>1, StartMoves, ZenonT(60)
  <2>3. ASSUME ~disturbed PROVE OneStarts'
    <3>1. /\ NothingConsumes /\ Waiting(stops) = {} /\ Waiting(starts) = {c}
          /\ starts[c].client = ksConsumer /\ ksClients[ksConsumer] = "open"
      BY <1>1, <1>2, <2>3, OnlyStart
    <3>2. state = "subscribed"
      BY <1>3, <3>1
    <3>3. NothingConsumes' /\ ksClients'[ksConsumer] = "subscribed"
      BY <1>2, <1>4, <3>1, <3>2 DEF NothingConsumes
    <3>4. starts'[c].phase = "run" /\ starts'[c].client = ksConsumer'
      BY <1>1, <2>2
    <3>5. ksConsumer' # 0 /\ running' = TRUE /\ ksClients'[ksConsumer'] = "subscribed"
      BY <1>1, <1>7, <3>3
    <3>6. Waiting(starts)' = {c} /\ Waiting(stops)' = {}
      BY <2>2, <3>1
    <3> QED
      BY <3>3, <3>4, <3>5, <3>6 DEF OneStarts
  <2> QED
    BY <1>1, <2>2, <2>3 DEF KsOK
<1> QED
  BY <1>6, <1>7

LEMMA RunKeeps ==
    ASSUME KsOK, NEW c \in StartCalls, RunReturns(c)
    PROVE  KsOK'
<1>1. /\ KsTyped /\ starts[c].phase = "run" /\ starts' = [starts EXCEPT ![c] = [phase |-> "done", client |-> 0]]
      /\ UNCHANGED <<ksConsumer, running, stops, disturbed>>
  BY DEF KsOK, RunReturns, NoClient
<1>2. c \in Waiting(starts) /\ starts[c].client \in 1..Len(ksClients)
  <2>1. c \in Waiting(starts)
    BY <1>1, KsFacts DEF Starting
  <2>2. starts[c].client # 0 /\ starts[c].client \in 0..Len(ksClients)
    BY <1>1, KsFacts DEF StartOK, Starting
  <2> QED
    BY <1>1, <2>1, <2>2, KsFacts
<1>3. PICK state \in KsStates :
          /\ ksClients' = [ksClients EXCEPT ![starts[c].client] = state]
          /\ ksClients[starts[c].client] = "subscribed" => state = "consuming"
  <2>1. ksClients[starts[c].client] \in KsStates /\ "consuming" \in KsStates
    BY <1>1, <1>2, KsFacts, ElementOfSeq DEF KsStates
  <2>2. PICK revived \in BOOLEAN :
            ksClients' = [ksClients EXCEPT ![starts[c].client] =
                IF @ = "subscribed" \/ (@ = "closed" /\ revived) THEN "consuming" ELSE @]
    BY DEF RunReturns
  <2> DEFINE old == ksClients[starts[c].client]
             new == IF old = "subscribed" \/ (old = "closed" /\ revived) THEN "consuming" ELSE old
  <2>3. ksClients' = [ksClients EXCEPT ![starts[c].client] = new]
    BY <2>2
  <2>4. new \in KsStates /\ (old = "subscribed" => new = "consuming")
    BY <2>1
  <2> HIDE DEF new
  <2> QED
    BY <2>3, <2>4
<1>4. /\ ksClients' \in Seq(KsStates) /\ Len(ksClients') = Len(ksClients)
      /\ \A i \in 1..Len(ksClients) : ksClients'[i] = IF i = starts[c].client THEN state ELSE ksClients[i]
  BY <1>1, <1>3, KsFacts, ChangeOne, SMTT(30)
<1>5. "done" \notin Starting /\ 0 \in 0..Len(ksClients') /\ Len(ksClients) <= Len(ksClients')
  BY <1>1, <1>4, KsFacts DEF Starting
<1>6. /\ KsTyped' /\ Waiting(stops)' = Waiting(stops) /\ Waiting(starts)' = Waiting(starts) \ {c}
  BY <1>1, <1>4, <1>5, KsFacts, StartMoves
<1>7. ASSUME ~disturbed PROVE KsAtRest'
  <2>1. /\ NothingConsumes /\ Waiting(stops) = {} /\ Waiting(starts) = {c} /\ ksConsumer # 0
        /\ starts[c].client = ksConsumer /\ ksClients[ksConsumer] = "subscribed" /\ running = TRUE
    BY <1>1, <1>2, <1>7, OnlyStart
  <2>2. state = "consuming"
    BY <1>3, <2>1
  <2>3. \A k \in 1..Len(ksClients') : ksClients'[k] = "consuming" <=> k = ksConsumer
    BY <1>4, <2>1, <2>2 DEF NothingConsumes
  <2>4. Quiet'
    BY <1>6, <2>1 DEF Quiet
  <2> QED
    BY <1>1, <2>1, <2>3, <2>4 DEF KsAtRest
<1> QED
  BY <1>1, <1>6, <1>7 DEF KsOK

LEMMA RejectKeepsTypes ==
    ASSUME KsOK, NEW c \in StartCalls, StartRejects(c)
    PROVE  KsOK'
<1>1. /\ KsTyped /\ starts' = [starts EXCEPT ![c] = [phase |-> "failed", client |-> 0]]
      /\ disturbed' = TRUE /\ UNCHANGED <<ksConsumer, running, ksClients, stops>>
  BY DEF KsOK, StartRejects, NoClient
<1>2. "failed" \notin Starting /\ 0 \in 0..Len(ksClients') /\ Len(ksClients) <= Len(ksClients')
  BY <1>1, KsFacts DEF Starting
<1>3. KsTyped'
  BY <1>1, <1>2, KsFacts, StartMoves
<1> QED
  BY <1>1, <1>3 DEF KsOK

LEMMA KsStopKeeps ==
    ASSUME KsOK, NEW c \in StopCalls, Stop(c)
    PROVE  KsOK'
<1>1. KsTyped /\ stops[c].phase = "idle" /\ UNCHANGED <<ksConsumer, starts>>
  BY DEF KsOK, Stop
<1>2. CASE ksConsumer = 0 /\ stops' = [stops EXCEPT ![c].phase = "done"] /\ UNCHANGED <<running, ksClients, disturbed>>
  <2>1. stops' = [stops EXCEPT ![c] = [phase |-> "done", client |-> 0]] /\ c \notin Waiting(stops)
    BY <1>1, <1>2, StopIdles
  <2>4. /\ Len(ksClients') = Len(ksClients) /\ ksClients' \in Seq(KsStates)
        /\ ksConsumer' \in 0..Len(ksClients) /\ running' \in BOOLEAN /\ disturbed' \in BOOLEAN
    BY <1>1, <1>2, KsFacts
  <2>5. KsTyped' /\ Waiting(starts)' = Waiting(starts) /\ Waiting(stops)' = Waiting(stops) \ {c}
    BY <1>1, <2>1, <2>4, StopMoves
  <2>2. KsTyped' /\ Waiting(starts)' = Waiting(starts) /\ Waiting(stops)' = Waiting(stops)
    BY <2>1, <2>5
  <2>3. ~disturbed => KsAtRest' \/ OneStarts' \/ OneStops'
    BY <1>1, <1>2, <2>2, OthersWait DEF KsOK
  <2> QED
    BY <1>2, <2>2, <2>3 DEF KsOK
<1>3. CASE /\ ksConsumer # 0 /\ running' = FALSE /\ ksClients' = [ksClients EXCEPT ![ksConsumer] = "closed"]
           /\ stops' = [stops EXCEPT ![c] = [phase |-> "disconnect", client |-> ksConsumer]]
           /\ disturbed' = (disturbed \/ ~Quiet)
  <2>1. /\ ksClients' \in Seq(KsStates) /\ Len(ksClients') = Len(ksClients)
        /\ \A i \in 1..Len(ksClients) : ksClients'[i] = IF i = ksConsumer THEN "closed" ELSE ksClients[i]
    <3>1. "closed" \in KsStates
      BY DEF KsStates
    <3> QED
      BY <1>1, <1>3, <3>1, KsFacts, ChangeOne
  <2>2. disturbed' \in BOOLEAN /\ ksConsumer' \in 0..Len(ksClients) /\ running' \in BOOLEAN
    BY <1>1, <1>3, KsFacts
  <2>3. KsTyped' /\ Waiting(starts)' = Waiting(starts) /\ Waiting(stops)' = Waiting(stops) \cup {c}
    BY <1>1, <1>3, <2>1, <2>2, StopMoves
  <2>4. ASSUME ~disturbed' PROVE OneStops'
    <3>1. ~disturbed /\ Waiting(starts) = {} /\ Waiting(stops) = {}
      BY <1>3, <2>4 DEF Quiet
    <3>2. KsAtRest
      BY <3>1 DEF KsOK, OneStarts, OneStops
    <3>3. NothingConsumes'
      BY <2>1, <3>2 DEF NothingConsumes, KsAtRest
    <3> QED
      BY <1>3, <2>3, <3>1, <3>3 DEF OneStops
  <2> QED
    BY <2>3, <2>4 DEF KsOK
<1> QED
  BY <1>2, <1>3 DEF Stop, RunningAfterStop, NoClient

LEMMA StopReturnKeeps ==
    ASSUME KsOK, NEW c \in StopCalls, StopReturns(c)
    PROVE  KsOK'
<1>1. /\ KsTyped /\ stops[c].phase = "disconnect" /\ ksConsumer' = 0
      /\ stops' = [stops EXCEPT ![c] = [phase |-> "done", client |-> 0]]
      /\ UNCHANGED <<running, ksClients, starts, disturbed>>
  BY DEF KsOK, StopReturns, NoClient
<1>2. ksConsumer' \in 0..Len(ksClients)
  BY <1>1, KsFacts
<1>3. KsTyped' /\ Waiting(starts)' = Waiting(starts) /\ Waiting(stops)' = Waiting(stops) \ {c}
  BY <1>1, <1>2, KsFacts, StopMoves
<1>4. ASSUME ~disturbed PROVE KsAtRest'
  <2>1. c \in Waiting(stops)
    BY <1>1, KsFacts
  <2>2. NothingConsumes /\ running = FALSE /\ Waiting(starts) = {} /\ Waiting(stops) = {c}
    BY <1>4, <2>1, OnlyStop
  <2> QED
    BY <1>1, <1>3, <2>2 DEF KsAtRest, Quiet, NothingConsumes
<1> QED
  BY <1>1, <1>3, <1>4 DEF KsOK

LEMMA StopRejectKeeps ==
    ASSUME KsOK, NEW c \in StopCalls, StopRejects(c)
    PROVE  KsOK'
<1>1. /\ KsTyped /\ stops' = [stops EXCEPT ![c] = [phase |-> "failed", client |-> 0]]
      /\ disturbed' = TRUE /\ UNCHANGED <<ksConsumer, running, starts>>
  BY DEF KsOK, StopRejects, NoClient
<1>2. ksClients' \in Seq(KsStates) /\ Len(ksClients') = Len(ksClients)
  <2>1. PICK alive \in BOOLEAN :
            ksClients' = [ksClients EXCEPT ![stops[c].client] = IF alive THEN "consuming" ELSE @]
    BY DEF StopRejects
  <2>2. ksClients \in Seq(KsStates) /\ DOMAIN ksClients = 1..Len(ksClients) /\ "consuming" \in KsStates
    BY <1>1, KsFacts DEF KsStates
  <2>3. CASE alive
    <3>1. ksClients' = [ksClients EXCEPT ![stops[c].client] = "consuming"]
      BY <2>1, <2>3
    <3>2. \A k : /\ [ksClients EXCEPT ![k] = "consuming"] \in Seq(KsStates)
                 /\ Len([ksClients EXCEPT ![k] = "consuming"]) = Len(ksClients)
      <4> SUFFICES ASSUME NEW k
                   PROVE  /\ [ksClients EXCEPT ![k] = "consuming"] \in Seq(KsStates)
                          /\ Len([ksClients EXCEPT ![k] = "consuming"]) = Len(ksClients)
        OBVIOUS
      <4> QED
        BY <2>2, ChangeOne
    <3> QED
      BY <3>1, <3>2
  <2>4. CASE ~alive
    <3>1. ksClients' = [k \in DOMAIN ksClients |-> ksClients[k]]
      BY <2>1, <2>2, <2>4
    <3>2. ksClients' = ksClients
      BY <2>2, <3>1, LenProperties
    <3> QED
      BY <2>2, <3>2
  <2> QED
    BY <2>3, <2>4
<1>3. ksConsumer' \in 0..Len(ksClients) /\ running' \in BOOLEAN /\ disturbed' \in BOOLEAN
  BY <1>1, KsFacts
<1>4. KsTyped'
  BY <1>1, <1>2, <1>3, StopMoves
<1> QED
  BY <1>1, <1>4 DEF KsOK

LEMMA KsStep == KsOK /\ [KsConsumerNext]_ksVars => KsOK'
<1> SUFFICES ASSUME KsOK, [KsConsumerNext]_ksVars PROVE KsOK'
  OBVIOUS
<1>1. CASE UNCHANGED ksVars
  <2>1. UNCHANGED <<ksConsumer, running, ksClients, starts, stops, disturbed>>
    BY <1>1 DEF ksVars
  <2>2. KsTyped'
    BY <2>1 DEF KsOK, KsTyped, StartOK, StopOK
  <2>3. Waiting(starts)' = Waiting(starts) /\ Waiting(stops)' = Waiting(stops)
    BY <2>1 DEF Waiting
  <2> QED
    BY <2>1, <2>2, <2>3, OthersWait DEF KsOK
<1> QED
  BY <1>1, KsStartKeeps, ConnectedKeeps, SubscribedKeeps, RunKeeps, RejectKeepsTypes, KsStopKeeps, StopReturnKeeps,
     StopRejectKeeps
  DEF KsConsumerNext

LEMMA KsImplies == KsOK => RunningIsConsuming /\ ksConsumer \in 0..Len(ksClients)
<1> SUFFICES ASSUME KsOK, Quiet, ~disturbed
             PROVE  /\ running <=> ksConsumer # 0
                    /\ \A k \in DOMAIN ksClients : ksClients[k] = "consuming" <=> (running /\ k = ksConsumer)
  BY DEF RunningIsConsuming, NoClient, KsOK, KsTyped
<1>1. KsAtRest
  BY DEF KsOK, OneStarts, OneStops, Quiet
<1> QED
  BY <1>1, KsFacts DEF KsAtRest, KsOK

-----------------------------------------------------------------------------
(***************************************************************************)
(* The Kafka clients together. They share no state: a step of one leaves   *)
(* the others as they are.                                                 *)
(***************************************************************************)
MessagingStrong == RecordsOK /\ TopicsOK /\ ProducerOK /\ KsOK

LEMMA MessagingInitial == MessagingInit => MessagingStrong
  BY RecordsInitial, TopicsInitial, ProducerInitial, KsInitial DEF MessagingStrong

LEMMA ProducerAlone == ProducerNext => UNCHANGED <<ksVars, recordVars, topicVars>>
  BY DEF ProducerNext, Publish, SendReturns, SendRejects, ConnectReturns, Disconnect, DisconnectReturns

LEMMA KsAlone == KsConsumerNext => UNCHANGED <<producerVars, recordVars, topicVars>>
  BY DEF KsConsumerNext, Start, ConnectedConsumer, Subscribed, RunReturns, StartRejects, Stop, StopReturns,
         StopRejects

LEMMA RecordsAlone == RecordNext => UNCHANGED <<producerVars, ksVars, topicVars>>
  BY DEF RecordNext, EachMessage, AppendRecord, Expire, Join, CommitOffset

LEMMA TopicsAlone == TopicNext => UNCHANGED <<producerVars, ksVars, recordVars>>
  BY DEF TopicNext, CreateSystemTopics, DeleteListed, CreateTenantTopics, ListTopics

LEMMA MessagingStep == MessagingStrong /\ [MessagingNext]_messagingVars => MessagingStrong'
<1> SUFFICES ASSUME MessagingStrong, [MessagingNext]_messagingVars PROVE MessagingStrong'
  OBVIOUS
<1>1. /\ [RecordNext]_recordVars /\ [TopicNext]_topicVars
      /\ [ProducerNext]_producerVars /\ [KsConsumerNext]_ksVars
  BY ProducerAlone, KsAlone, RecordsAlone, TopicsAlone DEF MessagingNext, messagingVars
<1> QED
  BY <1>1, RecordsStep, TopicsStep, ProducerStep, KsStep DEF MessagingStrong

LEMMA MessagingImplies == MessagingStrong => MessagingInv
<1> SUFFICES ASSUME MessagingStrong PROVE MessagingInv
  OBVIOUS
<1>1. expired \in 0..Len(records) /\ resumedAt \in 0..Len(records)
  BY RecordsImply DEF MessagingStrong, RecordsTyped
<1>2. {offset, position, subscribedAt} \subseteq NoOffset..Len(records)
  BY RecordsImply DEF MessagingStrong, RecordsTyped, NoOffset
<1> QED
  BY <1>1, <1>2, RecordsImply, TopicsImply, ProducerImplies, KsImplies
  DEF MessagingStrong, MessagingInv, MessagingTypeOK, ClientStates

-----------------------------------------------------------------------------
(***************************************************************************)
(* The records of the connectors.                                          *)
(***************************************************************************)
Rows == UNION {{answer[i] : i \in DOMAIN answer} : answer \in Answers}
RawRecords == {RawRecord(p, exported) : p \in ToSet(Providers), exported \in Rows}

LEMMA RecordTags ==
    ASSUME NEW rec \in RawRecords
    PROVE  \A t \in DOMAIN rec.tags : rec.tags[t] \in Values
<1>1. PICK p \in ToSet(Providers) : \E exported \in Rows : rec = RawRecord(p, exported)
  BY DEF RawRecords
<1>2. PICK exported \in Rows : rec = RawRecord(p, exported)
  BY <1>1
<1>3. \A t \in DOMAIN exported.labels : exported.labels[t] \in Values
  BY IngestionAssumption DEF Rows
<1>4. \A t \in DOMAIN ConnectorTags : ConnectorTags[t] \in Values
  <2>1. /\ DOMAIN ConnectorTags = {"tenant_id", "environment", "owner"}
        /\ ConnectorTags["tenant_id"] = "value" /\ ConnectorTags["environment"] = "value"
        /\ ConnectorTags["owner"] = "value" /\ "value" \in Values
    BY DEF ConnectorTags, Values
  <2> QED
    BY <2>1
<1>5. p \in {"AWS", "AZURE", "GCP"}
  BY <1>1, IngestionAssumption
<1>6. CASE rec = AwsRecord(exported) \/ rec = AzureRecord(exported)
  <2>1. rec.tags = ConnectorTags
    BY <1>6 DEF AwsRecord, AzureRecord, Labelled
  <2> QED
    BY <1>4, <2>1
<1>7. CASE rec = GcpRecord(exported)
  <2> DEFINE tags == [t \in DOMAIN exported.labels \cup {"tenant_id"} |->
                         IF t = "tenant_id" THEN "value" ELSE exported.labels[t]]
  <2>1. rec.tags = tags
    BY <1>7 DEF GcpRecord, Labelled
  <2>2. \A t \in DOMAIN tags : tags[t] \in Values
    BY <1>3 DEF Values
  <2> QED
    BY <2>1, <2>2
<1>8. rec = AwsRecord(exported) \/ rec = AzureRecord(exported) \/ rec = GcpRecord(exported)
  BY <1>2, <1>5 DEF RawRecord
<1> QED
  BY <1>6, <1>7, <1>8

\* What an answer adds is a sequence of records.
LEMMA AnswerIs ==
    ASSUME NEW p \in ToSet(Providers), NEW answer \in Answers \cup {<<>>}
    PROVE  [i \in DOMAIN answer |-> RawRecord(p, answer[i])] \in Seq(RawRecords)
<1>1. PICK n \in Nat : DOMAIN answer = 1..n
  <2>1. CASE answer = <<>>
    BY <2>1
  <2>2. CASE answer \in Answers
    BY <2>2, IngestionAssumption
  <2> QED
    BY <2>1, <2>2
<1>2. \A i \in DOMAIN answer : RawRecord(p, answer[i]) \in RawRecords
  <2>1. CASE answer = <<>>
    BY <2>1
  <2>2. CASE answer \in Answers
    <3>1. \A i \in DOMAIN answer : answer[i] \in Rows
      BY <2>2 DEF Rows
    <3> QED
      BY <3>1 DEF RawRecords
  <2> QED
    BY <2>1, <2>2
<1> QED
  BY <1>1, <1>2

\* The next record to publish is the first that normalizes.
LEMMA NextIs ==
    ASSUME NEW raw, Len(raw) \in Nat, NEW from \in 1..(Len(raw) + 1)
    PROVE  LET next == NextToPublish(raw, from)
           IN  /\ next \in from..(Len(raw) + 1)
               /\ next = Len(raw) + 1 \/ Normalizes(raw[next])
               /\ \A j \in from..(next - 1) : ~Normalizes(raw[j])
<1> DEFINE S == {i \in from..(Len(raw) + 1) : i = Len(raw) + 1 \/ Normalizes(raw[i])}
<1>1. IsFiniteSet(S)
  <2>1. IsFiniteSet(from..(Len(raw) + 1))
    BY FS_Interval
  <2> QED
    BY <2>1, FS_Subset
<1>2. S # {} /\ S \subseteq Int
  OBVIOUS
<1>3. Min(S) \in S /\ \A x \in S : Min(S) <= x
  BY <1>1, <1>2, MinIs
<1>4. \A j \in from..(Min(S) - 1) : ~Normalizes(raw[j])
  <2> SUFFICES ASSUME NEW j \in from..(Min(S) - 1), Normalizes(raw[j]) PROVE FALSE
    OBVIOUS
  <2>1. Min(S) \in from..(Len(raw) + 1) /\ from \in Nat
    BY <1>3
  <2>2. j \in from..(Len(raw) + 1) /\ j < Min(S)
    BY <2>1
  <2>3. j \in S
    BY <2>2
  <2> QED
    BY <1>3, <2>1, <2>2, <2>3
<1>5. \E i \in from..(Len(raw) + 1) :
          /\ i = Len(raw) + 1 \/ Normalizes(raw[i])
          /\ \A j \in from..(i - 1) : ~Normalizes(raw[j])
  BY <1>3, <1>4
<1> QED
  BY <1>5 DEF NextToPublish

-----------------------------------------------------------------------------
(***************************************************************************)
(* The connectors.                                                         *)
(***************************************************************************)
ConnectorOK(p) ==
    /\ answeredAt[p] \in 0..tick
    /\ (connector[p].status = "HEALTHY") <=> (connector[p].unreachableSince = Never)
    /\ \/ connector[p].unreachableSince = Never
       \/ connector[p].unreachableSince \in 0..tick /\ answeredAt[p] <= connector[p].unreachableSince

ConnectorsOK ==
    /\ tick \in 0..Minutes /\ UnreachableIsTrue
    /\ DOMAIN connector = ToSet(Providers) /\ DOMAIN answeredAt = ToSet(Providers)
    /\ \A p \in ToSet(Providers) : ConnectorOK(p)

LEMMA ConnectorsInitial == IngestInit => ConnectorsOK
<1> SUFFICES ASSUME IngestInit PROVE ConnectorsOK
  OBVIOUS
<1>1. /\ tick = 0 /\ failureEvent = NoEvent
      /\ connector = [p \in ToSet(Providers) |-> Working] /\ answeredAt = [p \in ToSet(Providers) |-> 0]
  BY DEF IngestInit
<1>2. \A p \in ToSet(Providers) : ConnectorOK(p)
  BY <1>1 DEF ConnectorOK, Working, Never
<1>3. tick \in 0..Minutes
  BY <1>1, IngestionAssumption
<1> QED
  BY <1>1, <1>2, <1>3 DEF ConnectorsOK, UnreachableIsTrue

\* One provider is polled.
LEMMA OnePolled ==
    ASSUME ConnectorsOK, NEW p \in ToSet(Providers), tick' = tick, UnreachableIsTrue',
           DOMAIN connector' = ToSet(Providers), DOMAIN answeredAt' = ToSet(Providers), ConnectorOK(p)',
           \A q \in ToSet(Providers) \ {p} : connector'[q] = connector[q] /\ answeredAt'[q] = answeredAt[q]
    PROVE  ConnectorsOK'
<1>1. ASSUME NEW q \in ToSet(Providers) PROVE ConnectorOK(q)'
  <2>1. CASE q = p
    BY <2>1
  <2>2. CASE q # p
    BY <2>2 DEF ConnectorOK, ConnectorsOK
  <2> QED
    BY <2>1, <2>2
<1> QED
  BY <1>1 DEF ConnectorsOK

LEMMA SuccessKeeps ==
    ASSUME ConnectorsOK, NEW p \in ToSet(Providers), tick' = tick, PollSuccess(p)
    PROVE  ConnectorsOK'
<1>1. /\ tick \in 0..Minutes /\ DOMAIN connector = ToSet(Providers) /\ DOMAIN answeredAt = ToSet(Providers)
      /\ connector' = [connector EXCEPT ![p] = Working] /\ answeredAt' = [answeredAt EXCEPT ![p] = tick]
      /\ failureEvent' = failureEvent
  BY DEF ConnectorsOK, PollSuccess
<1>2. connector'[p] = Working /\ answeredAt'[p] = tick
  BY <1>1
<1>3. tick \in Nat
  BY <1>1, IngestionAssumption
<1>4. ConnectorOK(p)'
  BY <1>2, <1>3 DEF ConnectorOK, Working
<1>5. UnreachableIsTrue'
  BY <1>1 DEF ConnectorsOK, UnreachableIsTrue
<1> QED
  BY <1>1, <1>4, <1>5, OnePolled

LEMMA FailureKeeps ==
    ASSUME ConnectorsOK, NEW p \in ToSet(Providers), tick' = tick, PollFailure(p)
    PROVE  ConnectorsOK'
<1> DEFINE since == IF connector[p].unreachableSince = Never THEN tick ELSE connector[p].unreachableSince
           unreachable == tick - since >= UnreachableAfter
<1>1. /\ DOMAIN connector = ToSet(Providers) /\ DOMAIN answeredAt = ToSet(Providers)
      /\ connector' = [connector EXCEPT ![p] =
               [status |-> IF unreachable THEN "UNREACHABLE" ELSE "DEGRADED",
                failures |-> connector[p].failures + 1, unreachableSince |-> since]]
      /\ failureEvent' = IF unreachable
                         THEN [provider |-> p, unreachable_since |-> since,
                               timestamp |-> tick, answered |-> answeredAt[p]]
                         ELSE failureEvent
      /\ answeredAt' = answeredAt
  BY DEF ConnectorsOK, PollFailure
<1>2. ConnectorOK(p) /\ tick \in Nat /\ UnreachableAfter \in Nat
  BY IngestionAssumption DEF ConnectorsOK
<1>3. since \in 0..tick /\ answeredAt[p] \in 0..tick /\ answeredAt[p] <= since
  BY <1>2 DEF ConnectorOK
<1> HIDE DEF since
<1>4. /\ connector'[p].status # "HEALTHY" /\ connector'[p].unreachableSince = since
      /\ \A q \in ToSet(Providers) \ {p} : connector'[q] = connector[q]
      /\ DOMAIN connector' = ToSet(Providers)
  BY <1>1
<1>5. since # Never
  BY <1>2, <1>3 DEF Never
<1>6. ConnectorOK(p)'
  BY <1>1, <1>3, <1>4, <1>5 DEF ConnectorOK
<1>7. UnreachableIsTrue'
  <2>1. CASE unreachable
    <3>1. failureEvent'.timestamp = tick /\ failureEvent'.unreachable_since = since /\ failureEvent'.answered = answeredAt[p]
      BY <1>1, <2>1
    <3> QED
      BY <1>3, <2>1, <3>1 DEF UnreachableIsTrue
  <2>2. CASE ~unreachable
    BY <1>1, <2>2 DEF ConnectorsOK, UnreachableIsTrue
  <2> QED
    BY <2>1, <2>2
<1> QED
  BY <1>1, <1>4, <1>6, <1>7, OnePolled

LEMMA TickKeeps == ConnectorsOK /\ PassTick => ConnectorsOK'
<1> SUFFICES ASSUME ConnectorsOK, PassTick PROVE ConnectorsOK'
  OBVIOUS
<1>1. tick' = tick + 1 /\ tick < Minutes /\ UNCHANGED <<connector, answeredAt, failureEvent>> /\ tick \in 0..Minutes
  BY DEF PassTick, ConnectorsOK
<1>2. tick' \in 0..Minutes /\ \A n : n \in 0..tick => n \in 0..tick'
  BY <1>1, IngestionAssumption
<1>3. \A p \in ToSet(Providers) : ConnectorOK(p)'
  BY <1>1, <1>2 DEF ConnectorsOK, ConnectorOK
<1> QED
  BY <1>1, <1>2, <1>3 DEF ConnectorsOK, UnreachableIsTrue

-----------------------------------------------------------------------------
(***************************************************************************)
(* The runs, the dead letters and the topic.                               *)
(***************************************************************************)
Letter == [of : Runs, at : Nat]
ToLetter(r, i) == [of |-> r, at |-> i]
Letters == ToSet(deadLetterQueue) \cup drained
TopicEvent(r, i) == [of |-> r, at |-> i, event |-> Normalized(run[r].raw[i])]

\* The records of a run that it has dealt with: those before the one being published.
Dealt(r) == IF run[r].at = 0 THEN 0 ELSE run[r].at - 1

RunOK(r) ==
    /\ run[r] = [phase |-> run[r].phase, polled |-> run[r].polled, raw |-> run[r].raw,
                 at |-> run[r].at, published |-> run[r].published]
    /\ run[r].phase \in {"idle", "polling", "publishing", "done", "failed"}
    /\ run[r].polled \in Nat /\ run[r].raw \in Seq(RawRecords) /\ run[r].published \in Seq(Nat)
    /\ run[r].phase = "idle" => run[r].polled = 0 /\ run[r].raw = <<>>
    /\ run[r].phase = "polling" => run[r].polled < Len(Providers)
    /\ run[r].phase \in {"idle", "polling"} => run[r].at = 0 /\ run[r].published = <<>>
    /\ run[r].phase \notin {"idle", "polling"} => run[r].at \in 1..(Len(run[r].raw) + 1)
    /\ run[r].phase \in {"publishing", "failed"} =>
           run[r].at <= Len(run[r].raw) /\ Normalizes(run[r].raw[run[r].at])

\* Of a run: its letters are the records dealt with that do not normalize, those it
\* published are the others, and the others are in the topic.
RunAccounted(r) ==
    /\ \A i \in Nat : ToLetter(r, i) \in Letters <=> (i \in 1..Dealt(r) /\ ~Normalizes(run[r].raw[i]))
    /\ ToSet(run[r].published) = {i \in 1..Dealt(r) : Normalizes(run[r].raw[i])}
    /\ \A i \in 1..Dealt(r) : Normalizes(run[r].raw[i]) => TopicEvent(r, i) \in billingTopic

\* A letter is in one place, and one time.
LettersOK ==
    /\ deadLetterQueue \in Seq(Letter) /\ drained \subseteq Letter
    /\ \A k, l \in 1..Len(deadLetterQueue) : deadLetterQueue[k] = deadLetterQueue[l] => k = l
    /\ \A k \in 1..Len(deadLetterQueue) : deadLetterQueue[k] \notin drained

\* An event in the topic is of a record its run has published, or tried to.
EventOK(e) ==
    /\ e.of \in Runs /\ e.at \in 1..Len(run[e.of].raw) /\ e = TopicEvent(e.of, e.at)
    /\ Normalizes(run[e.of].raw[e.at])
    /\ e.at < run[e.of].at \/ (run[e.of].phase = "failed" /\ e.at = run[e.of].at)

RunsOK ==
    /\ DOMAIN run = Runs /\ LettersOK
    /\ \A r \in Runs : RunOK(r) /\ RunAccounted(r)
    /\ \A e \in billingTopic : EventOK(e)

LEMMA RunsInitial == IngestInit => RunsOK
<1> SUFFICES ASSUME IngestInit PROVE RunsOK
  OBVIOUS
<1>1. /\ deadLetterQueue = <<>> /\ drained = {} /\ billingTopic = {}
      /\ run = [r \in Runs |-> [phase |-> "idle", polled |-> 0, raw |-> <<>>, at |-> 0, published |-> <<>>]]
  BY DEF IngestInit
<1>2. LettersOK /\ Letters = {}
  <2>1. deadLetterQueue \in Seq(Letter) /\ Len(deadLetterQueue) = 0 /\ DOMAIN deadLetterQueue = {}
    BY <1>1
  <2> QED
    BY <1>1, <2>1 DEF LettersOK, Letters, ToSet
<1>3. ASSUME NEW r \in Runs PROVE RunOK(r) /\ RunAccounted(r)
  <2>1. run[r] = [phase |-> "idle", polled |-> 0, raw |-> <<>>, at |-> 0, published |-> <<>>]
    BY <1>1
  <2>2. <<>> \in Seq(RawRecords) /\ <<>> \in Seq(Nat)
    OBVIOUS
  <2>3. RunOK(r)
    BY <2>1, <2>2 DEF RunOK
  <2>4. Dealt(r) = 0
    BY <2>1 DEF Dealt
  <2>5. ToSet(run[r].published) = {}
    BY <2>1 DEF ToSet
  <2> QED
    BY <1>2, <2>3, <2>4, <2>5 DEF RunAccounted
<1> QED
  BY <1>1, <1>2, <1>3 DEF RunsOK

\* One run moves: it is enough to look at it, at the letters and at new events.
LEMMA OneRun ==
    ASSUME RunsOK, NEW r \in Runs, DOMAIN run' = Runs, \A b \in Runs \ {r} : run'[b] = run[b],
           LettersOK', RunOK(r)', RunAccounted(r)',
           \A b \in Runs \ {r}, i \in Nat : ToLetter(b, i) \in Letters' <=> ToLetter(b, i) \in Letters,
           billingTopic \subseteq billingTopic',
           \A e \in billingTopic' : EventOK(e)' \/ (e \in billingTopic /\ e.of # r)
    PROVE  RunsOK'
<1>1. ASSUME NEW b \in Runs \ {r} PROVE RunOK(b)' /\ RunAccounted(b)'
  <2>1. run'[b] = run[b] /\ RunOK(b) /\ RunAccounted(b)
    BY DEF RunsOK
  <2>2. RunOK(b)'
    BY <2>1 DEF RunOK
  <2>3. Dealt(b)' = Dealt(b) /\ \A i : TopicEvent(b, i)' = TopicEvent(b, i)
    BY <2>1 DEF Dealt, TopicEvent
  <2>4. \A i \in Nat : ToLetter(b, i) \in Letters' <=> (i \in 1..Dealt(b)' /\ ~Normalizes(run'[b].raw[i]))
    BY <2>1, <2>3 DEF RunAccounted
  <2>5. ToSet(run'[b].published) = {i \in 1..Dealt(b)' : Normalizes(run'[b].raw[i])}
    BY <2>1, <2>3 DEF RunAccounted
  <2>6. \A i \in 1..Dealt(b)' : Normalizes(run'[b].raw[i]) => TopicEvent(b, i)' \in billingTopic'
    BY <2>1, <2>3 DEF RunAccounted
  <2> QED
    BY <2>2, <2>4, <2>5, <2>6 DEF RunAccounted
<1>2. ASSUME NEW e \in billingTopic, e.of # r PROVE EventOK(e)'
  <2>1. EventOK(e) /\ e.of \in Runs
    BY DEF RunsOK, EventOK
  <2>2. run'[e.of] = run[e.of]
    BY <1>2, <2>1
  <2>3. TopicEvent(e.of, e.at)' = TopicEvent(e.of, e.at)
    BY <2>2 DEF TopicEvent
  <2> QED
    BY <2>1, <2>2, <2>3 DEF EventOK
<1> QED
  BY <1>1, <1>2 DEF RunsOK

LEMMA RunFacts ==
    ASSUME RunsOK, NEW r \in Runs
    PROVE  /\ DOMAIN run = Runs /\ LettersOK /\ RunOK(r) /\ RunAccounted(r)
           /\ run[r] = [phase |-> run[r].phase, polled |-> run[r].polled, raw |-> run[r].raw,
                        at |-> run[r].at, published |-> run[r].published]
           /\ run[r].raw \in Seq(RawRecords) /\ Len(run[r].raw) \in Nat /\ run[r].at \in Nat
           /\ Dealt(r) \in Nat
           /\ run[r].phase \notin {"idle", "polling"} => run[r].at \in 1..(Len(run[r].raw) + 1) /\ Dealt(r) = run[r].at - 1
           /\ run[r].phase \in {"idle", "polling"} => run[r].at = 0 /\ Dealt(r) = 0
<1>1. DOMAIN run = Runs /\ LettersOK /\ RunOK(r) /\ RunAccounted(r)
  BY DEF RunsOK
<1>2. run[r].raw \in Seq(RawRecords) /\ Len(run[r].raw) \in Nat
  BY <1>1, LenProperties DEF RunOK
<1>3. /\ run[r].phase \notin {"idle", "polling"} => run[r].at \in 1..(Len(run[r].raw) + 1)
      /\ run[r].phase \in {"idle", "polling"} => run[r].at = 0
  BY <1>1 DEF RunOK
<1>4. /\ run[r].phase \notin {"idle", "polling"} => run[r].at \in Nat /\ Dealt(r) \in Nat /\ Dealt(r) = run[r].at - 1
      /\ run[r].phase \in {"idle", "polling"} => run[r].at \in Nat /\ Dealt(r) = 0
  BY <1>2, <1>3 DEF Dealt
<1>5. run[r] = [phase |-> run[r].phase, polled |-> run[r].polled, raw |-> run[r].raw,
                        at |-> run[r].at, published |-> run[r].published]
  BY <1>1 DEF RunOK
<1> QED
  BY <1>1, <1>2, <1>3, <1>4, <1>5

\* A run that has dealt with nothing has no event in the topic.
LEMMA NoEvents ==
    ASSUME RunsOK, NEW r \in Runs, run[r].at = 0 \/ run[r].raw = <<>>
    PROVE  Dealt(r) = 0 /\ \A e \in billingTopic : e.of # r
<1>1. Dealt(r) = 0
  <2>1. CASE run[r].at = 0
    BY <2>1 DEF Dealt
  <2>2. CASE run[r].raw = <<>>
    <3>1. Len(run[r].raw) = 0
      BY <2>2
    <3>2. run[r].at = 0 \/ run[r].at \in 1..(0 + 1)
      BY <3>1, RunFacts
    <3>3. run[r].at = 0 \/ run[r].at = 1
      BY <3>2
    <3> QED
      BY <3>3 DEF Dealt
  <2> QED
    BY <2>1, <2>2
<1>2. ASSUME NEW e \in billingTopic, e.of = r PROVE FALSE
  <2>1. EventOK(e)
    BY DEF RunsOK
  <2>2. e.at \in 1..Len(run[r].raw) /\ e.at <= run[r].at
    BY <1>2, <2>1, RunFacts DEF EventOK
  <2> QED
    BY <2>2, RunFacts
<1> QED
  BY <1>1, <1>2

\* A run that still polls.
LEMMA StillPolls ==
    ASSUME RunsOK, NEW r \in Runs, UNCHANGED <<deadLetterQueue, drained, billingTopic>>,
           Dealt(r) = 0, \A e \in billingTopic : e.of # r,
           DOMAIN run' = Runs, \A b \in Runs \ {r} : run'[b] = run[b],
           RunOK(r)', run'[r].at = 0, run'[r].published = <<>>
    PROVE  RunsOK'
<1>1. Letters' = Letters
  BY DEF Letters
<1>2. LettersOK'
  BY RunFacts DEF LettersOK
<1>3. Dealt(r)' = 0
  BY DEF Dealt
<1>4. \A i \in Nat : ToLetter(r, i) \notin Letters
  <2>1. RunAccounted(r)
    BY RunFacts
  <2> QED
    BY <2>1 DEF RunAccounted
<1>5. ToSet(run'[r].published) = {}
  BY DEF ToSet
<1>6. RunAccounted(r)'
  BY <1>1, <1>3, <1>4, <1>5 DEF RunAccounted
<1> QED
  BY <1>1, <1>2, <1>6, OneRun

LEMMA BeginKeeps ==
    ASSUME RunsOK, NEW r \in Runs, BeginRun(r) \/ RunAgain(r)
    PROVE  RunsOK'
<1>1. UNCHANGED <<deadLetterQueue, drained, billingTopic>>
  BY DEF BeginRun, RunAgain
<1>2. /\ DOMAIN run' = Runs /\ \A b \in Runs \ {r} : run'[b] = run[b]
      /\ run'[r] = [phase |-> "polling", polled |-> 0, raw |-> <<>>, at |-> 0, published |-> <<>>]
  <2>1. CASE BeginRun(r)
    <3>1. run[r].phase = "idle" /\ run' = [run EXCEPT ![r].phase = "polling"]
      BY <2>1 DEF BeginRun
    <3>2. run[r] = [phase |-> "idle", polled |-> 0, raw |-> <<>>, at |-> 0, published |-> <<>>]
      BY <3>1, RunFacts DEF RunOK
    <3>3. run'[r] = [run[r] EXCEPT !.phase = "polling"] /\ DOMAIN run' = Runs /\ \A b \in Runs \ {r} : run'[b] = run[b]
      BY <3>1, RunFacts
    <3> QED
      BY <3>2, <3>3
  <2>2. CASE RunAgain(r)
    <3>1. run' = [run EXCEPT ![r] = [phase |-> "polling", polled |-> 0, raw |-> <<>>, at |-> 0, published |-> <<>>]]
      BY <2>2 DEF RunAgain
    <3> QED
      BY <3>1, RunFacts
  <2> QED
    BY <2>1, <2>2
<1>3. run[r].at = 0 \/ run[r].raw = <<>>
  BY RunFacts DEF BeginRun, RunAgain
<1>4. RunOK(r)'
  <2>1. <<>> \in Seq(RawRecords) /\ <<>> \in Seq(Nat)
    OBVIOUS
  <2> QED
    BY <1>2, <2>1, IngestionAssumption DEF RunOK
<1> QED
  BY <1>1, <1>2, <1>3, <1>4, NoEvents, StillPolls

\* What Proceed() puts in the queue: the records from one to before another.
LEMMA RefusedIs ==
    ASSUME RunsOK, NEW r \in Runs, NEW from \in Nat \ {0}, NEW next \in Nat, from <= next,
           Dealt(r) < from, drained' = drained,
           deadLetterQueue' = deadLetterQueue \o [i \in 1..(next - from) |-> [of |-> r, at |-> from + i - 1]]
    PROVE  /\ LettersOK'
           /\ \A b \in Runs, i \in Nat : ToLetter(b, i) \in Letters' <=>
                  (ToLetter(b, i) \in Letters \/ (b = r /\ i \in from..(next - 1)))
<1> DEFINE n == Len(deadLetterQueue)
           m == next - from
           refused == [i \in 1..m |-> [of |-> r, at |-> from + i - 1]]
<1>1. /\ deadLetterQueue \in Seq(Letter) /\ n \in Nat /\ drained \subseteq Letter
      /\ DOMAIN deadLetterQueue = 1..n
      /\ \A k, l \in 1..n : deadLetterQueue[k] = deadLetterQueue[l] => k = l
      /\ \A k \in 1..n : deadLetterQueue[k] \notin drained
  BY RunFacts, LenProperties DEF LettersOK
<1>2. m \in Nat /\ \A i \in 1..m : from + i - 1 \in Nat /\ from + i - 1 \in from..(next - 1)
  OBVIOUS
<1>3. refused \in Seq(Letter) /\ Len(refused) = m /\ \A i \in 1..m : refused[i] = ToLetter(r, from + i - 1)
  <2>1. \A i \in 1..m : [of |-> r, at |-> from + i - 1] \in Letter
    BY <1>2 DEF Letter
  <2>2. refused \in [1..m -> Letter]
    BY <2>1
  <2>3. refused \in Seq(Letter) /\ Len(refused) = m
    <3> HIDE DEF m, refused
    <3> QED
      BY <1>2, <2>2
  <2> QED
    BY <2>3 DEF ToLetter
<1>4. deadLetterQueue' = deadLetterQueue \o refused
  OBVIOUS
<1> HIDE DEF refused, m
<1>5. /\ deadLetterQueue' \in Seq(Letter) /\ Len(deadLetterQueue') = n + m
      /\ \A k \in 1..n : deadLetterQueue'[k] = deadLetterQueue[k]
      /\ \A k \in (n + 1)..(n + m) : deadLetterQueue'[k] = refused[k - n]
  <2>1. /\ deadLetterQueue \o refused \in Seq(Letter) /\ Len(deadLetterQueue \o refused) = n + m
        /\ \A k \in 1..(n + m) : (deadLetterQueue \o refused)[k] =
               IF k <= n THEN deadLetterQueue[k] ELSE refused[k - n]
    <3>1. deadLetterQueue \in Seq(Letter) /\ refused \in Seq(Letter)
      BY <1>1, <1>3
    <3>2. /\ deadLetterQueue \o refused \in Seq(Letter)
          /\ Len(deadLetterQueue \o refused) = n + Len(refused)
          /\ \A k \in 1..(n + Len(refused)) : (deadLetterQueue \o refused)[k] =
                 IF k <= n THEN deadLetterQueue[k] ELSE refused[k - n]
      BY <3>1, ConcatProperties
    <3>3. Len(refused) = m
      BY <1>3
    <3> QED
      BY <3>2, <3>3
  <2>2. /\ \A k \in 1..n : k \in 1..(n + m) /\ k <= n
        /\ \A k \in (n + 1)..(n + m) : k \in 1..(n + m) /\ ~(k <= n)
    <3> HIDE DEF n
    <3> QED
      BY <1>1, <1>2
  <2> QED
    BY <1>4, <2>1, <2>2
<1>6. DOMAIN deadLetterQueue' = 1..(n + m)
  BY <1>5, LenProperties
<1> HIDE DEF n
<1>7. \A k \in (n + 1)..(n + m) : k - n \in 1..m /\ deadLetterQueue'[k] = ToLetter(r, from + (k - n) - 1)
  <2> SUFFICES ASSUME NEW k \in (n + 1)..(n + m)
               PROVE  k - n \in 1..m /\ deadLetterQueue'[k] = ToLetter(r, from + (k - n) - 1)
    OBVIOUS
  <2>1. k - n \in 1..m
    BY <1>1, <1>2
  <2> QED
    BY <1>3, <1>5, <2>1
<1>8. \A k \in 1..(n + m) : k \in 1..n \/ k \in (n + 1)..(n + m)
  BY <1>1, <1>2
<1>9. \A j \in Nat : j >= from => ToLetter(r, j) \notin Letters
  <2>1. RunAccounted(r) /\ Dealt(r) \in Nat
    BY RunFacts
  <2> QED
    BY <2>1 DEF RunAccounted
<1>10. \A k \in (n + 1)..(n + m) : deadLetterQueue'[k] \notin Letters
  <2> SUFFICES ASSUME NEW k \in (n + 1)..(n + m) PROVE deadLetterQueue'[k] \notin Letters
    OBVIOUS
  <2>1. k - n \in 1..m /\ deadLetterQueue'[k] = ToLetter(r, from + (k - n) - 1)
    BY <1>7
  <2>2. from + (k - n) - 1 \in Nat /\ from + (k - n) - 1 >= from
    BY <1>1, <1>2, <2>1
  <2> QED
    BY <1>9, <2>1, <2>2
<1>11. \A k \in 1..n : deadLetterQueue[k] \in Letters
  BY <1>1 DEF Letters, ToSet
<1>12. ASSUME NEW k \in 1..(n + m), NEW l \in 1..(n + m), deadLetterQueue'[k] = deadLetterQueue'[l] PROVE k = l
  <2>1. CASE k \in 1..n /\ l \in 1..n
    BY <1>1, <1>5, <1>12, <2>1
  <2>2. CASE k \in (n + 1)..(n + m) /\ l \in (n + 1)..(n + m)
    <3>1. ToLetter(r, from + (k - n) - 1) = ToLetter(r, from + (l - n) - 1)
      BY <1>7, <1>12, <2>2
    <3>2. from + (k - n) - 1 = from + (l - n) - 1
      BY <3>1 DEF ToLetter
    <3> QED
      BY <1>1, <2>2, <3>2
  <2>3. CASE k \in 1..n /\ l \in (n + 1)..(n + m)
    BY <1>5, <1>10, <1>11, <1>12, <2>3
  <2>4. CASE l \in 1..n /\ k \in (n + 1)..(n + m)
    BY <1>5, <1>10, <1>11, <1>12, <2>4
  <2> QED
    BY <1>8, <2>1, <2>2, <2>3, <2>4
<1>13. ASSUME NEW k \in 1..(n + m) PROVE deadLetterQueue'[k] \notin drained
  <2>1. CASE k \in 1..n
    BY <1>1, <1>5, <2>1
  <2>2. CASE k \in (n + 1)..(n + m)
    BY <1>10, <2>2 DEF Letters
  <2> QED
    BY <1>8, <2>1, <2>2
<1>14. LettersOK'
  <2>1. 1..Len(deadLetterQueue') = 1..(n + m) /\ drained' \subseteq Letter
    BY <1>1, <1>5
  <2>2. \A k, l \in 1..(n + m) : deadLetterQueue'[k] = deadLetterQueue'[l] => k = l
    BY <1>12
  <2>3. \A k \in 1..(n + m) : deadLetterQueue'[k] \notin drained'
    BY <1>13
  <2> QED
    BY <1>5, <2>1, <2>2, <2>3 DEF LettersOK
<1>15. ASSUME NEW b \in Runs, NEW i \in Nat
       PROVE  ToLetter(b, i) \in Letters' <=> (ToLetter(b, i) \in Letters \/ (b = r /\ i \in from..(next - 1)))
  <2>1. ASSUME ToLetter(b, i) \in Letters' PROVE ToLetter(b, i) \in Letters \/ (b = r /\ i \in from..(next - 1))
    <3>1. CASE ToLetter(b, i) \in drained
      BY <3>1 DEF Letters
    <3>2. CASE \E k \in 1..(n + m) : ToLetter(b, i) = deadLetterQueue'[k]
      <4>1. PICK k \in 1..(n + m) : ToLetter(b, i) = deadLetterQueue'[k]
        BY <3>2
      <4>2. CASE k \in 1..n
        BY <1>5, <1>11, <4>1, <4>2
      <4>3. CASE k \in (n + 1)..(n + m)
        <5>1. ToLetter(b, i) = ToLetter(r, from + (k - n) - 1) /\ k - n \in 1..m
          BY <1>7, <4>1, <4>3
        <5>2. b = r /\ i = from + (k - n) - 1
          BY <5>1 DEF ToLetter
        <5> QED
          BY <1>2, <5>1, <5>2
      <4> QED
        BY <1>8, <4>2, <4>3
    <3> QED
      BY <1>6, <2>1, <3>1, <3>2 DEF Letters, ToSet
  <2>2. ASSUME ToLetter(b, i) \in Letters PROVE ToLetter(b, i) \in Letters'
    <3>1. CASE ToLetter(b, i) \in drained
      BY <3>1 DEF Letters
    <3>2. CASE \E k \in 1..n : ToLetter(b, i) = deadLetterQueue[k]
      <4>1. PICK k \in 1..n : ToLetter(b, i) = deadLetterQueue[k]
        BY <3>2
      <4>2. k \in 1..(n + m) /\ deadLetterQueue'[k] = ToLetter(b, i)
        BY <1>1, <1>2, <1>5, <4>1
      <4> QED
        BY <1>6, <4>2 DEF Letters, ToSet
    <3> QED
      BY <1>1, <2>2, <3>1, <3>2 DEF Letters, ToSet
  <2>3. ASSUME b = r, i \in from..(next - 1) PROVE ToLetter(b, i) \in Letters'
    <3> DEFINE k == n + (i - from) + 1
    <3>1. k \in (n + 1)..(n + m) /\ k \in 1..(n + m) /\ from + (k - n) - 1 = i
      BY <1>1, <1>2, <2>3 DEF m
    <3>2. deadLetterQueue'[k] = ToLetter(b, i)
      <4> HIDE DEF k
      <4> QED
        BY <1>7, <2>3, <3>1
    <3> HIDE DEF k
    <3> QED
      BY <1>6, <3>1, <3>2 DEF Letters, ToSet
  <2> QED
    BY <2>1, <2>2, <2>3
<1> QED
  BY <1>14, <1>15

\* The records from one on, up to the next that is published, of a run whose raw
\* records may just have arrived.
LEMMA ProceedKeeps ==
    ASSUME RunsOK, NEW r \in Runs, run[r].phase \in {"polling", "publishing"},
           NEW raw \in Seq(RawRecords), NEW from \in 1..(Len(raw) + 1), NEW published \in Seq(Nat),
           Proceed(r, raw, from, published), drained' = drained, Dealt(r) < from,
           \A i \in 1..Dealt(r) : raw[i] = run[r].raw[i],
           \A i \in (Dealt(r) + 1)..(from - 1) : Normalizes(raw[i]),
           ToSet(published) = {i \in 1..(from - 1) : Normalizes(raw[i])},
           billingTopic \subseteq billingTopic',
           \A e \in billingTopic' \ billingTopic : \E i \in 1..(from - 1) :
               Normalizes(raw[i]) /\ e = [of |-> r, at |-> i, event |-> Normalized(raw[i])],
           \A i \in 1..(from - 1) : Normalizes(raw[i]) =>
               [of |-> r, at |-> i, event |-> Normalized(raw[i])] \in billingTopic'
    PROVE  RunsOK'
<1>1. Len(raw) \in Nat /\ Dealt(r) \in Nat /\ from \in Nat \ {0} /\ from - 1 \in 0..Len(raw)
  <2>1. Len(raw) \in Nat
    BY LenProperties
  <2>2. Dealt(r) \in Nat
    BY RunFacts
  <2>3. from \in Nat \ {0} /\ from - 1 \in 0..Len(raw)
    BY <2>1
  <2> QED
    BY <2>1, <2>2, <2>3
<1>2. PICK next \in from..(Len(raw) + 1) :
          /\ next = NextToPublish(raw, from)
          /\ next = Len(raw) + 1 \/ Normalizes(raw[next])
          /\ \A j \in from..(next - 1) : ~Normalizes(raw[j])
  BY <1>1, NextIs
<1>3. next \in Nat /\ from <= next /\ next \in 1..(Len(raw) + 1) /\ next # 0
  BY <1>1, <1>2
<1>4. PICK phase \in {"done", "publishing"} :
          /\ run' = [run EXCEPT ![r] = [phase |-> phase, polled |-> Len(Providers), raw |-> raw,
                                        at |-> next, published |-> published]]
          /\ phase = "publishing" => next <= Len(raw)
  <2>1. run' = [run EXCEPT ![r] = [phase |-> IF next > Len(raw) THEN "done" ELSE "publishing",
                       polled |-> Len(Providers), raw |-> raw, at |-> next, published |-> published]]
    BY <1>2 DEF Proceed
  <2>2. CASE next > Len(raw)
    BY <2>1, <2>2
  <2>3. CASE ~(next > Len(raw))
    BY <1>1, <1>3, <2>1, <2>3
  <2> QED
    BY <2>2, <2>3
<1>5. deadLetterQueue' = deadLetterQueue \o [i \in 1..(next - from) |-> [of |-> r, at |-> from + i - 1]]
  BY <1>2 DEF Proceed
<1>6. /\ LettersOK'
      /\ \A b \in Runs, i \in Nat : ToLetter(b, i) \in Letters' <=>
             (ToLetter(b, i) \in Letters \/ (b = r /\ i \in from..(next - 1)))
  BY <1>1, <1>3, <1>5, RefusedIs
<1>7. /\ run'[r] = [phase |-> phase, polled |-> Len(Providers), raw |-> raw, at |-> next, published |-> published]
      /\ DOMAIN run' = Runs /\ \A b \in Runs \ {r} : run'[b] = run[b]
  BY <1>4, RunFacts
<1>8. RunOK(r)'
  <2>1. phase = "publishing" => next <= Len(raw) /\ Normalizes(raw[next])
    <3>1. next <= Len(raw) => next # Len(raw) + 1
      BY <1>1, <1>3
    <3> QED
      BY <1>2, <1>4, <3>1
  <2>2. Len(Providers) \in Nat
    BY IngestionAssumption
  <2> QED
    BY <1>3, <1>7, <2>1, <2>2 DEF RunOK
<1>9. Dealt(r)' = next - 1
  BY <1>3, <1>7 DEF Dealt
<1>10. \A i \in 1..(next - 1) : \/ i \in 1..Dealt(r)
                                \/ i \in (Dealt(r) + 1)..(from - 1)
                                \/ i \in from..(next - 1)
  BY <1>1, <1>3
<1>11. /\ \A i \in 1..(from - 1) : i \in 1..(next - 1)
       /\ \A i \in from..(next - 1) : i \in 1..(next - 1)
       /\ \A i \in 1..Dealt(r) : i \in 1..(from - 1)
  BY <1>1, <1>3
<1>12. RunAccounted(r)
  BY RunFacts
<1>13. ASSUME NEW i \in Nat
       PROVE  ToLetter(r, i) \in Letters' <=> (i \in 1..(next - 1) /\ ~Normalizes(raw[i]))
  <2>1. ToLetter(r, i) \in Letters <=> (i \in 1..Dealt(r) /\ ~Normalizes(raw[i]))
    BY <1>12 DEF RunAccounted
  <2>2. ToLetter(r, i) \in Letters' <=> (ToLetter(r, i) \in Letters \/ i \in from..(next - 1))
    BY <1>6
  <2> QED
    BY <1>2, <1>10, <1>11, <2>1, <2>2
<1>14. ToSet(published) = {i \in 1..(next - 1) : Normalizes(raw[i])}
  <2>1. \A i \in 1..(next - 1) : i \in 1..(from - 1) \/ i \in from..(next - 1)
    BY <1>1, <1>3
  <2> QED
    BY <1>2, <1>11, <2>1
<1>15. ASSUME NEW i \in 1..(next - 1), Normalizes(raw[i])
       PROVE  [of |-> r, at |-> i, event |-> Normalized(raw[i])] \in billingTopic'
  <2>1. i \in 1..(from - 1) \/ i \in from..(next - 1)
    BY <1>1, <1>3
  <2> QED
    BY <1>2, <1>15, <2>1
<1>16. \A i : TopicEvent(r, i)' = [of |-> r, at |-> i, event |-> Normalized(raw[i])]
  BY <1>7 DEF TopicEvent
<1>17. RunAccounted(r)'
  BY <1>7, <1>9, <1>13, <1>14, <1>15, <1>16 DEF RunAccounted
<1>18. ASSUME NEW e \in billingTopic' PROVE EventOK(e)' \/ (e \in billingTopic /\ e.of # r)
  <2>1. ASSUME NEW i \in 1..(from - 1), Normalizes(raw[i]), e = [of |-> r, at |-> i, event |-> Normalized(raw[i])]
        PROVE  EventOK(e)'
    <3>1. e.of = r /\ e.at = i /\ i \in 1..Len(raw) /\ i < next
      BY <1>1, <1>3, <2>1
    <3> QED
      BY <1>7, <1>16, <2>1, <3>1 DEF EventOK
  <2>2. CASE e \notin billingTopic
    BY <2>1, <2>2
  <2>3. CASE e \in billingTopic /\ e.of = r
    <3>1. EventOK(e)
      BY <2>3 DEF RunsOK
    <3>2. /\ e.at \in 1..Len(run[r].raw) /\ e = TopicEvent(r, e.at) /\ Normalizes(run[r].raw[e.at])
          /\ e.at < run[r].at
      BY <2>3, <3>1 DEF EventOK
    <3>3. run[r].at \in Nat /\ Len(run[r].raw) \in Nat /\ (run[r].at # 0 => Dealt(r) = run[r].at - 1)
      BY RunFacts DEF Dealt
    <3>4. e.at \in 1..Dealt(r)
      BY <3>2, <3>3
    <3>5. e = [of |-> r, at |-> e.at, event |-> Normalized(raw[e.at])] /\ Normalizes(raw[e.at])
      BY <3>2, <3>4 DEF TopicEvent
    <3> QED
      BY <1>11, <2>1, <3>4, <3>5
  <2> QED
    BY <2>2, <2>3
<1>19. \A b \in Runs \ {r}, i \in Nat : ToLetter(b, i) \in Letters' <=> ToLetter(b, i) \in Letters
  BY <1>6
<1> QED
  BY <1>6, <1>7, <1>8, <1>17, <1>18, <1>19, OneRun

\* A poll returns: the run goes on polling, or has all its records.
LEMMA PollKeeps ==
    ASSUME RunsOK, NEW r \in Runs, NEW given \in SUBSET (Answers \cup {<<>>}), PollReturns(r, given)
    PROVE  RunsOK'
<1> DEFINE p == Providers[run[r].polled + 1]
<1>1. run[r].phase = "polling" /\ UNCHANGED <<tick, drained, billingTopic>>
  BY DEF PollReturns
<1>2. /\ run[r].at = 0 /\ Dealt(r) = 0 /\ run[r].polled \in Nat /\ run[r].polled < Len(Providers)
      /\ run[r].raw \in Seq(RawRecords) /\ run[r].published = <<>>
  BY <1>1, RunFacts DEF RunOK
<1>3. p \in ToSet(Providers)
  <2>1. run[r].polled + 1 \in 1..Len(Providers)
    BY <1>2, IngestionAssumption
  <2> QED
    BY <2>1, IngestionAssumption DEF ToSet
<1>4. PICK answer \in given, ok \in BOOLEAN :
          LET raw == IF ok THEN run[r].raw \o [i \in DOMAIN answer |-> RawRecord(p, answer[i])]
                           ELSE run[r].raw
          IN  \/ run[r].polled + 1 = Len(Providers) /\ Proceed(r, raw, 1, <<>>)
              \/ /\ run[r].polled + 1 < Len(Providers)
                 /\ run' = [run EXCEPT ![r].polled = @ + 1, ![r].raw = raw]
                 /\ UNCHANGED deadLetterQueue
  BY DEF PollReturns
<1>5. PICK raw \in Seq(RawRecords) :
          \/ run[r].polled + 1 = Len(Providers) /\ Proceed(r, raw, 1, <<>>)
          \/ /\ run[r].polled + 1 < Len(Providers)
             /\ run' = [run EXCEPT ![r].polled = @ + 1, ![r].raw = raw]
             /\ UNCHANGED deadLetterQueue
  <2> DEFINE more == [i \in DOMAIN answer |-> RawRecord(p, answer[i])]
             all == IF ok THEN run[r].raw \o more ELSE run[r].raw
  <2>1. more \in Seq(RawRecords)
    <3>1. answer \in Answers \cup {<<>>}
      OBVIOUS
    <3> HIDE DEF p
    <3> QED
      BY <1>3, <3>1, AnswerIs
  <2>2. all \in Seq(RawRecords)
    <3> HIDE DEF more
    <3> QED
      BY <1>2, <2>1, ConcatProperties
  <2> QED
    BY <1>4, <2>2
<1>6. \A e \in billingTopic : e.of # r
  BY <1>2, NoEvents
<1>7. CASE run[r].polled + 1 = Len(Providers) /\ Proceed(r, raw, 1, <<>>)
  <2>1. 1 \in 1..(Len(raw) + 1) /\ Len(raw) \in Nat
    BY LenProperties
  <2>2. 1..(1 - 1) = {} /\ 1..Dealt(r) = {} /\ (Dealt(r) + 1)..(1 - 1) = {} /\ Dealt(r) < 1
    BY <1>2
  <2>3. ToSet(<<>>) = {} /\ <<>> \in Seq(Nat)
    BY DEF ToSet
  <2>4. run[r].phase \in {"polling", "publishing"} /\ drained' = drained /\ billingTopic' = billingTopic
    BY <1>1
  <2>5. Proceed(r, raw, 1, <<>>)
    BY <1>7
  <2> QED
    BY <2>1, <2>2, <2>3, <2>4, <2>5, ProceedKeeps
<1>8. CASE /\ run[r].polled + 1 < Len(Providers)
           /\ run' = [run EXCEPT ![r].polled = @ + 1, ![r].raw = raw]
           /\ UNCHANGED deadLetterQueue
  <2>1. /\ DOMAIN run' = Runs /\ \A b \in Runs \ {r} : run'[b] = run[b]
        /\ run'[r] = [[run[r] EXCEPT !.polled = @ + 1] EXCEPT !.raw = raw]
    BY <1>8, RunFacts
  <2>2. run'[r] = [phase |-> "polling", polled |-> run[r].polled + 1, raw |-> raw, at |-> 0, published |-> <<>>]
    <3>1. run[r] = [phase |-> "polling", polled |-> run[r].polled, raw |-> run[r].raw, at |-> 0, published |-> <<>>]
      BY <1>1, <1>2, RunFacts
    <3>2. [run[r] EXCEPT !.polled = @ + 1] =
              [phase |-> "polling", polled |-> run[r].polled + 1, raw |-> run[r].raw, at |-> 0, published |-> <<>>]
      BY <3>1
    <3> QED
      BY <2>1, <3>2
  <2>3. <<>> \in Seq(Nat)
    OBVIOUS
  <2>4. RunOK(r)'
    <3>1. run[r].polled + 1 \in Nat /\ run[r].polled + 1 < Len(Providers)
      BY <1>2, <1>8
    <3> QED
      BY <2>2, <2>3, <3>1 DEF RunOK
  <2> QED
    BY <1>1, <1>2, <1>6, <1>8, <2>1, <2>2, <2>4, StillPolls
<1> QED
  BY <1>5, <1>7, <1>8

LEMMA PublishKeeps ==
    ASSUME RunsOK, NEW r \in Runs, PublishReturns(r)
    PROVE  RunsOK'
<1> DEFINE raw == run[r].raw
           at == run[r].at
           published == Append(run[r].published, at)
<1>1. /\ run[r].phase = "publishing" /\ billingTopic' = billingTopic \cup {Stored(r)}
      /\ Proceed(r, raw, at + 1, published) /\ drained' = drained
  BY DEF PublishReturns
<1>2. /\ raw \in Seq(RawRecords) /\ Len(raw) \in Nat /\ at \in 1..(Len(raw) + 1) /\ Dealt(r) = at - 1
      /\ at <= Len(raw) /\ Normalizes(raw[at]) /\ run[r].published \in Seq(Nat) /\ RunAccounted(r)
  BY <1>1, RunFacts DEF RunOK
<1>3. Stored(r) = [of |-> r, at |-> at, event |-> Normalized(raw[at])]
  BY DEF Stored
<1> HIDE DEF raw, at
<1>4. /\ at \in Nat /\ at + 1 \in 1..(Len(raw) + 1) /\ Dealt(r) < at + 1 /\ (at + 1) - 1 = at
      /\ 1..Dealt(r) = 1..(at - 1) /\ (Dealt(r) + 1)..((at + 1) - 1) = {at}
      /\ \A i \in 1..at : i = at \/ i \in 1..(at - 1)
      /\ \A i \in 1..(at - 1) : i \in 1..at
      /\ at \in 1..at
  BY <1>2
<1>5. published \in Seq(Nat) /\ ToSet(published) = ToSet(run[r].published) \cup {at}
  <2>1. /\ published \in Seq(Nat) /\ Len(run[r].published) \in Nat /\ Len(published) = Len(run[r].published) + 1
        /\ \A i \in 1..Len(run[r].published) : published[i] = run[r].published[i]
        /\ published[Len(run[r].published) + 1] = at
    BY <1>2, <1>4, AppendIs
  <2>2. DOMAIN published = 1..(Len(run[r].published) + 1) /\ DOMAIN run[r].published = 1..Len(run[r].published)
    BY <1>2, <2>1, LenProperties
  <2>3. 1..(Len(run[r].published) + 1) = (1..Len(run[r].published)) \cup {Len(run[r].published) + 1}
    BY <2>1
  <2> HIDE DEF published
  <2>4. ToSet(published) = {published[i] : i \in (1..Len(run[r].published)) \cup {Len(run[r].published) + 1}}
    BY <2>2, <2>3 DEF ToSet
  <2>5. ToSet(run[r].published) = {run[r].published[i] : i \in 1..Len(run[r].published)}
    BY <2>2 DEF ToSet
  <2>6. ToSet(published) = ToSet(run[r].published) \cup {at}
    BY <2>1, <2>4, <2>5
  <2> QED
    BY <2>1, <2>6
<1> HIDE DEF published
<1>6. ToSet(published) = {i \in 1..((at + 1) - 1) : Normalizes(raw[i])}
  <2>1. ToSet(run[r].published) = {i \in 1..(at - 1) : Normalizes(raw[i])}
    BY <1>2 DEF RunAccounted, raw
  <2> QED
    BY <1>2, <1>4, <1>5, <2>1
<1>7. \A i \in 1..((at + 1) - 1) : Normalizes(raw[i]) =>
          [of |-> r, at |-> i, event |-> Normalized(raw[i])] \in billingTopic'
  <2>1. \A i \in 1..(at - 1) : Normalizes(raw[i]) =>
            [of |-> r, at |-> i, event |-> Normalized(raw[i])] \in billingTopic
    BY <1>2, <1>4 DEF RunAccounted, TopicEvent, raw
  <2> QED
    BY <1>1, <1>3, <1>4, <2>1
<1>8. \A e \in billingTopic' \ billingTopic : \E i \in 1..((at + 1) - 1) :
          Normalizes(raw[i]) /\ e = [of |-> r, at |-> i, event |-> Normalized(raw[i])]
  BY <1>1, <1>2, <1>3, <1>4
<1>9. /\ \A i \in (Dealt(r) + 1)..((at + 1) - 1) : Normalizes(raw[i])
      /\ \A i \in 1..Dealt(r) : raw[i] = run[r].raw[i]
      /\ billingTopic \subseteq billingTopic' /\ run[r].phase \in {"polling", "publishing"}
  BY <1>1, <1>2, <1>4 DEF raw
<1>10. raw \in Seq(RawRecords) /\ drained' = drained /\ Proceed(r, raw, at + 1, published)
  BY <1>1, <1>2
<1>11. at + 1 \in 1..(Len(raw) + 1) /\ Dealt(r) < at + 1 /\ published \in Seq(Nat)
  BY <1>4, <1>5
<1> QED
  BY <1>6, <1>7, <1>8, <1>9, <1>10, <1>11, ProceedKeeps

LEMMA RejectionKeeps ==
    ASSUME RunsOK, NEW r \in Runs, PublishRejects(r)
    PROVE  RunsOK'
<1>1. /\ run[r].phase = "publishing" /\ run' = [run EXCEPT ![r].phase = "failed"]
      /\ billingTopic' = billingTopic \/ billingTopic' = billingTopic \cup {Stored(r)}
      /\ UNCHANGED <<deadLetterQueue, drained>>
  BY DEF PublishRejects
<1>2. /\ run[r].raw \in Seq(RawRecords) /\ Len(run[r].raw) \in Nat /\ run[r].at \in 1..(Len(run[r].raw) + 1)
      /\ run[r].at <= Len(run[r].raw) /\ Normalizes(run[r].raw[run[r].at]) /\ RunOK(r) /\ RunAccounted(r)
      /\ LettersOK /\ DOMAIN run = Runs
  BY <1>1, RunFacts DEF RunOK
<1>3. /\ DOMAIN run' = Runs /\ \A b \in Runs \ {r} : run'[b] = run[b]
      /\ run'[r] = [phase |-> "failed", polled |-> run[r].polled, raw |-> run[r].raw,
                    at |-> run[r].at, published |-> run[r].published]
  <2>1. /\ DOMAIN run' = Runs /\ \A b \in Runs \ {r} : run'[b] = run[b]
        /\ run'[r] = [run[r] EXCEPT !.phase = "failed"]
    BY <1>1, <1>2
  <2>2. run[r] = [phase |-> run[r].phase, polled |-> run[r].polled, raw |-> run[r].raw,
                  at |-> run[r].at, published |-> run[r].published]
    BY RunFacts
  <2>3. [run[r] EXCEPT !.phase = "failed"] =
            [phase |-> "failed", polled |-> run[r].polled, raw |-> run[r].raw,
             at |-> run[r].at, published |-> run[r].published]
    BY <2>2
  <2> QED
    BY <2>1, <2>3
<1>4. Letters' = Letters /\ LettersOK'
  BY <1>1, <1>2 DEF Letters, LettersOK
<1>5. Dealt(r)' = Dealt(r) /\ \A i : TopicEvent(r, i)' = TopicEvent(r, i)
  BY <1>3 DEF Dealt, TopicEvent
<1>6. RunOK(r)'
  BY <1>1, <1>2, <1>3 DEF RunOK
<1>7. billingTopic \subseteq billingTopic'
  BY <1>1
<1>8. RunAccounted(r)'
  BY <1>2, <1>3, <1>4, <1>5, <1>7 DEF RunAccounted
<1>9. Stored(r) = TopicEvent(r, run[r].at)
  BY DEF Stored, TopicEvent
<1>10. ASSUME NEW e \in billingTopic' PROVE EventOK(e)' \/ (e \in billingTopic /\ e.of # r)
  <2>1. CASE e \in billingTopic /\ e.of = r
    <3>1. /\ e.at \in 1..Len(run[r].raw) /\ e = TopicEvent(r, e.at) /\ Normalizes(run[r].raw[e.at])
          /\ e.at < run[r].at
      BY <1>1, <2>1 DEF RunsOK, EventOK
    <3> QED
      BY <1>3, <1>5, <2>1, <3>1 DEF EventOK
  <2>2. CASE e = Stored(r)
    <3>1. e.of = r /\ e.at = run[r].at /\ e = TopicEvent(r, e.at)
      BY <1>9, <2>2 DEF TopicEvent
    <3>2. e.at \in 1..Len(run[r].raw)
      BY <1>2, <3>1
    <3> QED
      BY <1>2, <1>3, <1>5, <3>1, <3>2 DEF EventOK
  <2> QED
    BY <1>1, <2>1, <2>2
<1> QED
  BY <1>3, <1>4, <1>6, <1>7, <1>8, <1>10, OneRun

\* Letters may be taken out of the queue, but none is lost.
LEMMA LettersMove ==
    ASSUME RunsOK, Letters' = Letters, LettersOK', UNCHANGED <<run, billingTopic>>
    PROVE  RunsOK'
<1>1. ASSUME NEW r \in Runs PROVE RunOK(r)' /\ RunAccounted(r)'
  <2>1. RunOK(r) /\ RunAccounted(r)
    BY DEF RunsOK
  <2>2. Dealt(r)' = Dealt(r) /\ \A i : TopicEvent(r, i)' = TopicEvent(r, i)
    BY DEF Dealt, TopicEvent
  <2> QED
    BY <2>1, <2>2 DEF RunOK, RunAccounted
<1>2. ASSUME NEW e \in billingTopic PROVE EventOK(e)'
  <2>1. EventOK(e)
    BY DEF RunsOK
  <2>2. TopicEvent(e.of, e.at)' = TopicEvent(e.of, e.at)
    BY DEF TopicEvent
  <2> QED
    BY <2>1, <2>2 DEF EventOK
<1> QED
  BY <1>1, <1>2 DEF RunsOK

LEMMA DrainKeeps == RunsOK /\ DrainDeadLetterQueue => RunsOK'
<1> SUFFICES ASSUME RunsOK, DrainDeadLetterQueue PROVE RunsOK'
  OBVIOUS
<1>1. /\ drained' = drained \cup ToSet(deadLetterQueue) /\ deadLetterQueue' = <<>>
      /\ UNCHANGED <<run, billingTopic>>
  BY DEF DrainDeadLetterQueue
<1>2. ToSet(<<>>) = {} /\ <<>> \in Seq(Letter) /\ Len(<<>>) = 0
  BY DEF ToSet
<1>3. Letters' = Letters
  BY <1>1, <1>2 DEF Letters
<1>4. ToSet(deadLetterQueue) \subseteq Letter /\ drained \subseteq Letter
  <2>1. deadLetterQueue \in Seq(Letter) /\ drained \subseteq Letter
    BY DEF RunsOK, LettersOK
  <2>2. \A k \in DOMAIN deadLetterQueue : deadLetterQueue[k] \in Letter
    BY <2>1, LenProperties, ElementOfSeq
  <2> QED
    BY <2>1, <2>2 DEF ToSet
<1>5. LettersOK'
  BY <1>1, <1>2, <1>4 DEF LettersOK
<1> QED
  BY <1>1, <1>3, <1>5, LettersMove

-----------------------------------------------------------------------------
IngestStrong == ConnectorsOK /\ RunsOK

LEMMA IngestInitial == IngestInit => IngestStrong
  BY ConnectorsInitial, RunsInitial DEF IngestStrong

LEMMA IngestStep == IngestStrong /\ [IngestNext]_ingestVars => IngestStrong'
<1> SUFFICES ASSUME IngestStrong, [IngestNext]_ingestVars PROVE IngestStrong'
  OBVIOUS
<1>1. ConnectorsOK /\ RunsOK
  BY DEF IngestStrong
<1>2. ASSUME UNCHANGED <<tick, connector, answeredAt, failureEvent>> PROVE ConnectorsOK'
  <2>1. \A p \in ToSet(Providers) : ConnectorOK(p)'
    BY <1>1, <1>2 DEF ConnectorsOK, ConnectorOK
  <2> QED
    BY <1>1, <1>2, <2>1 DEF ConnectorsOK, UnreachableIsTrue
<1>3. ASSUME UNCHANGED <<run, deadLetterQueue, drained, billingTopic>> PROVE RunsOK'
  <2>1. Letters' = Letters /\ LettersOK'
    BY <1>1, <1>3 DEF RunsOK, Letters, LettersOK
  <2> QED
    BY <1>1, <1>3, <2>1, LettersMove
<1>4. ASSUME NEW r \in Runs, NEW given \in SUBSET (Answers \cup {<<>>}), PollReturns(r, given)
      PROVE  IngestStrong'
  <2>1. Providers[run[r].polled + 1] \in ToSet(Providers)
    <3>1. run[r].phase = "polling"
      BY <1>4 DEF PollReturns
    <3>2. run[r].polled \in Nat /\ run[r].polled < Len(Providers)
      BY <1>1, <3>1, RunFacts DEF RunOK
    <3>3. run[r].polled + 1 \in 1..Len(Providers)
      BY <3>2, IngestionAssumption
    <3> QED
      BY <3>3, IngestionAssumption DEF ToSet
  <2>2. PollSuccess(Providers[run[r].polled + 1]) \/ PollFailure(Providers[run[r].polled + 1])
    BY <1>4 DEF PollReturns
  <2>3. tick' = tick
    BY <1>4 DEF PollReturns
  <2>4. ConnectorsOK'
    BY <1>1, <2>1, <2>2, <2>3, SuccessKeeps, FailureKeeps
  <2> QED
    BY <1>1, <1>4, <2>4, PollKeeps DEF IngestStrong
<1>5. ASSUME NEW r \in Runs, BeginRun(r) \/ RunAgain(r) PROVE IngestStrong'
  BY <1>1, <1>2, <1>5, BeginKeeps DEF IngestStrong, BeginRun, RunAgain
<1>6. ASSUME NEW r \in Runs, PublishReturns(r) PROVE IngestStrong'
  BY <1>1, <1>2, <1>6, PublishKeeps DEF IngestStrong, PublishReturns
<1>7. ASSUME NEW r \in Runs, PublishRejects(r) PROVE IngestStrong'
  BY <1>1, <1>2, <1>7, RejectionKeeps DEF IngestStrong, PublishRejects
<1>8. CASE DrainDeadLetterQueue
  BY <1>1, <1>2, <1>8, DrainKeeps DEF IngestStrong, DrainDeadLetterQueue
<1>9. CASE PassTick
  BY <1>1, <1>3, <1>9, TickKeeps DEF IngestStrong, PassTick
<1>10. CASE UNCHANGED ingestVars
  BY <1>1, <1>2, <1>3, <1>10 DEF IngestStrong, ingestVars
<1>11. {<<>>} \in SUBSET (Answers \cup {<<>>}) /\ Answers \in SUBSET (Answers \cup {<<>>})
  OBVIOUS
<1>12. CASE IngestPollNext
  BY <1>4, <1>5, <1>9, <1>11, <1>12 DEF IngestPollNext
<1>13. CASE IngestRecordNext
  BY <1>4, <1>5, <1>6, <1>7, <1>8, <1>11, <1>13 DEF IngestRecordNext
<1> QED
  BY <1>10, <1>12, <1>13 DEF IngestNext

LEMMA Accounted == RunsOK => EveryRecordIsAccounted
<1> SUFFICES ASSUME RunsOK, NEW r \in Runs, run[r].phase \in {"publishing", "done", "failed"},
                    NEW i \in DOMAIN run[r].raw, i < run[r].at
             PROVE  LET letters == {k \in DOMAIN deadLetterQueue :
                                        deadLetterQueue[k].of = r /\ deadLetterQueue[k].at = i}
                        dead == letters # {} \/ [of |-> r, at |-> i] \in drained
                    IN  /\ Cardinality(letters) <= 1 /\ (letters # {} => [of |-> r, at |-> i] \notin drained)
                        /\ dead <=> ~Normalizes(run[r].raw[i])
                        /\ dead <=> i \notin ToSet(run[r].published)
                        /\ ~dead <=> \E e \in billingTopic : e.of = r /\ e.at = i
  BY DEF EveryRecordIsAccounted
<1> DEFINE letters == {k \in DOMAIN deadLetterQueue : deadLetterQueue[k].of = r /\ deadLetterQueue[k].at = i}
           dead == letters # {} \/ [of |-> r, at |-> i] \in drained
<1>1. /\ deadLetterQueue \in Seq(Letter) /\ DOMAIN deadLetterQueue = 1..Len(deadLetterQueue)
      /\ \A k, l \in 1..Len(deadLetterQueue) : deadLetterQueue[k] = deadLetterQueue[l] => k = l
      /\ \A k \in 1..Len(deadLetterQueue) : deadLetterQueue[k] \notin drained /\ deadLetterQueue[k] \in Letter
  <2>1. LettersOK
    BY DEF RunsOK
  <2>2. deadLetterQueue \in Seq(Letter)
    BY <2>1 DEF LettersOK
  <2>3. \A k \in 1..Len(deadLetterQueue) : deadLetterQueue[k] \in Letter
    BY <2>2, ElementOfSeq
  <2> QED
    BY <2>1, <2>2, <2>3, LenProperties DEF LettersOK
<1>2. letters = {k \in DOMAIN deadLetterQueue : deadLetterQueue[k] = ToLetter(r, i)}
  BY <1>1 DEF Letter, ToLetter
<1>3. Cardinality(letters) <= 1
  <2>1. CASE letters = {}
    <3>1. Cardinality(letters) = 0
      BY <2>1, FS_EmptySet, Zenon
    <3> QED
      BY <3>1
  <2>2. CASE letters # {}
    <3>1. PICK k \in letters : TRUE
      BY <2>2
    <3>2. letters = {k}
      BY <1>1, <1>2, <3>1
    <3>3. Cardinality(letters) = 1
      BY <3>2, FS_Singleton
    <3> QED
      BY <3>3
  <2> QED
    BY <2>1, <2>2
<1>4. letters # {} => [of |-> r, at |-> i] \notin drained
  BY <1>1, <1>2 DEF ToLetter
<1>5. dead <=> ToLetter(r, i) \in Letters
  <2>1. letters # {} <=> ToLetter(r, i) \in ToSet(deadLetterQueue)
    BY <1>2 DEF ToSet
  <2> QED
    BY <2>1 DEF Letters, ToLetter
<1>6. /\ i \in Nat /\ i \in 1..Dealt(r) /\ RunAccounted(r) /\ Dealt(r) = run[r].at - 1
  <2>1. /\ DOMAIN run[r].raw = 1..Len(run[r].raw) /\ Len(run[r].raw) \in Nat /\ run[r].at \in Nat
        /\ Dealt(r) = run[r].at - 1 /\ RunAccounted(r)
    BY RunFacts, LenProperties
  <2> QED
    BY <2>1
<1> HIDE DEF dead, letters
<1>7. dead <=> ~Normalizes(run[r].raw[i])
  BY <1>5, <1>6 DEF RunAccounted
<1>8. dead <=> i \notin ToSet(run[r].published)
  BY <1>6, <1>7 DEF RunAccounted
<1>9. ~dead <=> \E e \in billingTopic : e.of = r /\ e.at = i
  <2>1. ASSUME ~dead PROVE \E e \in billingTopic : e.of = r /\ e.at = i
    <3>1. TopicEvent(r, i) \in billingTopic
      BY <1>6, <1>7, <2>1 DEF RunAccounted
    <3>2. TopicEvent(r, i).of = r /\ TopicEvent(r, i).at = i
      BY DEF TopicEvent
    <3> QED
      BY <3>1, <3>2
  <2>2. ASSUME NEW e \in billingTopic, e.of = r, e.at = i PROVE ~dead
    <3>1. Normalizes(run[r].raw[i])
      BY <2>2 DEF RunsOK, EventOK
    <3> QED
      BY <1>7, <3>1
  <2> QED
    BY <2>1, <2>2
<1> QED
  BY <1>3, <1>4, <1>7, <1>8, <1>9 DEF dead, letters

LEMMA Tagged == RunsOK => TopicIsTagged
<1> SUFFICES ASSUME RunsOK, NEW e \in billingTopic, NEW t \in IngestTags
             PROVE  t \in DOMAIN e.event.tags /\ e.event.tags[t] = "value"
  BY DEF TopicIsTagged
<1> DEFINE rec == run[e.of].raw[e.at]
<1>1. EventOK(e)
  BY DEF RunsOK
<1>2. e.event.tags = rec.tags /\ Normalizes(rec) /\ e.of \in Runs /\ e.at \in 1..Len(run[e.of].raw)
  BY <1>1 DEF EventOK, TopicEvent, Normalized
<1>3. rec \in RawRecords
  <2>1. run[e.of].raw \in Seq(RawRecords)
    BY <1>2, RunFacts
  <2> QED
    BY <1>2, <2>1, ElementOfSeq
<1> HIDE DEF rec
<1>4. t \in DOMAIN rec.tags /\ rec.tags[t] \notin {"", "blank"}
  BY <1>2 DEF Normalizes, IngestValid, IngestMissing
<1>5. rec.tags[t] \in Values
  BY <1>3, <1>4, RecordTags
<1> QED
  BY <1>2, <1>4, <1>5 DEF Values

LEMMA IngestImplies == IngestStrong => IngestInv
<1> SUFFICES ASSUME IngestStrong PROVE IngestInv
  OBVIOUS
<1>1. IngestTypeOK
  BY DEF IngestStrong, IngestTypeOK, ConnectorsOK, ConnectorOK, RunsOK, RunOK
<1>2. EveryRecordIsAccounted /\ TopicIsTagged
  BY Accounted, Tagged DEF IngestStrong
<1> QED
  BY <1>1, <1>2 DEF IngestInv, IngestStrong, ConnectorsOK
=============================================================================
