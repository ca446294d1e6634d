--------------------------------- MODULE AP2 ---------------------------------
(***************************************************************************)
(* AP2Handler of src/src/protocols/ap2/handler.ts: the financial           *)
(* transactions of an agent under its spending mandate.                    *)
(*                                                                         *)
(* The handler keeps nothing. A transaction is a value, and each operation *)
(* returns a changed copy while every earlier copy stays with those who    *)
(* hold it, in memory or serialized. So the state is the set of all copies *)
(* there ever were, and an operation may be applied to any of them, in any *)
(* order and again. The clock is that of the processes involved: it may be *)
(* set back.                                                               *)
(***************************************************************************)
EXTENDS Integers, FiniteSets, FiniteSetsExt

CONSTANTS
    Transactions,   \* the calls of initiateTransaction() that are ever made
    Amounts,        \* amount_usd
    Limit,          \* max_amount_usd of the mandate
    ValidFrom,      \* valid_from and
    ValidUntil,     \* valid_until of the mandate, on the clock
    LastTick,       \* bound on the clock
    MaxCopies,      \* bound on the copies of a transaction
    Serial,         \* whether a transaction waits for the one before to be charged
    None            \* undefined

ASSUME NumbersAssumption ==
    /\ Amounts \subseteq Nat /\ Limit \in Nat /\ LastTick \in Nat /\ MaxCopies \in Nat
    /\ ValidFrom \in Int /\ ValidUntil \in Int
ASSUME SerialAssumption == Serial \in BOOLEAN
ASSUME NoneAssumption == None \notin 0..LastTick

VARIABLES
    clock,      \* new Date()
    spent,      \* cumulative_spent_usd of the mandate, which its owner keeps
    copies,     \* the copies of transactions that somebody holds
    outcome,    \* how the initiation of each transaction ended
    charged     \* the transactions that the owner of the mandate has added to it

vars == <<clock, spent, copies, outcome, charged>>

Ticks == 0..LastTick
Status == {"PENDING", "GOVERNOR_APPROVED", "GOVERNOR_REJECTED", "SUBMITTED"}
Errors == {"CredentialVerificationError", "SchemaValidationError", "MandateExceededError"}

Copy ==
    [id : Transactions, amount_usd : Amounts, approval : BOOLEAN, status : Status,
     validated : Ticks \cup {None}, submitted : Ticks \cup {None}]

CopiesOf(x) == {v \in copies : v.id = x}

Init ==
    /\ clock = 0
    /\ spent = 0
    /\ copies = {}
    /\ outcome = [x \in Transactions |-> "none"]
    /\ charged = {}

-----------------------------------------------------------------------------
(* validateMandate() and verifyCredential().                               *)
\* The limit holds for the sum of all transactions. Mutant: for each of them.
WithinLimitAlone(amount) == amount <= Limit
WithinLimit(amount) == amount <= Limit /\ spent + amount <= Limit

InWindow == ValidFrom <= clock /\ clock <= ValidUntil

\* A credential of the right form and context expires at some time, or never.
CredentialValid(formed, expires) == formed /\ IF expires = None THEN TRUE ELSE clock <= expires

-----------------------------------------------------------------------------
(* initiateTransaction(): the credential, then the mandate (`allowed`: it  *)
(* lists the type). Only the reason for an amount above the limit says     *)
(* "exceeds"; that for the sum says "would exceed" and is taken for a      *)
(* fault of the mandate, as is a mandate that is not well formed.          *)
Refuse(x, error) ==
    /\ outcome' = [outcome EXCEPT ![x] = error]
    /\ UNCHANGED <<clock, spent, copies, charged>>

\* The status of a new transaction. Mutant: it is submitted as it is.
AlwaysSubmitted(approval) == "SUBMITTED"
FirstStatus(approval) == IF approval THEN "PENDING" ELSE "SUBMITTED"

Create(x, amount, approval) ==
    /\ outcome' = [outcome EXCEPT ![x] = "created"]
    /\ copies' = copies \cup
           {[id |-> x, amount_usd |-> amount, approval |-> approval,
             status |-> FirstStatus(approval), validated |-> None, submitted |-> None]}
    /\ UNCHANGED <<clock, spent, charged>>

MayInitiate(x) ==
    /\ outcome[x] = "none"
    /\ Serial => \A y \in Transactions : outcome[y] = "created" => y \in charged

InitiateMalformed(x) ==
    /\ MayInitiate(x)
    /\ Refuse(x, "SchemaValidationError")

Initiate(x, amount, allowed, approval, formed, expires) ==
    /\ MayInitiate(x)
    /\ \/ /\ ~CredentialValid(formed, expires)
          /\ Refuse(x, "CredentialVerificationError")
       \/ /\ CredentialValid(formed, expires)
          /\ InWindow /\ allowed => amount <= Limit /\ ~WithinLimit(amount)
          /\ Refuse(x, "SchemaValidationError")
       \/ /\ CredentialValid(formed, expires) /\ InWindow /\ allowed
          /\ amount > Limit
          /\ Refuse(x, "MandateExceededError")
       \/ /\ CredentialValid(formed, expires) /\ InWindow /\ allowed
          /\ WithinLimit(amount)
          /\ Create(x, amount, approval)

-----------------------------------------------------------------------------
\* Every operation returns a copy of its argument with other fields. Mutant:
\* the copy gets a transaction_id of its own.
AddRenamed(v) ==
    /\ \E x \in Transactions \ {v.id} : copies' = copies \cup {[v EXCEPT !.id = x]}
    /\ UNCHANGED <<clock, spent, outcome, charged>>
Add(v) ==
    /\ Cardinality(CopiesOf(v.id)) < MaxCopies
    /\ copies' = copies \cup {v}
    /\ UNCHANGED <<clock, spent, outcome, charged>>

\* applyGovernorApproval() looks at no status.
ApplyGovernorApproval(v, valid) ==
    Add([v EXCEPT !.status = IF valid THEN "GOVERNOR_APPROVED" ELSE "GOVERNOR_REJECTED",
                  !.validated = clock])

\* The check of the timestamps in submitTransaction(). Mutant: there is none.
AnyOrder(v) == TRUE
InOrder(v) == IF v.validated = None THEN TRUE ELSE v.validated <= clock

SubmitTransaction(v) ==
    /\ v.approval => v.status = "GOVERNOR_APPROVED"
    /\ InOrder(v)
    /\ Add([v EXCEPT !.status = "SUBMITTED", !.submitted = clock])

-----------------------------------------------------------------------------
\* The owner of the mandate adds a submitted transaction to its running total.
Charge(v) ==
    /\ v.status = "SUBMITTED"
    /\ v.id \notin charged
    /\ spent' = spent + v.amount_usd
    /\ charged' = charged \cup {v.id}
    /\ UNCHANGED <<clock, copies, outcome>>

SetClock(n) ==
    /\ n # clock
    /\ clock' = n
    /\ UNCHANGED <<spent, copies, outcome, charged>>

Next ==
    \/ \E x \in Transactions : InitiateMalformed(x)
    \/ \E x \in Transactions, amount \in Amounts, allowed, approval, formed \in BOOLEAN,
          expires \in Ticks \cup {None} :
           Initiate(x, amount, allowed, approval, formed, expires)
    \/ \E v \in copies : \/ \E valid \in BOOLEAN : ApplyGovernorApproval(v, valid)
                         \/ SubmitTransaction(v)
                         \/ Charge(v)
    \/ \E n \in Ticks : SetClock(n)

Spec == Init /\ [][Next]_vars

-----------------------------------------------------------------------------
TypeOK ==
    /\ clock \in Ticks
    /\ spent \in Nat
    /\ copies \subseteq Copy
    /\ outcome \in [Transactions -> {"none", "created"} \cup Errors]
    /\ \A x \in Transactions : outcome[x] = "created" <=> CopiesOf(x) # {}
    /\ charged \subseteq Transactions

(* Property 19 of the design, for mandates that ask for the governor: a    *)
(* submitted transaction carries the timestamp of an approval that was     *)
(* given before, although copies are approved, rejected and submitted in   *)
(* any order and clocks are set back.                                      *)
ApprovalPrecedesSubmission ==
    \A v \in copies : (v.status = "SUBMITTED" /\ v.approval) =>
        /\ v.validated # None /\ v.submitted # None
        /\ v.validated <= v.submitted
        /\ \E w \in CopiesOf(v.id) :
               w.status = "GOVERNOR_APPROVED" /\ w.validated = v.validated

(* When the owner of the mandate charges each transaction before the next  *)
(* is initiated, all the transactions together stay within the limit.      *)
(* Without that they do not, for the handler itself counts nothing.        *)
TotalIsWithinLimit ==
    Serial => MapThenSumSet(LAMBDA x : Max({v.amount_usd : v \in CopiesOf(x)}),
                            {x \in Transactions : CopiesOf(x) # {}}) <= Limit
=============================================================================
