------------------------------ MODULE AuditLog ------------------------------
(***************************************************************************)
(* What the platform asks of the Liquid_Ledger, whichever way it is kept:  *)
(* an immutable log per tenant. An entry is added at the end, and nothing  *)
(* that was added is ever changed, moved or lost.                          *)
(***************************************************************************)
EXTENDS Sequences

CONSTANTS Tenants, Entries

VARIABLE log

Init == log = [t \in Tenants |-> <<>>]

Record(t, e) == log' = [log EXCEPT ![t] = Append(@, e)]

Next == \E t \in Tenants, e \in Entries : Record(t, e)

Spec == Init /\ [][Next]_log
=============================================================================
