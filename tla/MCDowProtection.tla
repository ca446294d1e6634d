-------------------------- MODULE MCDowProtection --------------------------
(* Small instances of DowProtection.                                       *)
EXTENDS DowProtection, TLC

Symmetry == Permutations(Calls)
=============================================================================
