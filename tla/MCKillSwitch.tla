---------------------------- MODULE MCKillSwitch ----------------------------
(* Small instances of KillSwitch. Tenants, agents and calls are only ever  *)
(* compared, so every permutation of them is a symmetry.                   *)
EXTENDS KillSwitch, TLC

Symmetry == Permutations(Tenants) \cup Permutations(Agents) \cup Permutations(Calls)
=============================================================================
