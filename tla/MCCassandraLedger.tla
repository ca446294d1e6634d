------------------------- MODULE MCCassandraLedger -------------------------
(* Small instances of CassandraLedger.                                     *)
EXTENDS CassandraLedger, TLC

Symmetry == Permutations(Entries)
=============================================================================
