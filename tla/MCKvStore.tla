------------------------------ MODULE MCKvStore ------------------------------
(* Small instances of one shard's store for TLC.                             *)
EXTENDS KvStore, TLC

CONSTANTS k1, k2, k3, v1, v2, e1, e2, e3, e4, f1, f2

Sym == Permutations(Keys) \cup Permutations(Values)
       \cup Permutations(Entries) \cup Permutations(Fibers)
=============================================================================
