-------------------------- MODULE MCSpendPersistence --------------------------
(***************************************************************************)
(* Events and inodes are interchangeable; the runs have no liveness         *)
(* property, so permuting them is sound.                                    *)
(***************************************************************************)
EXTENDS SpendPersistence, TLC

Interchangeable == Permutations(Event) \cup Permutations(Inode)
===============================================================================
