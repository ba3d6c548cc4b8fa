---- MODULE MCMinifilter ----
(***************************************************************************)
(* Small instance of Minifilter for TLC: two files, and opens for reading, *)
(* for writing and for deletion.                                           *)
(***************************************************************************)
EXTENDS Minifilter, TLC

CONSTANTS f1, f2

MCAccesses == {{"FILE_READ_DATA"}, {"FILE_READ_DATA", "FILE_WRITE_DATA"}, {"DELETE"}}

FileSymmetry == Permutations(Files)
====
