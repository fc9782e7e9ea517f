------------------------------- MODULE MCWal -------------------------------
(***************************************************************************)
(* Wal for TLC: the processes are interchangeable.                         *)
(***************************************************************************)
EXTENDS Wal, TLC

Symmetry == Permutations(Procs)
=============================================================================
