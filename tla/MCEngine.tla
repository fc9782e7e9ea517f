----------------------------- MODULE MCEngine ------------------------------
(***************************************************************************)
(* Engine for TLC: the connections are interchangeable.                    *)
(***************************************************************************)
EXTENDS Engine

Symmetry == Permutations(Conns)
=============================================================================
