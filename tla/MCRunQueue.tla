----------------------------- MODULE MCRunQueue -----------------------------
(***************************************************************************)
(* The run queue on a small array.  Tasks are interchangeable.             *)
(***************************************************************************)
EXTENDS RunQueue, TLC

Symmetry == Permutations(Work)
=============================================================================
