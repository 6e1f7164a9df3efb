------------------------- MODULE MCParallelSection --------------------------
(***************************************************************************)
(* Two workers; one leader of sections of a loop for three threads and one *)
(* for two, and one leader of single loops for two.                        *)
(***************************************************************************)
EXTENDS ParallelSection

CONSTANTS multi, single

ThreeThenTwo == [l \in Leader |-> IF l = multi THEN <<3, 2>> ELSE <<2>>]
=============================================================================
