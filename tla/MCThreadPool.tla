---------------------------- MODULE MCThreadPool ----------------------------
(***************************************************************************)
(* Two workers, a client that schedules two tasks, one of which schedules  *)
(* a third.                                                                *)
(***************************************************************************)
EXTENDS ThreadPool

CONSTANTS parent, child, other

OneChild == [t \in Task |-> IF t = parent THEN {child} ELSE {}]
=============================================================================
