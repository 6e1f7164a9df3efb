----------------------------- MODULE MCAxiFifo ------------------------------
(***************************************************************************)
(* The FIFO with three slots in a four-address space, so that the counter  *)
(* has values that are neither a slot nor "empty".                         *)
(***************************************************************************)
EXTENDS AxiFifo
=============================================================================
