--------------------------- MODULE MCRequestPath ----------------------------
(***************************************************************************)
(* The request path with a latency that lets reads pile up in the queue.   *)
(***************************************************************************)
EXTENDS RequestPath
=============================================================================
