--------------------------- MODULE MCDeviceDirect ---------------------------
(***************************************************************************)
(* A host with direct addressing: the hypothesis of the theorems about the *)
(* device holds in this instance.                                          *)
(***************************************************************************)
EXTENDS MCDeviceTop

ASSUME DirectHost
=============================================================================
