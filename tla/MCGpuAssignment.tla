-------------------------- MODULE MCGpuAssignment --------------------------
(* Small instances of GpuAssignment for TLC. *)
EXTENDS GpuAssignment, TLC

CONSTANTS c1, c2, c3, c4

\* Three devices, for any two of the first three containers and not for all.
MCDevices == 0 .. 2
MCDemand == (c1 :> 1) @@ (c2 :> 2) @@ (c3 :> 1) @@ (c4 :> 1)
=============================================================================
