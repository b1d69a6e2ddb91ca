-------------------------- MODULE MCWorkerCapacity --------------------------
(* Small instances of WorkerCapacity for TLC. *)
EXTENDS WorkerCapacity, TLC

CONSTANTS w1, r1, r2, r3

\* r1 and r2 together exceed the GPUs of the worker, r1 and r3 its cpu.
MCCpu == r1 :> 1 @@ r2 :> 1 @@ r3 :> 2
MCGpu == r1 :> 1 @@ r2 :> 2 @@ r3 :> 1
MCTotalCpu == w1 :> 2
MCTotalGpu == w1 :> 2
=============================================================================
