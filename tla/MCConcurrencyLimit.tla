------------------------- MODULE MCConcurrencyLimit -------------------------
(* Small instances of ConcurrencyLimit for TLC. *)
EXTENDS ConcurrencyLimit, TLC

CONSTANTS r1, r2

Use(g, c) == [k \in Kinds |-> IF k = "gpu" THEN g ELSE c]

\* The two exceed the first limit by a GPU and a cpu, the second by a cpu.
MCNeed == (r1 :> Use(1, 1)) @@ (r2 :> Use(1, 2))
MCLimits == {Use(1, 2), Use(2, 2)}

MCScenarios == {{}, {"lasting"}, {"busy", "expire", "skip", "revive"}}
OnlyBusy == {{"busy"}}
=============================================================================
