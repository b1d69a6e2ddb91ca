---------------------------- MODULE MCWorkerPool ----------------------------
(* Small instances of WorkerPool for TLC. *)
EXTENDS WorkerPool

CONSTANTS g1, g2

Local == [external |-> FALSE, failover |-> FALSE, oneGpu |-> FALSE, min |-> 1,
          up |-> {g1, g2}, load |-> 0, faults |-> {}, most |-> 1]
Failover == [Local EXCEPT !.failover = TRUE, !.min = 2, !.up = {g1}]
External == [Local EXCEPT !.external = TRUE]
With(k, f) == [k EXCEPT !.faults = f]

Single == [Local EXCEPT !.up = {g1}]
Machine == [External EXCEPT !.up = {g1}]

MCConfigs ==
  {With(Local, {"race"}), With([Single EXCEPT !.failover = TRUE, !.load = 1], {"slow"})}
  \cup {With(Single, f) : f \in {{"admin"}, {"stuck"}}}
  \cup {With([Single EXCEPT !.most = 2], f) : f \in {{"crash", "late"}, {"silent", "race"}}}
  \cup {[Single EXCEPT !.load = 1], With([Local EXCEPT !.min = 2], {"refused"})}
  \cup {With(Failover, {"late"})}
  \cup {External, With([External EXCEPT !.oneGpu = TRUE], {"lapse"})}
  \cup {With(Machine, f) : f \in {{"machine"}, {"refused"}}}
=============================================================================
