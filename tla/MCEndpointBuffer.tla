-------------------------- MODULE MCEndpointBuffer --------------------------
(* Small instances of EndpointBuffer for TLC. *)
EXTENDS EndpointBuffer

CONSTANTS g1, g2

With(gateways, f) == [up |-> gateways, faults |-> f]

\* Contention of two gateways without faults, and the faults a few at a time.
MCScenarios ==
  {With({g1, g2}, {}), With({g1}, {"redis", "unready"}), With({g1}, {"ttl", "late"}),
   With({g1, g2}, {"crash"})}
=============================================================================
