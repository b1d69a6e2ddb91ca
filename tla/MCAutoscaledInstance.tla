------------------------ MODULE MCAutoscaledInstance ------------------------
(* Small instances of AutoscaledInstance for TLC. *)
EXTENDS AutoscaledInstance

CONSTANTS g1, g2

Stub(min, max, per, up, n, f) ==
  [min |-> min, max |-> max, per |-> per, up |-> up, puts |-> n, faults |-> f]

ToZero(n, f) == Stub(0, 1, 1, Gateways, n, f)
KeepOne(n, f) == Stub(1, 1, 1, Gateways, n, f)

One(min, max, n, f) == Stub(min, max, 1, {g1}, n, f)

MCConfigs ==
  {ToZero(1, {}), KeepOne(1, {"crash"}), KeepOne(0, {"stop"}), KeepOne(0, {"lapse"})}
  \cup {One(0, 1, 2, f) : f \in {{"refused"}, {"revive"}}}
  \cup {One(0, 1, 1, {"crash"}), One(1, 1, 2, {"fail"}), One(1, 2, 2, {}), One(1, 2, 1, {"stop"}),
        One(1, 1, 0, {"stop", "restart"}), One(1, 1, 0, {"stop", "lost"}), Stub(0, 2, 2, {g1}, 3, {})}

=============================================================================
