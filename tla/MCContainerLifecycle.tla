------------------------ MODULE MCContainerLifecycle ------------------------
(* Small instances of ContainerLifecycle for TLC. *)
EXTENDS ContainerLifecycle

CONSTANT c1

\* Bound for a counterexample in which no event is lost and no read fails.
NothingFails ==
  \A c \in Containers : ~LoseEvent(c) /\ ~(state[c].status = "STOPPING" /\ StarterReadFails(c))
=============================================================================
