--------------------------- MODULE MCTaskDispatch ---------------------------
(* Small instances of TaskDispatch for TLC. *)
EXTENDS TaskDispatch

MCScenarios ==
  {{"twice"}, {"twice", "slow"}, {"crash", "stop"}, {"slow", "crash"}, {"timeout", "crash"}, {"lapse"}}
TwiceAndCrash == {{"twice", "crash"}}
=============================================================================
