---------------------------- MODULE MCTaskManager ----------------------------
(* TaskManager on small instances; the configurations give the constants.   *)
EXTENDS TaskManager, TLC

HandlerSymmetry == Permutations(Handlers)
==============================================================================
