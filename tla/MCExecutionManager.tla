------------------------- MODULE MCExecutionManager -------------------------
(* The execution manager's client with the applications of the cfg. *)
EXTENDS ExecutionManager
=============================================================================
