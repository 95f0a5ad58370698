------------------------------ MODULE MCExecutor ------------------------------
(* Three tasks, one of them a root: enough for a child that takes over a wait  *)
(* of its parent, for a join on a sibling and for two timers at one instant.   *)
EXTENDS Executor
================================================================================
