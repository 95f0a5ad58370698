----------------------------- MODULE MCInvariants -----------------------------
(* A safety invariant, one that must recover at once, and one that has a while, *)
(* whose deadline may lie past the end of time.                                 *)
EXTENDS Invariants

MCKinds == <<[kind |-> "liveness", within |-> 2],
             [kind |-> "safety"],
             [kind |-> "liveness", within |-> 0]>>
===============================================================================
