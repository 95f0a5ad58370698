----------------------------- MODULE MCReconciler -----------------------------
(***************************************************************************)
(* The two databases of TIMELINE (reconciler.rs:157-163), in three regions: *)
(* `orders` gains a standby and loses the one it started with, `users` is  *)
(* moved out of the region of its primary.                                 *)
(***************************************************************************)
EXTENDS Reconciler

MCRegion == {"east", "west", "south"}

Placed(primary, standbys) ==
    [r \in MCRegion |-> IF r = primary THEN "primary"
                        ELSE IF r \in standbys THEN "standby" ELSE "nothing"]

Orders == <<Placed("east", {"west"}),
            Placed("east", {"south", "west"}),
            Placed("east", {"south"})>>

Users == <<Placed("west", {"east"}), Placed("east", {"south"})>>

MCTimelines == {Orders, Users}

ASSUME MCTimelinesAreOrderly == \A wishes \in MCTimelines : Orderly(wishes)
================================================================================
