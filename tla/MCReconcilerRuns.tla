--------------------------- MODULE MCReconcilerRuns ---------------------------
(* The constants of the code in hundredths of a second, the slowest and the    *)
(* quickest draws of each, and both databases of TIMELINE (reconciler.rs:157). *)
EXTENDS ReconcilerRuns

MCRegion == {"east", "west", "south"}
MCNode == {"controller", "server"}

Placed(at, primary, standbys) ==
    [at |-> at,
     wanted |-> [r \in MCRegion |-> IF r = primary THEN "primary"
                                    ELSE IF r \in standbys THEN "standby" ELSE "nothing"]]

Orders == <<Placed(0, "east", {"west"}),
            Placed(1200, "east", {"south", "west"}),
            Placed(2200, "east", {"south"})>>

Users == <<Placed(0, "west", {"east"}), Placed(2300, "east", {"south"})>>

MCTimelines == {Orders, Users}

Cut(from, to, start) ==
    [from |-> from, to |-> to, odds |-> NoOdds, start |-> start, lasts |-> 1000]

Flaky(from, to, start) ==
    [Cut(from, to, start) EXCEPT !.odds = [numerator |-> 9, denominator |-> 10]]

\* Nothing; some requests at first and none after, for as long as there may be trouble;
\* no answer from the middle of the evacuation on; and losses where the evacuation begins.
MCTroubles ==
    {<<>>,
     <<Flaky("controller", "server", 0), Cut("controller", "server", 600),
       Cut("controller", "server", 1600), Cut("controller", "server", 2600),
       Cut("controller", "server", 2999)>>,
     <<Cut("server", "controller", 2500), Cut("server", "controller", 2999)>>,
     <<Flaky("controller", "server", 2400)>>}
================================================================================
