------------------------------- MODULE MCNetwork -------------------------------
(***************************************************************************)
(* One task that sends, polled between two that share the inbox of the     *)
(* other node, so that one can take what the other was aimed at.  The link *)
(* between them is uneven and repeats; the one back loses.                 *)
(***************************************************************************)
EXTENDS Network

MCNode == {1, 2}
MCTask == {1, 2, 3}
MCHome == [t \in MCTask |-> IF t = 2 THEN 1 ELSE 2]

Half == [numerator |-> 1, denominator |-> 2]
Always == [numerator |-> 1, denominator |-> 1]

MCRoutes == {<<1, 2>>, <<2, 1>>}

MCLinks ==
    [ends \in MCRoutes |->
        IF ends = <<1, 2>>
        THEN [latency |-> {1, 2}, loss |-> NoOdds, duplication |-> Half]
        ELSE [latency |-> {1}, loss |-> Half, duplication |-> NoOdds]]

Cut(start, end) ==
    [kind |-> "partition", from |-> 1, to |-> 2,
     during |-> [start |-> start, end |-> end], odds |-> NoOdds]

Lossy(odds, start, end) ==
    [kind |-> "loss", from |-> 1, to |-> 2,
     during |-> [start |-> start, end |-> end], odds |-> odds]

\* No fault; a cut that ends; a sure loss under a cut that never closes; a
\* harmless loss that shadows the start of a sure one.
MCSchedules ==
    {<<>>,
     <<Cut(0, 1)>>,
     <<Cut(1, MaxTime), Lossy(Always, 0, 2)>>,
     <<Lossy(NoOdds, 0, 1), Lossy(Always, 0, 2)>>}
================================================================================
