------------------------------- MODULE MCShrink -------------------------------
(* No faults; two losses and an outage; four outages to be cut into pieces.    *)
EXTENDS Shrink

CONSTANTS n0, n1

MCNode == {n0, n1}

Loss(start, end, numerator) ==
    [kind |-> "loss", from |-> n0, to |-> n1, during |-> [start |-> start, end |-> end],
     odds |-> [numerator |-> numerator, denominator |-> 2]]

Outage(start, end) ==
    [kind |-> "partition", from |-> n1, to |-> n0, during |-> [start |-> start, end |-> end],
     odds |-> NoOdds]

MCSchedules ==
    {<<>>,
     <<Loss(0, 2, 2), Outage(1, 3), Loss(2, 3, 1)>>,
     <<Outage(0, 1), Outage(0, 1), Outage(0, 1), Outage(0, 1)>>}

\* Fewer faults fail later, and sooner the shorter the first of them.
MCFailsAt(schedule) ==
    IF schedule = <<>> THEN 9
    ELSE 2 * (4 - Len(schedule)) + ((schedule[1].during.end - schedule[1].during.start) % 2)
===============================================================================
