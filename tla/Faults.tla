-------------------------------- MODULE Faults --------------------------------
(***************************************************************************)
(* The fault schedule of a run (fault.rs) and the odds its losses are      *)
(* drawn at (net.rs), as pure operators: what a schedule says of one       *)
(* direction of one link at one instant.                                   *)
(*                                                                         *)
(* A fault is [kind, from, to, during, odds]; the odds of a partition mean *)
(* nothing.  Odds keep the numerator and denominator of the code; a draw   *)
(* is any outcome they leave possible.                                     *)
(***************************************************************************)
EXTENDS VirtualTime, Sequences

CONSTANT Node

Window == {w \in [start : Instant, end : Instant] : w.start <= w.end}

Odds == [numerator : Nat, denominator : Nat \ {0}]

NoOdds == [numerator |-> 0, denominator |-> 1]

Fault == [kind : {"partition", "loss"}, from : Node, to : Node, during : Window, odds : Odds]

\* A plausible slip: open at both ends.
StrictlyInside(window, at) ==
    at > window.start /\ (at < window.end \/ window.end = MaxTime)

\* `Window::holds`: half open, but one that closes at the end of time never closes.
HoldsAt(window, at) ==
    at >= window.start /\ (at < window.end \/ window.end = MaxTime)

Applies(fault, from, to, at) ==
    fault.from = from /\ fault.to = to /\ HoldsAt(fault.during, at)

\* The places of the faults in force on this direction at this instant.
InForce(faults, from, to, at) ==
    {i \in DOMAIN faults : Applies(faults[i], from, to, at)}

\* A plausible slip: the last fault in force is the one that applies.
LastApplying(faults, from, to, at) ==
    {i \in InForce(faults, from, to, at) : \A j \in InForce(faults, from, to, at) : j <= i}

\* `first_applying`: at most one place, the first.
FirstApplying(faults, from, to, at) ==
    {i \in InForce(faults, from, to, at) : \A j \in InForce(faults, from, to, at) : i <= j}

\* `partitioned`: the fault that applies cuts the direction.
Partitioned(faults, from, to, at) ==
    \E i \in FirstApplying(faults, from, to, at) : faults[i].kind = "partition"

\* `loss`, or else what the link itself says.
LossOdds(faults, from, to, at, otherwise) ==
    IF \E i \in FirstApplying(faults, from, to, at) : faults[i].kind = "loss"
    THEN faults[CHOOSE i \in FirstApplying(faults, from, to, at) : TRUE].odds
    ELSE otherwise

\* What `Odds::draw` may answer.
Draws(odds) == {b \in BOOLEAN : IF b THEN odds.numerator > 0
                                     ELSE odds.numerator < odds.denominator}

Clamp(x, low, high) == IF x < low THEN low ELSE IF x > high THEN high ELSE x

\* `Window::narrowed_to`: the ends moved inward, never past what the window holds.
NarrowedTo(window, start, end) ==
    LET from == Clamp(start, window.start, window.end)
    IN  [start |-> from, end |-> Clamp(end, from, window.end)]

\* `Odds::lowered_to`: the denominator is how many trials are counted, and stays.
LoweredTo(odds, numerator) ==
    [odds EXCEPT !.numerator = IF numerator < @ THEN numerator ELSE @]

Inside(fault, original) ==
    /\ fault.kind = original.kind /\ fault.from = original.from /\ fault.to = original.to
    /\ original.during.start <= fault.during.start
    /\ fault.during.start <= fault.during.end /\ fault.during.end <= original.during.end
    /\ fault.odds.denominator = original.odds.denominator
    /\ fault.odds.numerator <= original.odds.numerator

\* A schedule is no more than another if its entries stand in the order they came in, each
\* inside the one it came from: the order decides which of two overlapping faults applies.
NoMore(schedule, original) ==
    \E from \in [DOMAIN schedule -> DOMAIN original] :
        /\ \A i, j \in DOMAIN schedule : i < j => from[i] < from[j]
        /\ \A i \in DOMAIN schedule : Inside(schedule[i], original[from[i]])
================================================================================
