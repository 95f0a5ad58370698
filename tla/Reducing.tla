-------------------------------- MODULE Reducing --------------------------------
(***************************************************************************)
(* What a reduction promises (`shrink` of shrink.rs), whatever it tries    *)
(* and in whatever order: the schedule kept is at every moment no more     *)
(* than the one before it, its run was seen to fail the way the schedule   *)
(* handed in failed, and the outcome that goes with it is that run's own.  *)
(***************************************************************************)
EXTENDS Faults

CONSTANTS
    Schedules,    \* the schedules a reduction may be asked for
    Outcomes(_)   \* how a run under a schedule may go

VARIABLES
    faults,    \* the schedule to reduce
    failure,   \* how the run under it went, once it ran
    kept,      \* what it has been reduced to
    outcome    \* how the run under that went

vars == <<faults, failure, kept, outcome>>

Pass == [verdict |-> "pass"]

\* The same reason, at whatever step.
SameFailure(one, another) ==
    one # Pass /\ another # Pass /\ one.reason = another.reason

Init ==
    /\ faults \in Schedules
    /\ kept = faults
    /\ failure = Pass /\ outcome = Pass

\* The run of the schedule handed in is what every other is held to.
Measure ==
    /\ failure = Pass
    /\ failure' \in Outcomes(faults)
    /\ outcome' = failure'
    /\ UNCHANGED <<faults, kept>>

\* Something less fails the same way, and is kept.
Reduce ==
    /\ failure # Pass
    /\ kept' # kept /\ NoMore(kept', kept)
    /\ outcome' \in Outcomes(kept') /\ SameFailure(outcome', failure)
    /\ UNCHANGED <<faults, failure>>

Next == Measure \/ Reduce

Spec == Init /\ [][Next]_vars
================================================================================
