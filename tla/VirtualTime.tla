------------------------------ MODULE VirtualTime ------------------------------
(***************************************************************************)
(* Instants of virtual time and the queue of future events (clock.rs and   *)
(* event.rs), as pure operators shared by every module that runs on the    *)
(* simulation's clock.                                                     *)
(*                                                                         *)
(* An instant is a u64 of nanoseconds.  Only its order, the addition of a  *)
(* duration and the last instant matter, so Instant is 0..MaxTime and      *)
(* MaxTime plays the part of u64::MAX: arithmetic saturates there exactly  *)
(* as in the code.                                                         *)
(***************************************************************************)
EXTENDS Naturals

CONSTANT MaxTime

ASSUME MaxTimeAssumption == MaxTime \in Nat

Instant == 0 .. MaxTime

\* `VirtualTime::saturating_add`, the instant `Clock::sleep` aims at.
SaturatingAdd(instant, duration) ==
    IF instant + duration <= MaxTime THEN instant + duration ELSE MaxTime

\* `VirtualTime::checked_add`: no instant at all past the end of virtual time.
CheckedAdd(instant, duration) == {instant + duration} \cap Instant

\* A plausible slip: pops in the order of the pushes, whatever the instants.
PushedBefore(e, f) == e.seq < f.seq

\* The order of `EventId`: by instant, then by the sequence number of the push.
Before(e, f) == \/ e.at < f.at
                \/ e.at = f.at /\ e.seq < f.seq

\* The event `EventQueue::pop` takes: the one before every other.
IsEarliest(e, queue) == \A f \in queue : f = e \/ Before(e, f)
================================================================================
