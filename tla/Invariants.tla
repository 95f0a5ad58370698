------------------------------ MODULE Invariants ------------------------------
(***************************************************************************)
(* What must stay true of a run, checked step by step against its trace    *)
(* (invariant.rs).                                                         *)
(*                                                                         *)
(* A recorded step is the instant it happened at and the places of the     *)
(* invariants whose `holds` its world passes: a predicate is a function of *)
(* one world, so nothing else of the world matters here.  Steps happened   *)
(* in the order of a run, whose clock never goes back.  A trace is as long *)
(* as it turns out to be when the check comes to its end.                  *)
(***************************************************************************)
EXTENDS VirtualTime, FiniteSets, SequencesExt

CONSTANTS
    Kinds,     \* the promises in the slice given to `check`, each of them a Kind
    MaxSteps   \* bound: how many steps the trace may have

Kind == [kind : {"safety"}] \cup [kind : {"liveness"}, within : Nat]

ASSUME InvariantsAssumption ==
    /\ Kinds \in Seq(Kind)
    /\ MaxSteps \in Nat

Invariant == DOMAIN Kinds

Step == [at : Instant, good : SUBSET Invariant]

VARIABLES
    trace,    \* the steps read so far
    watches,  \* where each invariant stands
    status,   \* whether the check is under way, or how it came out
    broken    \* the breaches it reports

checkingVars == <<trace, watches, status, broken>>

Holding == [is |-> "holding"]

\* A stretch is open, and must close by this instant, if there is one.
Down(deadline) == [is |-> "down", deadline |-> deadline]

BrokenAt(step) == [is |-> "broken", step |-> step]

CheckingInit ==
    /\ trace = <<>>
    /\ watches = [i \in Invariant |-> Holding]
    /\ status = "checking"
    /\ broken = <<>>

-------------------------------------------------------------------------------
\* A plausible slip: a step landing on the deadline is late.
PassedOrReached(watch, at) == watch.is = "down" /\ \E d \in watch.deadline : at >= d

\* The deadline of the open stretch has gone by; landing on it is in time.
Passed(watch, at) == watch.is = "down" /\ \E d \in watch.deadline : at > d

\* What stood when the deadline went by is the state of the step before `now`.
Overdue(now) == BrokenAt(now - 1)

\* A step the invariant does not hold at.
Failing(i, watch, now, at) ==
    CASE Kinds[i].kind = "safety" -> BrokenAt(now)
      [] Kinds[i].kind = "liveness" /\ watch.is = "down" -> watch
      [] OTHER -> Down(CheckedAdd(at, Kinds[i].within))

\* `Watch::step`, for the step `now` of the trace.
Stepped(i, watch, now, step) ==
    IF watch.is = "broken" THEN watch
    ELSE IF Passed(watch, step.at) THEN Overdue(now)
    ELSE IF i \in step.good THEN Holding
    ELSE Failing(i, watch, now, step.at)

\* One turn of the loop of `check`.
Look ==
    /\ status = "checking" /\ Len(trace) < MaxSteps
    /\ \E step \in Step :
           /\ trace # <<>> => step.at >= Last(trace).at
           /\ trace' = Append(trace, step)
           /\ watches' = [i \in Invariant |-> Stepped(i, watches[i], Len(trace'), step)]
    /\ UNCHANGED <<status, broken>>

\* The store does not hold the state of the next step, or what it holds is not a world.
Unreadable ==
    /\ status = "checking" /\ Len(trace) < MaxSteps
    /\ status' = "unreadable"
    /\ UNCHANGED <<trace, watches, broken>>

\* The step an invariant is reported at: a stretch still open at the end names the last.
Breach(i) == IF watches[i].is = "broken" THEN watches[i].step ELSE Len(trace)

\* What the list to be sorted is made of.
Breaches ==
    {[invariant |-> i, step |-> Breach(i)] : i \in {j \in Invariant : watches[j] # Holding}}

Earlier(v, w) == v.step < w.step \/ (v.step = w.step /\ v.invariant < w.invariant)

\* A stable sort by step of a list in the order of the slice: there is one such list.
Sorted(list) == \A k \in 2 .. Len(list) : Earlier(list[k - 1], list[k])

\* The trace is over.
Finish ==
    /\ status = "checking"
    /\ status' = "checked"
    /\ broken' \in {list \in SetToSeqs(Breaches) : Sorted(list)}
    /\ UNCHANGED <<trace, watches>>

CheckingNext == Look \/ Unreadable \/ Finish

CheckingSpec == CheckingInit /\ [][CheckingNext]_checkingVars

-------------------------------------------------------------------------------
\* What the documentation of the module says of a whole trace, in one formula each.

\* The steps a safety invariant is broken at, and the ones a stretch of a liveness
\* invariant opens at without the invariant holding again in time.
HoldsAgainBy(i, n, deadline) ==
    \E m \in n + 1 .. Len(trace) : i \in trace[m].good /\ trace[m].at <= deadline

Opening(i, n) == i \notin trace[n].good /\ (n > 1 => i \in trace[n - 1].good)

Unkept(i) ==
    {n \in DOMAIN trace :
        IF Kinds[i].kind = "safety" THEN i \notin trace[n].good
        ELSE Opening(i, n) /\ ~ HoldsAgainBy(i, n, trace[n].at + Kinds[i].within)}

\* The step whose state stood when the promise that failed at step n ran out.
Standing(i, n) ==
    IF Kinds[i].kind = "safety" THEN n
    ELSE Max({m \in DOMAIN trace : trace[m].at <= trace[n].at + Kinds[i].within})

\* A check that comes to the end of the trace reports, in the order of the steps and
\* then of the slice, exactly the invariants that broke, each at the first place its
\* promise ran out (`check`, and the account of both kinds at the head of invariant.rs).
ReportsEveryFirstBreach ==
    status = "checked" =>
        /\ ToSet(broken) = {[invariant |-> i, step |-> Standing(i, Min(Unkept(i)))] :
               i \in {j \in Invariant : Unkept(j) # {}}}
        /\ \A k \in 2 .. Len(broken) :
               \/ broken[k - 1].step < broken[k].step
               \/ /\ broken[k - 1].step = broken[k].step
                  /\ broken[k - 1].invariant < broken[k].invariant
===============================================================================
