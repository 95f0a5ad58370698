-------------------------------- MODULE Network --------------------------------
(***************************************************************************)
(* The simulated network of net.rs: inboxes, the wire, sends and the waits *)
(* for a message, under any schedule of faults.                            *)
(*                                                                         *)
(* The executor appears as what it does for a wait: it keeps the timers,   *)
(* polls tasks that are ready, and moves the clock when none is.  A task   *)
(* may have other waits than the one modelled; whatever they are, all they *)
(* do here is wake it (`Nudge`), now or at a later instant.                *)
(*                                                                         *)
(* Bounds, over the whole run: MaxSends sends, MaxWaits waits, MaxNudges   *)
(* wake-ups of another cause.                                              *)
(***************************************************************************)
EXTENDS Faults, FiniteSets

CONSTANTS
    Task,       \* the tasks that hold an endpoint
    Home,       \* the node whose endpoint each of them holds
    Schedules,  \* the fault schedules a run may be given
    Links,      \* the links, one per direction: [latency, loss, duplication]
    Routes,     \* the directions messages are sent in
    MaxSends, MaxWaits, MaxNudges,
    NoTask, NoWait, NoEvent

ASSUME NetworkAssumption ==
    /\ Home \in [Task -> Node]
    /\ MaxSends \in Nat /\ MaxWaits \in Nat /\ MaxNudges \in Nat
    /\ Task \subseteq Nat /\ NoTask \notin Nat /\ NoWait \notin Nat
    /\ NoEvent \notin [at : Nat, seq : Nat, waker : Task]
    /\ Routes \subseteq Node \X Node
    /\ \A r \in Routes : Links[r].latency \subseteq Nat /\ Links[r].loss \in Odds
    /\ Schedules \subseteq Seq(Fault)

VARIABLES
    now,         \* the virtual clock
    queue,       \* the timers of the waits, in the executor's event queue
    nextSeq,
    ready,       \* the tasks marked ready
    polling,     \* the task inside `poll`
    faults,      \* Wire.faults
    inFlight,    \* Inbox.in_flight of every node: what has not been taken yet
    nextArrival, \* Inboxes.next_arrival
    waiting,     \* Inbox.waiting of every node: <<wait, task to wake>>
    nextWait,    \* Inboxes.next_wait
    recv,        \* the Recv a task holds and awaits, by its wait, or NoWait
    armed,       \* Recv.armed: its timer, or NoEvent
    sent,        \* every send so far and what left: [from, to, at, copies]
    nudges       \* how many wake-ups of another cause there were (the bound)

timerVars == <<queue, nextSeq, armed>>
boxVars == <<inFlight, nextArrival, waiting>>
vars == <<now, queue, nextSeq, ready, polling, faults, inFlight, nextArrival, waiting,
          nextWait, recv, armed, sent, nudges>>

Init ==
    /\ now = 0
    /\ queue = {} /\ nextSeq = 0
    /\ ready = Task /\ polling = NoTask
    /\ faults \in Schedules
    /\ inFlight = [n \in Node |-> {}] /\ nextArrival = 0
    /\ waiting = [n \in Node |-> {}] /\ nextWait = 0
    /\ recv = [t \in Task |-> NoWait] /\ armed = [t \in Task |-> NoEvent]
    /\ sent = <<>>
    /\ nudges = 0

--------------------------------------------------------------------------------
(* The executor, as the waits see it. *)

\* Polls the lowest ready task.
Resume(t) ==
    /\ polling = NoTask
    /\ t \in ready /\ \A u \in ready : t <= u
    /\ polling' = t
    /\ ready' = ready \ {t}
    /\ UNCHANGED <<now, timerVars, faults, boxVars, nextWait, recv, sent, nudges>>

\* With nobody ready, moves the clock to the earliest timer and delivers it.
Advance ==
    /\ polling = NoTask /\ ready = {}
    /\ \E e \in queue :
          /\ IsEarliest(e, queue)
          /\ queue' = queue \ {e}
          /\ now' = e.at
          /\ ready' = {e.waker}
    /\ UNCHANGED <<nextSeq, armed, polling, faults, boxVars, nextWait, recv, sent, nudges>>

\* Something else t waits for wakes it: at this instant, or at one the clock
\* reaches first.
Nudge(t) ==
    /\ polling = NoTask
    /\ nudges < MaxNudges
    /\ nudges' = nudges + 1
    /\ ready' = ready \cup {t}
    /\ \E at \in Instant :
          /\ at = now \/ (ready = {} /\ at > now /\ \A e \in queue : at <= e.at)
          /\ now' = at
    /\ UNCHANGED <<timerVars, polling, faults, boxVars, nextWait, recv, sent>>

\* Nobody is ready and no timer is left: the run is over or stalled.
Idle ==
    /\ polling = NoTask /\ ready = {} /\ queue = {}
    /\ UNCHANGED vars

--------------------------------------------------------------------------------
(* Sending. *)

\* `landing`: the instants a message that leaves now may land at.
Landings(from, to) == {SaturatingAdd(now, d) : d \in Links[<<from, to>>].latency}

\* `Wire::send`: the instants the copies land at, in the order they were drawn.
Outcomes(from, to) ==
    LET link == Links[<<from, to>>]
        lost == Draws(LossOdds(faults, from, to, now, link.loss))
        again == Draws(link.duplication)
        once == {<<at>> : at \in Landings(from, to)}
        twice == {<<at, later>> : at \in Landings(from, to), later \in Landings(from, to)}
    IN IF Partitioned(faults, from, to, now)
       THEN {<<>>}
       ELSE {copies \in {<<>>} \cup once \cup twice :
                /\ (copies = <<>>) \in lost
                /\ copies # <<>> => (Len(copies) = 2) \in again}

\* A plausible slip: wakes the oldest wait alone.
OldestWaiting(node) == {w \in waiting[node] : \A v \in waiting[node] : w[1] <= v[1]}

\* `take_waiting`: every wait on the node, whatever it was aimed at.
TakenWaiting(node) == waiting[node]

\* `Endpoint::send`: files what left in the destination's inbox, and wakes
\* whoever waits there.
Send(t, to) ==
    /\ polling = t /\ recv[t] = NoWait
    /\ <<Home[t], to>> \in Routes
    /\ Len(sent) < MaxSends
    /\ \E copies \in Outcomes(Home[t], to) :
          /\ sent' = Append(sent, [from |-> Home[t], to |-> to, at |-> now,
                                   copies |-> Len(copies)])
          /\ inFlight' = [inFlight EXCEPT ![to] = @ \cup
                            {[at |-> copies[i], seq |-> nextArrival + i - 1, sender |-> Home[t]] :
                               i \in DOMAIN copies}]
          /\ nextArrival' = nextArrival + Len(copies)
          /\ IF copies = <<>>
             THEN UNCHANGED <<waiting, ready>>
             ELSE /\ waiting' = [waiting EXCEPT ![to] = @ \ TakenWaiting(to)]
                  /\ ready' = ready \cup {w[2] : w \in TakenWaiting(to)}
    /\ UNCHANGED <<now, timerVars, polling, faults, nextWait, recv, nudges>>

--------------------------------------------------------------------------------
(* Waiting. *)

\* `Endpoint::recv`, awaited at once.
StartRecv(t) ==
    /\ polling = t /\ recv[t] = NoWait
    /\ nextWait < MaxWaits
    /\ recv' = [recv EXCEPT ![t] = nextWait]
    /\ nextWait' = nextWait + 1
    /\ UNCHANGED <<now, timerVars, ready, polling, faults, boxVars, sent, nudges>>

\* A plausible slip: the timer goes and the registration stays.
LeftRegistered(t) == waiting

\* `unregister`.
Unregistered(t) == [waiting EXCEPT ![Home[t]] = {w \in @ : w[1] # recv[t]}]

\* `Drop` of Recv, on completion or because the wait was abandoned.
Dropped(t) ==
    /\ queue' = queue \ {armed[t]}
    /\ armed' = [armed EXCEPT ![t] = NoEvent]
    /\ waiting' = Unregistered(t)
    /\ recv' = [recv EXCEPT ![t] = NoWait]
    /\ UNCHANGED nextSeq

\* A plausible slip: takes what is on its way, landed or not.
OnItsWay(node) == {m \in inFlight[node] : IsEarliest(m, inFlight[node])}

\* `take_landed`: the earliest arrival, once it has landed.
Landed(node) == {m \in inFlight[node] : IsEarliest(m, inFlight[node]) /\ m.at <= now}

\* A plausible slip: a timer, wherever it points, is good enough.
AimedSomewhere(t) == armed[t] # NoEvent

\* The timer held points at the earliest arrival.  (Its waker is the task's.)
Aimed(t) ==
    /\ armed[t] # NoEvent
    /\ \E m \in inFlight[Home[t]] :
          IsEarliest(m, inFlight[Home[t]]) /\ m.at = armed[t].at

\* Points the timer at the earliest arrival, if there is one.
Reaim(t) ==
    \/ \E m \in inFlight[Home[t]] :
          /\ IsEarliest(m, inFlight[Home[t]])
          /\ LET e == [at |-> m.at, seq |-> nextSeq, waker |-> t]
             IN queue' = (queue \ {armed[t]}) \cup {e} /\ armed' = [armed EXCEPT ![t] = e]
          /\ nextSeq' = nextSeq + 1
    \/ /\ inFlight[Home[t]] = {}
       /\ queue' = queue \ {armed[t]}
       /\ armed' = [armed EXCEPT ![t] = NoEvent]
       /\ UNCHANGED nextSeq

\* `Recv::poll`: takes what has landed, and the wait is over.
Receive(t) ==
    /\ polling = t /\ recv[t] # NoWait
    /\ \E m \in Landed(Home[t]) : inFlight' = [inFlight EXCEPT ![Home[t]] = @ \ {m}]
    /\ Dropped(t)
    /\ UNCHANGED <<now, ready, polling, faults, nextArrival, nextWait, sent, nudges>>

\* `Recv::poll`: nothing has landed; aims the timer, registers, and yields.
Block(t) ==
    /\ polling = t /\ recv[t] # NoWait
    /\ Landed(Home[t]) = {}
    /\ IF Aimed(t) THEN UNCHANGED timerVars ELSE Reaim(t)
    /\ waiting' = [waiting EXCEPT ![Home[t]] = @ \cup {<<recv[t], t>>}]
    /\ polling' = NoTask
    /\ UNCHANGED <<now, ready, faults, inFlight, nextArrival, nextWait, recv, sent, nudges>>

\* The wait is abandoned: a deadline around it has passed, or a choice between
\* waits went another way.
Abandon(t) ==
    /\ polling = t /\ recv[t] # NoWait
    /\ Dropped(t)
    /\ UNCHANGED <<now, ready, polling, faults, inFlight, nextArrival, nextWait, sent, nudges>>

\* The task yields at a wait of another kind, or finishes.
Yield(t) ==
    /\ polling = t /\ recv[t] = NoWait
    /\ polling' = NoTask
    /\ UNCHANGED <<now, timerVars, ready, faults, boxVars, nextWait, recv, sent, nudges>>

Poll(t) ==
    \/ \E to \in Node : Send(t, to)
    \/ StartRecv(t) \/ Receive(t) \/ Block(t) \/ Abandon(t) \/ Yield(t)

Loop == Advance \/ \E t \in Task : Resume(t) \/ Poll(t)

Next == Loop \/ (\E t \in Task : Nudge(t)) \/ Idle

Spec == Init /\ [][Next]_vars

\* `Executor::run` does not pause: it goes on while anything is ready or due.
FairSpec == Spec /\ WF_vars(Loop)

--------------------------------------------------------------------------------
(* Properties. *)

\* A wait that was abandoned or is over neither moves the clock nor wakes
\* anyone: each timer and each registration is that of a wait somebody is at
\* (`Drop` of Recv).
NoTraceOfAbandonedRecv ==
    /\ \A e \in queue : recv[e.waker] # NoWait /\ armed[e.waker] = e
    /\ \A n \in Node : \A w \in waiting[n] : recv[w[2]] = w[1] /\ Home[w[2]] = n

\* The instants a fault covers, and the schedule as a timeline painted from the
\* last fault to the first: what shows in the end, <<>> or one fault, applies.
Covered(fault) ==
    fault.during.start ..
       (IF fault.during.end = MaxTime THEN MaxTime ELSE fault.during.end - 1)

Timeline(schedule, from, to) ==
    LET painted[i \in 1 .. Len(schedule) + 1] ==
          IF i > Len(schedule)
          THEN [at \in Instant |-> <<>>]
          ELSE [at \in Instant |->
                  IF /\ schedule[i].from = from /\ schedule[i].to = to
                     /\ at \in Covered(schedule[i])
                  THEN <<schedule[i]>>
                  ELSE painted[i + 1][at]]
    IN painted[1]

\* What left at each send is what the schedule allowed at that instant: nothing
\* through a cut direction or one sure to lose it, something through one sure
\* not to (`Wire::send`, `first_applying`, `Window::holds`).
CarriedAsScheduled ==
    \A i \in DOMAIN sent :
       LET s == sent[i]
           shows == Timeline(faults, s.from, s.to)[s.at]
           cut == shows # <<>> /\ shows[1].kind = "partition"
           odds == IF shows = <<>> THEN Links[<<s.from, s.to>>].loss ELSE shows[1].odds
       IN IF cut \/ odds.numerator = odds.denominator
          THEN s.copies = 0
          ELSE odds.numerator = 0 => s.copies > 0

\* What is on the wire stays there, whatever faults begin after it left, until
\* somebody waiting takes it: not before it lands, and never ahead of what
\* lands earlier (`take_landed`).  It lands no sooner than it left, up to the
\* last instant there is (`saturating_add`).
TakenInOrderOfLanding ==
    [][\A n \in Node :
          /\ \A m \in inFlight[n] \ inFlight'[n] :
                m.at <= now /\ \A k \in inFlight'[n] : Before(m, k)
          /\ \A m \in inFlight'[n] \ inFlight[n] : m.at >= now]_vars

\* A wait at an inbox something is on its way to comes to an end, however many waits
\* share the inbox and whichever of them is abandoned or takes a message first: its task
\* is polled again, when the message lands or before (`Recv::poll`, `take_waiting`).
WaitsAreAnswered ==
    \A t \in Task : recv[t] # NoWait /\ inFlight[Home[t]] # {} ~> polling = t
================================================================================
