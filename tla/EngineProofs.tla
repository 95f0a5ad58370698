------------------------------ MODULE EngineProofs ------------------------------
(***************************************************************************)
(* Proofs about three parts of the engine that share nothing but instants  *)
(* and faults: the network, for any nodes, tasks, links, schedules and     *)
(* bounds; the command line, its sweeps and the files it leaves, for any   *)
(* seeds, workers, schedules and outcomes of the runs; and the checking of *)
(* a trace, for any promises, any trace and any horizon of time.           *)
(***************************************************************************)
EXTENDS Network, CommandLine, Invariants, FiniteSetTheorems, SequenceTheorems,
        WellFoundedInduction, TLAPS

--------------------------------------------------------------------------------
(* The network. *)

Event == [at : Instant, seq : Nat, waker : Task]
Arrival == [at : Instant, seq : Nat, sender : Node]

Types ==
    /\ now \in Instant
    /\ queue \subseteq Event /\ nextSeq \in Nat
    /\ ready \subseteq Task
    /\ inFlight \in [Node -> SUBSET Arrival] /\ nextArrival \in Nat
    /\ waiting \in [Node -> SUBSET (Nat \X Task)] /\ nextWait \in Nat
    /\ recv \in [Task -> Nat \cup {NoWait}]
    /\ armed \in [Task -> Event \cup {NoEvent}]

\* Once a wait is at an end nothing of it is left, and what is there has its type.
NInv == Types /\ NoTraceOfAbandonedRecv

\* No more than what a task or a timer is keeps them apart from none.
LEMMA Apart ==
    /\ NoWait \notin Nat /\ NoEvent \notin Event
    /\ Home \in [Task -> Node]
    /\ 0 \in Instant /\ Instant \subseteq Nat
BY NetworkAssumption, MaxTimeAssumption DEF Instant, Event

--------------------------------------------------------------------------------
(* The timeline of a schedule. *)

\* The faults from the i-th on that are in force, and what they show in the end.
InForceFrom(schedule, from, to, i, at) ==
    {j \in i .. Len(schedule) : Applies(schedule[j], from, to, at)}

LeastOf(T) == CHOOSE x \in T : \A y \in T : x <= y

Shown(schedule, from, to, i, at) ==
    IF InForceFrom(schedule, from, to, i, at) = {} THEN <<>>
    ELSE <<schedule[LeastOf(InForceFrom(schedule, from, to, i, at))]>>

\* A solution of the equation the timeline is painted by.
Paints(p, schedule, from, to) ==
    p = [i \in 1 .. Len(schedule) + 1 |->
            IF i > Len(schedule)
            THEN [at \in Instant |-> <<>>]
            ELSE [at \in Instant |->
                    IF /\ schedule[i].from = from /\ schedule[i].to = to
                       /\ at \in Covered(schedule[i])
                    THEN <<schedule[i]>>
                    ELSE p[i + 1][at]]]

\* A set of numbers has a least one.
LEMMA Least ==
    ASSUME NEW T \in SUBSET Nat, T # {}
    PROVE  LeastOf(T) \in T /\ \A y \in T : LeastOf(T) <= y
<1> DEFINE R == OpToRel(<, Nat)
<1>1. IsWellFoundedOn(R, Nat)
  BY NatLessThanWellFounded
<1>2. PICK x \in T : \A y \in T : <<y, x>> \notin R
  <2> HIDE DEF R
  <2> QED
    BY <1>1, WFMin
<1>3. \A y \in T : ~ (y < x)
  BY <1>2 DEF OpToRel
<1>4. \A y \in T : x <= y
  BY <1>3
<1> QED
  BY <1>4 DEF LeastOf

\* The least of a set whose elements go no lower than one of them is that one.
LEMMA LeastIs ==
    ASSUME NEW T \in SUBSET Nat, NEW x \in T, \A y \in T : x <= y
    PROVE  LeastOf(T) = x
<1>1. LeastOf(T) \in T /\ LeastOf(T) <= x
  BY Least
<1>2. x \in Nat /\ LeastOf(T) \in Nat /\ x <= LeastOf(T)
  BY <1>1
<1> QED
  BY <1>1, <1>2

\* An instant is covered by a fault exactly when its window holds it.
LEMMA CoveredIsHeld ==
    ASSUME NEW fault \in Fault, NEW at \in Instant
    PROVE  at \in Covered(fault) <=> HoldsAt(fault.during, at)
<1>1. fault.during.start \in Instant /\ fault.during.end \in Instant
  BY DEF Fault, Window
<1> QED
  BY <1>1, MaxTimeAssumption DEF Covered, HoldsAt, Instant

\* What shows from one fault on is that fault, where it applies, or what shows from the next.
LEMMA ShownStep ==
    ASSUME NEW schedule \in Seq(Fault), NEW from, NEW to, NEW i \in 1 .. Len(schedule), NEW at
    PROVE  Shown(schedule, from, to, i, at)
             = IF Applies(schedule[i], from, to, at) THEN <<schedule[i]>>
               ELSE Shown(schedule, from, to, i + 1, at)
<1>1. Len(schedule) \in Nat /\ i \in Nat
  OBVIOUS
<1>2. CASE Applies(schedule[i], from, to, at)
  <2> DEFINE T == InForceFrom(schedule, from, to, i, at)
  <2>1. i \in T /\ T \in SUBSET Nat /\ \A y \in T : i <= y
    BY <1>1, <1>2 DEF InForceFrom
  <2>2. LeastOf(T) = i
    BY <2>1, LeastIs
  <2> QED
    BY <1>2, <2>1, <2>2 DEF Shown
<1>3. CASE ~ Applies(schedule[i], from, to, at)
  <2>1. i .. Len(schedule) = {i} \cup (i + 1 .. Len(schedule))
    BY <1>1
  <2>2. InForceFrom(schedule, from, to, i, at) = InForceFrom(schedule, from, to, i + 1, at)
    BY <1>3, <2>1 DEF InForceFrom
  <2> QED
    BY <1>3, <2>2 DEF Shown
<1> QED
  BY <1>2, <1>3

\* The equation has a solution.
LEMMA CanBePainted ==
    ASSUME NEW schedule \in Seq(Fault), NEW from, NEW to
    PROVE  \E p : Paints(p, schedule, from, to)
<1> DEFINE p == [i \in 1 .. Len(schedule) + 1 |->
                   [at \in Instant |-> Shown(schedule, from, to, i, at)]]
<1>1. Len(schedule) \in Nat
  OBVIOUS
<1>2. ASSUME NEW i \in 1 .. Len(schedule) + 1
      PROVE  p[i] = IF i > Len(schedule)
                    THEN [at \in Instant |-> <<>>]
                    ELSE [at \in Instant |->
                            IF /\ schedule[i].from = from /\ schedule[i].to = to
                               /\ at \in Covered(schedule[i])
                            THEN <<schedule[i]>>
                            ELSE p[i + 1][at]]
  <2>1. p[i] = [at \in Instant |-> Shown(schedule, from, to, i, at)] /\ i \in Nat
    BY <1>1
  <2>2. CASE i > Len(schedule)
    <3>1. i .. Len(schedule) = {}
      BY <1>1, <2>1, <2>2
    <3>2. \A at : Shown(schedule, from, to, i, at) = <<>>
      BY <3>1 DEF Shown, InForceFrom
    <3> QED
      BY <2>1, <2>2, <3>2
  <2>3. CASE ~ (i > Len(schedule))
    <3>1. i \in 1 .. Len(schedule) /\ i + 1 \in 1 .. Len(schedule) + 1
      BY <1>1, <2>1, <2>3
    <3>2. schedule[i] \in Fault
      BY <3>1
    <3>3. \A at \in Instant : p[i + 1][at] = Shown(schedule, from, to, i + 1, at)
      BY <3>1
    <3>4. \A at \in Instant :
             Applies(schedule[i], from, to, at)
                <=> /\ schedule[i].from = from /\ schedule[i].to = to
                    /\ at \in Covered(schedule[i])
      BY <3>2, CoveredIsHeld DEF Applies
    <3>5. ASSUME NEW at \in Instant
          PROVE  Shown(schedule, from, to, i, at)
                   = IF /\ schedule[i].from = from /\ schedule[i].to = to
                        /\ at \in Covered(schedule[i])
                     THEN <<schedule[i]>>
                     ELSE p[i + 1][at]
      <4> HIDE DEF p
      <4> QED
        BY <3>1, <3>3, <3>4, ShownStep
    <3> HIDE DEF p
    <3> QED
      BY <2>1, <2>3, <3>5
  <2> QED
    BY <2>2, <2>3
<1>3. Paints(p, schedule, from, to)
  <2>1. p = [i \in 1 .. Len(schedule) + 1 |-> p[i]]
    OBVIOUS
  <2> HIDE DEF p
  <2> QED
    BY <1>2, <2>1 DEF Paints
<1> QED
  BY <1>3

\* And only the one: whatever solves it shows the first fault in force.
LEMMA PaintedShows ==
    ASSUME NEW schedule \in Seq(Fault), NEW from, NEW to, NEW p, Paints(p, schedule, from, to),
           NEW at \in Instant
    PROVE  p[1][at] = Shown(schedule, from, to, 1, at)
<1> DEFINE L == Len(schedule)
           Right(i) == p[i][at] = Shown(schedule, from, to, i, at)
           Misshown == {d \in 0 .. L : ~ Right(L + 1 - d)}
<1>1. L \in Nat
  OBVIOUS
<1>2. Right(L + 1)
  <2>1. (L + 1) .. L = {}
    BY <1>1
  <2>2. Shown(schedule, from, to, L + 1, at) = <<>>
    BY <2>1 DEF Shown, InForceFrom
  <2>3. L + 1 \in 1 .. L + 1 /\ L + 1 > L
    BY <1>1
  <2>4. p[L + 1] = [a \in Instant |-> <<>>]
    BY <2>3 DEF Paints
  <2> QED
    BY <2>2, <2>4
<1>3. ASSUME NEW i \in 1 .. L, Right(i + 1) PROVE Right(i)
  <2>1. i \in 1 .. L + 1 /\ ~ (i > L)
    BY <1>1
  <2>2. p[i] = [a \in Instant |->
                  IF /\ schedule[i].from = from /\ schedule[i].to = to
                     /\ a \in Covered(schedule[i])
                  THEN <<schedule[i]>>
                  ELSE p[i + 1][a]]
    BY <2>1 DEF Paints
  <2>3. Applies(schedule[i], from, to, at)
           <=> /\ schedule[i].from = from /\ schedule[i].to = to
               /\ at \in Covered(schedule[i])
    BY CoveredIsHeld DEF Applies
  <2> QED
    BY <1>3, <2>2, <2>3, ShownStep
<1>4. Misshown = {}
  <2> SUFFICES ASSUME Misshown # {} PROVE FALSE
    OBVIOUS
  <2>1. Misshown \in SUBSET Nat
    BY <1>1
  <2>2. PICK d \in Misshown : \A e \in Misshown : d <= e
    <3> HIDE DEF Misshown
    <3> QED
      BY <2>1, Least
  <2>3. d \in 0 .. L /\ ~ Right(L + 1 - d) /\ d # 0
    BY <1>1, <1>2
  <2>4. d - 1 \in 0 .. L /\ ~ (d <= d - 1) /\ L + 1 - d \in 1 .. L
        /\ L + 1 - (d - 1) = (L + 1 - d) + 1
    BY <1>1, <2>3
  <2>5. d - 1 \notin Misshown
    BY <2>2, <2>4
  <2>6. Right((L + 1 - d) + 1)
    BY <2>4, <2>5
  <2> HIDE DEF Right, L
  <2> QED
    BY <1>3, <2>3, <2>4, <2>6
<1>5. L \in 0 .. L /\ L + 1 - L = 1
  BY <1>1
<1> HIDE DEF Right
<1>6. Right(1)
  BY <1>4, <1>5
<1> QED
  BY <1>6 DEF Right

\* What the timeline shows at an instant is the first fault in force there.
LEMMA TimelineShowsTheFirst ==
    ASSUME NEW schedule \in Seq(Fault), NEW from, NEW to, NEW at \in Instant
    PROVE  Timeline(schedule, from, to)[at] = Shown(schedule, from, to, 1, at)
<1>1. Paints(CHOOSE p : Paints(p, schedule, from, to), schedule, from, to)
  BY CanBePainted, Zenon
<1>2. Timeline(schedule, from, to) = (CHOOSE p : Paints(p, schedule, from, to))[1]
  BY Zenon DEF Timeline, Paints
<1> QED
  BY <1>1, <1>2, PaintedShows

--------------------------------------------------------------------------------
(* What is sent. *)

\* What a send files is an arrival, at an instant no sooner than the send (`landing`).
LEMMA Filed ==
    ASSUME Types, NEW t \in Task, NEW to \in Node, <<Home[t], to>> \in Routes,
           NEW copies \in Outcomes(Home[t], to)
    PROVE  /\ Len(copies) \in Nat /\ DOMAIN copies = 1 .. Len(copies)
           /\ \A i \in DOMAIN copies : copies[i] \in Instant /\ copies[i] >= now
<1>1. \A at \in Landings(Home[t], to) : at \in Instant /\ at >= now
  <2>1. Links[<<Home[t], to>>].latency \subseteq Nat
    BY NetworkAssumption
  <2>2. now \in Nat /\ now <= MaxTime /\ MaxTime \in Nat
    BY MaxTimeAssumption DEF Types, Instant
  <2>3. \A d \in Nat : SaturatingAdd(now, d) \in Instant /\ SaturatingAdd(now, d) >= now
    BY <2>2 DEF SaturatingAdd, Instant
  <2> QED
    BY <2>1, <2>3 DEF Landings
<1>2. \/ copies = <<>>
      \/ \E at \in Landings(Home[t], to) : copies = <<at>>
      \/ \E at \in Landings(Home[t], to), later \in Landings(Home[t], to) : copies = <<at, later>>
  BY DEF Outcomes
<1>3. CASE copies = <<>>
  BY <1>3
<1>4. CASE \E at \in Landings(Home[t], to) : copies = <<at>>
  BY <1>1, <1>4
<1>5. CASE \E at \in Landings(Home[t], to), later \in Landings(Home[t], to) : copies = <<at, later>>
  BY <1>1, <1>5
<1> QED
  BY <1>2, <1>3, <1>4, <1>5

\* What a send does to the inboxes.
LEMMA SendFiles ==
    ASSUME NInv, NEW t \in Task, NEW to \in Node, Send(t, to)
    PROVE  /\ inFlight' \in [Node -> SUBSET Arrival] /\ nextArrival' \in Nat
           /\ \A n \in Node : inFlight[n] \subseteq inFlight'[n]
           /\ \A n \in Node : \A m \in inFlight'[n] \ inFlight[n] : m.at >= now
<1>1. PICK copies \in Outcomes(Home[t], to) :
         /\ inFlight' = [inFlight EXCEPT ![to] = @ \cup
                           {[at |-> copies[i], seq |-> nextArrival + i - 1, sender |-> Home[t]] :
                              i \in DOMAIN copies}]
         /\ nextArrival' = nextArrival + Len(copies)
  BY DEF Send
<1> DEFINE new == {[at |-> copies[i], seq |-> nextArrival + i - 1, sender |-> Home[t]] :
                      i \in DOMAIN copies}
<1>2. /\ Len(copies) \in Nat /\ DOMAIN copies = 1 .. Len(copies)
      /\ \A i \in DOMAIN copies : copies[i] \in Instant /\ copies[i] >= now
  BY Filed DEF NInv, Send
<1>3. Home[t] \in Node
  BY Apart
<1>4. new \subseteq Arrival /\ \A m \in new : m.at >= now
  BY <1>2, <1>3 DEF NInv, Types, Arrival
<1>5. inFlight' = [inFlight EXCEPT ![to] = @ \cup new]
  BY <1>1
<1> HIDE DEF new
<1> QED
  BY <1>1, <1>2, <1>4, <1>5 DEF NInv, Types

--------------------------------------------------------------------------------
(* What becomes of a wait. *)

\* `Drop` of Recv takes the timer and the registration back.
LEMMA DropLeavesNoTrace ==
    ASSUME NInv, NEW t \in Task, Dropped(t)
    PROVE  /\ queue' \subseteq Event /\ nextSeq' \in Nat
           /\ waiting' \in [Node -> SUBSET (Nat \X Task)]
           /\ recv' \in [Task -> Nat \cup {NoWait}]
           /\ armed' \in [Task -> Event \cup {NoEvent}]
           /\ NoTraceOfAbandonedRecv'
<1>1. Home[t] \in Node
  BY Apart
<1>2. /\ queue' \subseteq Event /\ nextSeq' \in Nat
      /\ waiting' \in [Node -> SUBSET (Nat \X Task)]
      /\ recv' \in [Task -> Nat \cup {NoWait}]
      /\ armed' \in [Task -> Event \cup {NoEvent}]
  BY <1>1 DEF Dropped, Unregistered, NInv, Types
<1>3. \A u \in Task \ {t} : recv'[u] = recv[u] /\ armed'[u] = armed[u]
  BY DEF Dropped, NInv, Types
<1>4. ASSUME NEW e \in queue'
      PROVE  recv'[e.waker] # NoWait /\ armed'[e.waker] = e
  <2>1. e \in queue /\ e # armed[t] /\ e.waker \in Task
    BY <1>2, <1>4 DEF Dropped, Event
  <2>2. e.waker # t
    BY <2>1 DEF NInv, NoTraceOfAbandonedRecv
  <2> QED
    BY <1>3, <2>1, <2>2 DEF NInv, NoTraceOfAbandonedRecv
<1>5. ASSUME NEW n \in Node, NEW w \in waiting'[n]
      PROVE  recv'[w[2]] = w[1] /\ Home[w[2]] = n
  <2>1. w \in waiting[n] /\ (n = Home[t] => w[1] # recv[t])
    BY <1>1, <1>5 DEF Dropped, Unregistered, NInv, Types
  <2>2. recv[w[2]] = w[1] /\ Home[w[2]] = n
    BY <2>1 DEF NInv, NoTraceOfAbandonedRecv
  <2>3. w[2] \in Task \ {t}
    BY <2>1, <2>2 DEF NInv, Types
  <2> QED
    BY <1>3, <2>2, <2>3
<1> QED
  BY <1>2, <1>4, <1>5 DEF NoTraceOfAbandonedRecv

--------------------------------------------------------------------------------
(* Every step preserves the invariant. *)

\* Steps that leave the waits and what they left behind alone.
LEMMA SameWaits ==
    ASSUME NInv, Types', queue' \subseteq queue,
           \A n \in Node : waiting'[n] \subseteq waiting[n], UNCHANGED <<recv, armed>>
    PROVE  NInv'
BY DEF NInv, NoTraceOfAbandonedRecv

\* The steps of the loop between two polls, and a wake-up of another cause.
LEMMA LoopKeeps ==
    ASSUME NInv, NEW t \in Task, Resume(t) \/ Advance \/ Nudge(t) \/ Yield(t)
    PROVE  NInv'
<1>1. queue' \subseteq queue /\ UNCHANGED <<recv, armed, waiting, inFlight>>
  BY DEF Resume, Advance, Nudge, Yield, timerVars, boxVars
<1>2. now' \in Instant
  BY DEF Resume, Advance, Nudge, Yield, NInv, Types, Event
<1>3. ready' \subseteq Task
  BY DEF Resume, Advance, Nudge, Yield, NInv, Types, Event
<1>4. UNCHANGED <<nextSeq, nextArrival, nextWait>>
  BY DEF Resume, Advance, Nudge, Yield, timerVars, boxVars
<1>5. Types'
  BY <1>1, <1>2, <1>3, <1>4 DEF NInv, Types
<1> QED
  BY <1>1, <1>5, SameWaits

LEMMA SendKeeps ==
    ASSUME NInv, NEW t \in Task, NEW to \in Node, Send(t, to)
    PROVE  NInv'
<1>1. UNCHANGED <<now, queue, nextSeq, armed, nextWait, recv>>
  BY DEF Send, timerVars
<1>2. \/ waiting' = waiting /\ ready' = ready
      \/ /\ waiting' = [waiting EXCEPT ![to] = @ \ TakenWaiting(to)]
         /\ ready' = ready \cup {w[2] : w \in TakenWaiting(to)}
  BY DEF Send
<1>3. waiting' \in [Node -> SUBSET (Nat \X Task)] /\ \A n \in Node : waiting'[n] \subseteq waiting[n]
  BY <1>2 DEF NInv, Types
<1>4. ready' \subseteq Task
  BY <1>2 DEF NInv, Types, TakenWaiting
<1>5. Types'
  BY <1>1, <1>3, <1>4, SendFiles DEF NInv, Types
<1> QED
  BY <1>1, <1>3, <1>5, SameWaits

LEMMA StartRecvKeeps ==
    ASSUME NInv, NEW t \in Task, StartRecv(t)
    PROVE  NInv'
<1>1. /\ UNCHANGED <<now, queue, nextSeq, ready, armed, inFlight, nextArrival, waiting>>
      /\ recv[t] = NoWait /\ recv' = [recv EXCEPT ![t] = nextWait] /\ nextWait' = nextWait + 1
  BY DEF StartRecv, timerVars, boxVars
<1>2. Types'
  BY <1>1 DEF NInv, Types
<1>3. \A e \in queue : e.waker \in Task \ {t}
  BY <1>1 DEF NInv, Types, Event, NoTraceOfAbandonedRecv
<1>4. \A n \in Node : \A w \in waiting[n] : w[2] \in Task \ {t}
  BY <1>1, Apart DEF NInv, Types, NoTraceOfAbandonedRecv
<1> QED
  BY <1>1, <1>2, <1>3, <1>4 DEF NInv, Types, NoTraceOfAbandonedRecv

LEMMA DropKeeps ==
    ASSUME NInv, NEW t \in Task, Receive(t) \/ Abandon(t)
    PROVE  NInv'
<1>1. Dropped(t) /\ UNCHANGED <<now, ready, nextArrival, nextWait>>
  BY DEF Receive, Abandon
<1>2. inFlight' \in [Node -> SUBSET Arrival]
  BY DEF Receive, Abandon, NInv, Types
<1> QED
  BY <1>1, <1>2, DropLeavesNoTrace DEF NInv, Types

LEMMA BlockKeeps ==
    ASSUME NInv, NEW t \in Task, Block(t)
    PROVE  NInv'
<1>1. /\ recv[t] # NoWait /\ UNCHANGED <<now, ready, inFlight, nextArrival, nextWait, recv>>
      /\ waiting' = [waiting EXCEPT ![Home[t]] = @ \cup {<<recv[t], t>>}]
  BY DEF Block
<1>2. Home[t] \in Node /\ recv[t] \in Nat
  BY <1>1, Apart DEF NInv, Types
<1>3. waiting' \in [Node -> SUBSET (Nat \X Task)]
  BY <1>1, <1>2 DEF NInv, Types
<1>4. \A n \in Node : \A w \in waiting'[n] : recv'[w[2]] = w[1] /\ Home[w[2]] = n
  <2> SUFFICES ASSUME NEW n \in Node, NEW w \in waiting'[n]
               PROVE  recv[w[2]] = w[1] /\ Home[w[2]] = n
    BY <1>1
  <2>1. w \in waiting[n] \/ (n = Home[t] /\ w = <<recv[t], t>>)
    BY <1>1, <1>2 DEF NInv, Types
  <2> QED
    BY <2>1 DEF NInv, NoTraceOfAbandonedRecv
<1>5. CASE UNCHANGED timerVars
  BY <1>1, <1>3, <1>4, <1>5 DEF timerVars, NInv, Types, NoTraceOfAbandonedRecv
<1>6. CASE Reaim(t)
  <2>1. /\ queue' \subseteq Event /\ nextSeq' \in Nat
        /\ armed' \in [Task -> Event \cup {NoEvent}]
        /\ \A u \in Task \ {t} : armed'[u] = armed[u]
        /\ \A e \in queue' : \/ e \in queue \ {armed[t]}
                             \/ e.waker = t /\ armed'[t] = e
    <3>1. CASE inFlight[Home[t]] = {} /\ queue' = queue \ {armed[t]}
               /\ armed' = [armed EXCEPT ![t] = NoEvent] /\ UNCHANGED nextSeq
      BY <3>1 DEF NInv, Types
    <3>2. ASSUME NEW m \in inFlight[Home[t]],
                 queue' = (queue \ {armed[t]}) \cup {[at |-> m.at, seq |-> nextSeq, waker |-> t]},
                 armed' = [armed EXCEPT ![t] = [at |-> m.at, seq |-> nextSeq, waker |-> t]],
                 nextSeq' = nextSeq + 1
          PROVE  /\ queue' \subseteq Event /\ nextSeq' \in Nat
                 /\ armed' \in [Task -> Event \cup {NoEvent}]
                 /\ \A u \in Task \ {t} : armed'[u] = armed[u]
                 /\ \A e \in queue' : \/ e \in queue \ {armed[t]}
                                      \/ e.waker = t /\ armed'[t] = e
      <4>1. m.at \in Instant
        BY <1>2, <3>2 DEF NInv, Types, Arrival
      <4>2. [at |-> m.at, seq |-> nextSeq, waker |-> t] \in Event
        BY <4>1 DEF NInv, Types, Event
      <4> QED
        BY <3>2, <4>2 DEF NInv, Types
    <3> QED
      BY <1>6, <3>1, <3>2 DEF Reaim
  <2>2. ASSUME NEW e \in queue'
        PROVE  recv'[e.waker] # NoWait /\ armed'[e.waker] = e
    <3>1. CASE e.waker = t /\ armed'[t] = e
      BY <1>1, <3>1
    <3>2. CASE e \in queue \ {armed[t]}
      <4>1. recv[e.waker] # NoWait /\ armed[e.waker] = e /\ e.waker \in Task
        BY <3>2 DEF NInv, Types, Event, NoTraceOfAbandonedRecv
      <4>2. e.waker # t
        BY <3>2, <4>1
      <4> QED
        BY <1>1, <2>1, <4>1, <4>2
    <3> QED
      BY <2>1, <2>2, <3>1, <3>2
  <2> QED
    BY <1>1, <1>3, <1>4, <2>1, <2>2 DEF NInv, Types, NoTraceOfAbandonedRecv
<1> QED
  BY <1>5, <1>6 DEF Block

LEMMA StepKeeps == NInv /\ [Next]_vars => NInv'
<1> SUFFICES ASSUME NInv, [Next]_vars PROVE NInv'
  OBVIOUS
<1>1. CASE UNCHANGED vars
  BY <1>1 DEF vars, NInv, Types, NoTraceOfAbandonedRecv
<1>2. CASE Idle
  BY <1>1, <1>2 DEF Idle
<1>3. CASE Advance
  <2>1. PICK e \in queue : ready' = {e.waker}
    BY <1>3 DEF Advance
  <2>2. e.waker \in Task
    BY <2>1 DEF NInv, Types, Event
  <2> QED
    BY <1>3, <2>2, LoopKeeps
<1>4. ASSUME NEW t \in Task, Resume(t) \/ Nudge(t) \/ Yield(t) PROVE NInv'
  BY <1>4, LoopKeeps
<1>5. ASSUME NEW t \in Task, NEW to \in Node, Send(t, to) PROVE NInv'
  BY <1>5, SendKeeps
<1>6. ASSUME NEW t \in Task, StartRecv(t) PROVE NInv'
  BY <1>6, StartRecvKeeps
<1>7. ASSUME NEW t \in Task, Receive(t) \/ Abandon(t) PROVE NInv'
  BY <1>7, DropKeeps
<1>8. ASSUME NEW t \in Task, Block(t) PROVE NInv'
  BY <1>8, BlockKeeps
<1> QED
  BY <1>1, <1>2, <1>3, <1>4, <1>5, <1>6, <1>7, <1>8 DEF Next, Loop, Poll

LEMMA InitHolds == Init => NInv
BY Apart DEF Init, NInv, Types, NoTraceOfAbandonedRecv

LEMMA InvHolds == Spec => []NInv
BY InitHolds, StepKeeps, PTL DEF Spec

--------------------------------------------------------------------------------
(* What leaves. *)

SentRecord == [from : Node, to : Node, at : Instant, copies : Nat]

\* What a send let through is what the timeline shows there allows.
AsShown(s) ==
    LET shows == Timeline(faults, s.from, s.to)[s.at]
        cut == shows # <<>> /\ shows[1].kind = "partition"
        odds == IF shows = <<>> THEN Links[<<s.from, s.to>>].loss ELSE shows[1].odds
    IN IF cut \/ odds.numerator = odds.denominator
       THEN s.copies = 0
       ELSE odds.numerator = 0 => s.copies > 0

CInv ==
    /\ NInv /\ faults \in Schedules
    /\ sent \in Seq(SentRecord)
    /\ \A i \in DOMAIN sent : AsShown(sent[i])

\* `first_applying`, and what shows on the timeline, are the same fault or none at all.
LEMMA FirstApplyingShows ==
    ASSUME NEW schedule \in Seq(Fault), NEW from, NEW to, NEW at,
           NEW shows, shows = Shown(schedule, from, to, 1, at)
    PROVE  \/ shows = <<>> /\ FirstApplying(schedule, from, to, at) = {}
           \/ \E i \in DOMAIN schedule :
                 /\ shows = <<schedule[i]>> /\ schedule[i] \in Fault
                 /\ FirstApplying(schedule, from, to, at) = {i}
<1> DEFINE T == InForceFrom(schedule, from, to, 1, at)
<1>1. T = InForce(schedule, from, to, at) /\ T \in SUBSET Nat /\ T \subseteq DOMAIN schedule
  BY DEF InForceFrom, InForce
<1>2. CASE T = {}
  BY <1>1, <1>2 DEF Shown, FirstApplying
<1>3. CASE T # {}
  <2> DEFINE i == LeastOf(T)
  <2>1. i \in T /\ \A y \in T : i <= y
    BY <1>1, <1>3, Least
  <2>2. \A j \in T : (\A y \in T : j <= y) => j = i
    <3> HIDE DEF T, i
    <3>1. \A j \in T : j \in Nat
      BY <1>1
    <3> QED
      BY <2>1, <3>1
  <2>3. FirstApplying(schedule, from, to, at) = {i}
    <3> HIDE DEF T, i
    <3> QED
      BY <1>1, <2>1, <2>2 DEF FirstApplying
  <2>4. shows = <<schedule[i]>>
    BY <1>3 DEF Shown
  <2>5. i \in DOMAIN schedule /\ schedule[i] \in Fault
    <3>1. i \in DOMAIN schedule
      BY <1>1, <2>1
    <3> QED
      BY <3>1
  <2> QED
    BY <2>3, <2>4, <2>5
<1> QED
  BY <1>2, <1>3

\* A draw at odds of always or never can come out one way only.
LEMMA SureDraws ==
    ASSUME NEW odds \in Odds
    PROVE  /\ odds.numerator = odds.denominator => FALSE \notin Draws(odds)
           /\ odds.numerator = 0 => TRUE \notin Draws(odds)
<1>1. odds.numerator \in Nat /\ odds.denominator \in Nat
  BY DEF Odds
<1>2. odds.numerator = odds.denominator => ~ (odds.numerator < odds.denominator)
  BY <1>1
<1>3. odds.numerator = 0 => ~ (odds.numerator > 0)
  BY <1>1
<1> QED
  BY <1>2, <1>3, Zenon DEF Draws

\* What may come of a send is what the timeline shows at its instant (`Wire::send`).
LEMMA OutcomesAsShown ==
    ASSUME Types, faults \in Schedules, NEW from, NEW to, <<from, to>> \in Routes,
           NEW copies \in Outcomes(from, to), NEW n, n = Len(copies), NEW s,
           s = [from |-> from, to |-> to, at |-> now, copies |-> n]
    PROVE  AsShown(s)
<1> DEFINE shows == Timeline(faults, from, to)[now]
           cut == shows # <<>> /\ shows[1].kind = "partition"
           odds == IF shows = <<>> THEN Links[<<from, to>>].loss ELSE shows[1].odds
<1>1. faults \in Seq(Fault) /\ Links[<<from, to>>].loss \in Odds /\ now \in Instant
  BY NetworkAssumption DEF Types
<1>2. shows = Shown(faults, from, to, 1, now)
  BY <1>1, TimelineShowsTheFirst
<1>3. /\ cut <=> Partitioned(faults, from, to, now)
      /\ ~ cut => LossOdds(faults, from, to, now, Links[<<from, to>>].loss) = odds
      /\ odds \in Odds
  <2>1. CASE shows = <<>> /\ FirstApplying(faults, from, to, now) = {}
    BY <1>1, <2>1 DEF Partitioned, LossOdds
  <2>2. ASSUME NEW i \in DOMAIN faults, shows = <<faults[i]>>, faults[i] \in Fault,
               FirstApplying(faults, from, to, now) = {i}
        PROVE  /\ cut <=> Partitioned(faults, from, to, now)
               /\ ~ cut => LossOdds(faults, from, to, now, Links[<<from, to>>].loss) = odds
               /\ odds \in Odds
    <3>1. shows # <<>> /\ shows[1] = faults[i]
      BY <2>2
    <3>2. cut <=> faults[i].kind = "partition"
      BY <3>1
    <3>3. odds = faults[i].odds /\ odds \in Odds
      BY <2>2, <3>1 DEF Fault
    <3>4. faults[i].kind \in {"partition", "loss"}
      BY <2>2 DEF Fault
    <3>5. (CHOOSE j \in {i} : TRUE) = i
      OBVIOUS
    <3> HIDE DEF shows, cut, odds
    <3> QED
      BY <2>2, <3>2, <3>3, <3>4, <3>5 DEF Partitioned, LossOdds
  <2>3. \/ shows = <<>> /\ FirstApplying(faults, from, to, now) = {}
        \/ \E i \in DOMAIN faults :
              /\ shows = <<faults[i]>> /\ faults[i] \in Fault
              /\ FirstApplying(faults, from, to, now) = {i}
    <3> HIDE DEF shows
    <3> QED
      BY <1>1, <1>2, FirstApplyingShows
  <2> HIDE DEF shows, cut, odds
  <2> QED
    BY <2>1, <2>2, <2>3, Zenon
<1>4. Len(copies) \in Nat /\ (copies = <<>> <=> Len(copies) = 0)
  BY DEF Outcomes
<1>5. CASE cut
  <2>1. copies = <<>>
    BY <1>3, <1>5 DEF Outcomes
  <2> QED
    BY <1>4, <1>5, <2>1 DEF AsShown
<1>6. CASE ~ cut
  <2>1. (copies = <<>>) \in Draws(odds)
    <3> HIDE DEF cut, odds
    <3> QED
      BY <1>3, <1>6 DEF Outcomes
  <2>2. odds.numerator = odds.denominator => copies = <<>>
    <3> HIDE DEF odds
    <3> QED
      BY <1>3, <2>1, SureDraws
  <2>3. odds.numerator = 0 => copies # <<>>
    <3> HIDE DEF odds
    <3> QED
      BY <1>3, <2>1, SureDraws
  <2>4. odds.numerator = odds.denominator => n = 0
    BY <1>4, <2>2
  <2>5. odds.numerator = 0 => n > 0
    BY <1>4, <2>3
  <2> QED
    BY <1>6, <2>4, <2>5, Zenon DEF AsShown
<1> QED
  BY <1>5, <1>6

LEMMA SendIsRecorded ==
    ASSUME CInv, NEW t \in Task, NEW to \in Node, Send(t, to)
    PROVE  sent' \in Seq(SentRecord) /\ \A i \in DOMAIN sent' : AsShown(sent'[i])
<1>1. PICK copies \in Outcomes(Home[t], to) :
         sent' = Append(sent, [from |-> Home[t], to |-> to, at |-> now, copies |-> Len(copies)])
  BY DEF Send
<1>2. <<Home[t], to>> \in Routes /\ Home[t] \in Node
  BY Apart DEF Send
<1> DEFINE s == [from |-> Home[t], to |-> to, at |-> now, copies |-> Len(copies)]
<1>3. Len(copies) \in Nat
  BY <1>2, Filed DEF CInv, NInv
<1>4. s \in SentRecord
  BY <1>2, <1>3 DEF SentRecord, CInv, NInv, Types
<1>5. AsShown(s)
  BY <1>2, OutcomesAsShown DEF CInv, NInv
<1>6. sent \in Seq(SentRecord) /\ sent' = Append(sent, s)
  BY <1>1 DEF CInv
<1>7. \A i \in DOMAIN sent' : (i \in DOMAIN sent /\ sent'[i] = sent[i]) \/ sent'[i] = s
  <2> HIDE DEF s
  <2> QED
    BY <1>4, <1>6
<1> HIDE DEF s
<1> QED
  BY <1>4, <1>5, <1>6, <1>7 DEF CInv

LEMMA CarriedKeeps == CInv /\ [Next]_vars => CInv'
<1> SUFFICES ASSUME CInv, [Next]_vars PROVE CInv'
  OBVIOUS
<1>1. NInv'
  BY StepKeeps DEF CInv
<1>2. UNCHANGED faults
  BY DEF Next, Loop, Poll, Advance, Resume, Nudge, Idle, Send, StartRecv, Receive, Block,
         Abandon, Yield, vars
<1>3. UNCHANGED sent \/ \E t \in Task, to \in Node : Send(t, to)
  BY DEF Next, Loop, Poll, Advance, Resume, Nudge, Idle, StartRecv, Receive, Block,
         Abandon, Yield, vars
<1>4. sent' \in Seq(SentRecord) /\ \A i \in DOMAIN sent' : AsShown(sent'[i])
  BY <1>3, SendIsRecorded DEF CInv
<1>5. \A i : AsShown(sent'[i]) => AsShown(sent[i])'
  BY <1>2 DEF AsShown
<1> QED
  BY <1>1, <1>2, <1>4, <1>5 DEF CInv

--------------------------------------------------------------------------------
(* Theorems. *)

\* However a wait comes to an end, nothing it registered is left: no timer that would move
\* the clock and no waker (`Drop` of Recv).
THEOREM AbandonedRecvLeavesNoTrace == Spec => []NoTraceOfAbandonedRecv
BY InvHolds, PTL DEF NInv

\* Messages are taken once they land and in the order they land in, and land no sooner than
\* they were sent (`take_landed`, `saturating_add`).
THEOREM TakenAsTheyLand == Spec => TakenInOrderOfLanding
<1> DEFINE A == \A n \in Node :
          /\ \A m \in inFlight[n] \ inFlight'[n] :
                m.at <= now /\ \A k \in inFlight'[n] : Before(m, k)
          /\ \A m \in inFlight'[n] \ inFlight[n] : m.at >= now
<1>1. NInv /\ [Next]_vars => [A]_vars
  <2> SUFFICES ASSUME NInv, Next PROVE A
    OBVIOUS
  <2>1. ASSUME inFlight' = inFlight PROVE A
    BY <2>1
  <2>2. ASSUME NEW t \in Task, NEW to \in Node, Send(t, to) PROVE A
    BY <2>2, SendFiles
  <2>3. ASSUME NEW t \in Task, Receive(t) PROVE A
    <3>1. PICK m \in Landed(Home[t]) : inFlight' = [inFlight EXCEPT ![Home[t]] = @ \ {m}]
      BY <2>3 DEF Receive
    <3>2. /\ m.at <= now
          /\ \A k \in inFlight[Home[t]] : k = m \/ Before(m, k)
      BY DEF Landed, IsEarliest
    <3> QED
      BY <3>1, <3>2, Apart DEF NInv, Types
  <2>4. \/ inFlight' = inFlight
        \/ \E t \in Task, to \in Node : Send(t, to)
        \/ \E t \in Task : Receive(t)
    BY DEF Next, Loop, Poll, Advance, Resume, Nudge, Idle, StartRecv, Block, Abandon, Yield,
           boxVars, vars
  <2> QED
    BY <2>1, <2>2, <2>3, <2>4
<1> QED
  BY <1>1, InvHolds, PTL DEF Spec, TakenInOrderOfLanding

\* What left at each send is what the schedule, painted from its last fault to its first,
\* allowed at that instant, whatever the schedule, the links and the draws (`Wire::send`,
\* `first_applying`, `Window::holds`).
THEOREM FirstFaultDecides == Spec => []CarriedAsScheduled
<1>1. Init => CInv
  <2> SUFFICES ASSUME Init PROVE CInv
    OBVIOUS
  <2>1. NInv
    BY InitHolds
  <2> QED
    BY <2>1 DEF Init, CInv
<1>2. CInv => CarriedAsScheduled
  BY DEF CInv, AsShown, CarriedAsScheduled
<1> QED
  BY <1>1, <1>2, CarriedKeeps, PTL DEF Spec

--------------------------------------------------------------------------------
(* The shares of the workers. *)

\* The seeds a worker goes through.
Mine(w, s) == \E k \in Nat : s = w + k * workers

\* The seeds that go this way.
SeedsThat(how) == {s \in Seed : goes[s] = how}

\* What a worker has found to break, of the seeds behind it.
FoundBy(w) == {s \in Seed : Mine(w, s) /\ s < seed[w] /\ goes[s] = "breaks"}

LEMMA StrideFacts == ASSUME NEW k \in Nat, NEW n \in Nat PROVE k * n \in Nat /\ 0 * n = 0
OBVIOUS

LEMMA WholeStride ==
    ASSUME NEW k \in Nat, NEW l \in Nat, NEW n \in Nat, k < l
    PROVE  k * n + n <= l * n /\ k * n \in Nat /\ l * n \in Nat
<1>1. PICK d \in Nat : l = k + 1 + d
  <2>1. l - (k + 1) \in Nat /\ l = k + 1 + (l - (k + 1))
    OBVIOUS
  <2> QED
    BY <2>1
<1>2. d * n \in Nat /\ k * n \in Nat
  OBVIOUS
<1>3. l * n = k * n + n + d * n
  BY <1>1
<1> QED
  BY <1>2, <1>3

\* What is in the shares of two workers is in one and the same.
LEMMA OneShare ==
    ASSUME workers \in Nat \ {0}, NEW w \in Worker, NEW v \in Worker, NEW s \in Nat,
           Mine(w, s), Mine(v, s)
    PROVE  w = v
<1>1. PICK k \in Nat : s = w + k * workers
  BY DEF Mine
<1>2. PICK l \in Nat : s = v + l * workers
  BY DEF Mine
<1>3. w \in Nat /\ v \in Nat /\ w < workers /\ v < workers
  BY DEF Worker
<1>4. ~ k < l
  <2> SUFFICES ASSUME k < l PROVE FALSE
    OBVIOUS
  <2>1. k * workers + workers <= l * workers /\ k * workers \in Nat /\ l * workers \in Nat
    BY WholeStride
  <2> QED
    BY <1>1, <1>2, <1>3, <2>1
<1>5. ~ l < k
  <2> SUFFICES ASSUME l < k PROVE FALSE
    OBVIOUS
  <2>1. l * workers + workers <= k * workers /\ k * workers \in Nat /\ l * workers \in Nat
    BY WholeStride
  <2> QED
    BY <1>1, <1>2, <1>3, <2>1
<1>6. k = l
  BY <1>4, <1>5
<1>7. k * workers \in Nat
  OBVIOUS
<1> QED
  BY <1>1, <1>2, <1>3, <1>6, <1>7

LEMMA LeastExists ==
    ASSUME NEW S \in SUBSET Nat, S # {}
    PROVE  \E n \in S : \A m \in S : n <= m
<1>1. IsWellFoundedOn(OpToRel(<, Nat), Nat)
  BY NatLessThanWellFounded
<1>2. PICK n \in S : \A m \in S : ~ (<<m, n>> \in OpToRel(<, Nat))
  BY <1>1, WFMin
<1>3. \A m \in S : ~ (m < n)
  BY <1>2 DEF OpToRel
<1> QED
  BY <1>3

\* Every seed is somebody's.
LEMMA EverySeedIsShared ==
    ASSUME workers \in Nat \ {0}, NEW s \in Nat
    PROVE  \E w \in Worker : Mine(w, s)
<1> DEFINE Unshared == {r \in Nat : ~ \E w \in Worker : Mine(w, r)}
<1> SUFFICES Unshared = {}
  OBVIOUS
<1> SUFFICES ASSUME Unshared # {} PROVE FALSE
  OBVIOUS
<1>1. PICK r \in Unshared : \A m \in Unshared : r <= m
  <2> HIDE DEF Unshared
  <2>1. Unshared \in SUBSET Nat
    BY DEF Unshared
  <2> QED
    BY <2>1, LeastExists
<1>2. ~ r < workers
  <2> SUFFICES ASSUME r < workers PROVE FALSE
    OBVIOUS
  <2>1. r \in Worker
    BY DEF Worker
  <2>2. 0 * workers = 0 /\ r = r + 0
    OBVIOUS
  <2>3. r = r + 0 * workers /\ 0 \in Nat
    BY <2>2
  <2> QED
    BY <2>1, <2>3 DEF Mine
<1>3. r - workers \in Nat /\ r - workers < r
  BY <1>2
<1>4. PICK w \in Worker : Mine(w, r - workers)
  <2>1. r - workers \notin Unshared
    BY <1>1, <1>3
  <2> QED
    BY <1>3, <2>1
<1>5. PICK k \in Nat : r - workers = w + k * workers
  BY <1>4 DEF Mine
<1>6. k + 1 \in Nat /\ (k + 1) * workers = k * workers + workers /\ k * workers \in Nat
  OBVIOUS
<1>7. r = w + (k + 1) * workers
  <2>1. w \in Nat
    BY DEF Worker
  <2> QED
    BY <1>3, <1>5, <1>6, <2>1
<1>8. Mine(w, r)
  BY <1>6, <1>7 DEF Mine
<1> QED
  BY <1>8

\* The next seed of a share is the one after the stride.
LEMMA NextOfShare ==
    ASSUME workers \in Nat \ {0}, NEW w \in Worker, NEW at \in Nat, Mine(w, at)
    PROVE  /\ Mine(w, at + workers) /\ at + workers \in Nat
           /\ \A s \in Nat : Mine(w, s) => (s < at + workers <=> s < at \/ s = at)
<1>1. PICK k \in Nat : at = w + k * workers
  BY DEF Mine
<1>2. w \in Nat /\ k + 1 \in Nat /\ (k + 1) * workers = k * workers + workers /\ k * workers \in Nat
  BY DEF Worker
<1>3. at + workers = w + (k + 1) * workers
  BY <1>1, <1>2
<1>4. Mine(w, at + workers)
  BY <1>2, <1>3 DEF Mine
<1>5. ASSUME NEW s \in Nat, Mine(w, s) PROVE s < at + workers <=> s < at \/ s = at
  <2>1. PICK l \in Nat : s = w + l * workers
    BY <1>5 DEF Mine
  <2>2. l * workers \in Nat
    OBVIOUS
  <2>3. CASE l = k
    BY <1>1, <1>2, <2>1, <2>2, <2>3
  <2>4. CASE l < k
    <3>1. l * workers + workers <= k * workers
      BY <2>4, WholeStride
    <3> QED
      BY <1>1, <1>2, <2>1, <2>2, <3>1
  <2>5. CASE k < l
    <3>1. k * workers + workers <= l * workers
      BY <2>5, WholeStride
    <3> QED
      BY <1>1, <1>2, <2>1, <2>2, <3>1
  <2> QED
    BY <2>3, <2>4, <2>5
<1> QED
  BY <1>4, <1>5

--------------------------------------------------------------------------------
(* A sweep that is under way. *)

SweepTypes ==
    /\ seeds \in Nat \ {0} /\ workers \in Nat \ {0}
    /\ goes \in [Seed -> {"holds", "breaks", "errs", "panics"}]
    /\ seed \in [Worker -> Nat] /\ broke \in [Worker -> Seq(Nat)]
    /\ worked \in [Worker -> {"working", "found", "unfinished", "panicked"}]
    /\ joined \in 0 .. workers

Rising(found) == \A i, j \in DOMAIN found : i < j => found[i] < found[j]

\* A worker is at a seed of its own, all of its own behind that ran to an end, and those of
\* them that broke it has found, in order.
GoneThrough(w) ==
    /\ Mine(w, seed[w])
    /\ \A s \in Seed : Mine(w, s) /\ s < seed[w] => goes[s] \in {"holds", "breaks"}
    /\ Range(broke[w]) = FoundBy(w) /\ Rising(broke[w])

\* Why a worker is at work no more.
Halted(w) ==
    /\ worked[w] = "found" => seed[w] >= seeds
    /\ worked[w] = "unfinished" => seed[w] \in SeedsThat("errs")
    /\ worked[w] = "panicked" => seed[w] \in SeedsThat("panics")
    /\ w < joined => worked[w] \in {"found", "unfinished"}

\* The answer is said by the seeds.
SaidOf(found) ==
    /\ SeedsThat("errs") = {} /\ SeedsThat("panics") = {}
    /\ found \in Seq(Nat) /\ Range(found) = SeedsThat("breaks")
    /\ \A k \in 2 .. Len(found) : found[k - 1] < found[k]

Concluded ==
    \/ answer = Nothing
    \/ answer = Panic /\ SeedsThat("panics") # {}
    \/ \E found : answer = Survey(found) /\ SaidOf(found)
    \/ \E s \in SeedsThat("errs") : answer = Unfinished(s) /\ \A r \in SeedsThat("errs") : s <= r

Sweeping ==
    /\ SweepTypes
    /\ \A w \in Worker : GoneThrough(w) /\ Halted(w)
    /\ Concluded

LEMMA LeastFacts ==
    ASSUME NEW S \in SUBSET Nat, S # {}
    PROVE  Min(S) \in S /\ \A m \in S : Min(S) <= m
<1>1. \E n \in S : \A m \in S : n <= m
  BY LeastExists
<1> QED
  BY <1>1 DEF Min

LEMMA SmallestIs ==
    ASSUME NEW S \in SUBSET Nat, NEW n \in S, \A m \in S : n <= m
    PROVE  Min(S) = n
<1>1. Min(S) \in S /\ \A m \in S : Min(S) <= m
  BY LeastFacts
<1>2. Min(S) <= n /\ n <= Min(S) /\ Min(S) \in Nat /\ n \in Nat
  BY <1>1
<1> QED
  BY <1>2

\* One more is found, behind all the others.
LEMMA FoundOneMore ==
    ASSUME NEW found \in Seq(Nat), NEW s \in Nat, Rising(found), \A r \in Range(found) : r < s
    PROVE  /\ Append(found, s) \in Seq(Nat) /\ Rising(Append(found, s))
           /\ Range(Append(found, s)) = Range(found) \cup {s}
<1> DEFINE more == Append(found, s) len == Len(found)
<1>1. /\ more \in Seq(Nat) /\ len \in Nat
      /\ DOMAIN found = 1 .. len /\ DOMAIN more = 1 .. len + 1
      /\ more[len + 1] = s /\ \A i \in 1 .. len : more[i] = found[i] /\ found[i] \in Nat
  OBVIOUS
<1> HIDE DEF more, len
<1>2. Range(more) = Range(found) \cup {s}
  <2>1. ASSUME NEW r \in Range(more) PROVE r \in Range(found) \cup {s}
    <3>1. PICK i \in 1 .. len + 1 : r = more[i]
      BY <1>1 DEF Range
    <3>2. CASE i = len + 1
      BY <1>1, <3>1, <3>2
    <3>3. CASE i \in 1 .. len
      BY <1>1, <3>1, <3>3 DEF Range
    <3> QED
      BY <1>1, <3>2, <3>3
  <2>2. ASSUME NEW r \in Range(found) PROVE r \in Range(more)
    <3>1. PICK i \in 1 .. len : r = found[i]
      BY <1>1 DEF Range
    <3>2. i \in 1 .. len + 1 /\ r = more[i]
      BY <1>1, <3>1
    <3> QED
      BY <1>1, <3>2 DEF Range
  <2>3. s \in Range(more)
    <3>1. len + 1 \in 1 .. len + 1
      BY <1>1
    <3> QED
      BY <1>1, <3>1 DEF Range
  <2> QED
    BY <2>1, <2>2, <2>3
<1>3. Rising(more)
  <2> SUFFICES ASSUME NEW i \in 1 .. len + 1, NEW j \in 1 .. len + 1, i < j
               PROVE  more[i] < more[j]
    BY <1>1 DEF Rising
  <2>1. i \in 1 .. len /\ found[i] \in Range(found)
    BY <1>1 DEF Range
  <2>2. CASE j = len + 1
    BY <1>1, <2>1, <2>2
  <2>3. CASE j \in 1 .. len
    BY <1>1, <2>1, <2>3 DEF Rising
  <2> QED
    BY <1>1, <2>2, <2>3
<1> QED
  BY <1>1, <1>2, <1>3 DEF more

\* Every worker starts at its own number.
LEMMA SweepBegins ==
    ASSUME NoSweep, NEW count \in Nat \ {0}, NEW jobs \in Nat \ {0}, NEW how,
           how \in [0 .. count - 1 -> {"holds", "breaks", "errs", "panics"}],
           Begin(count, jobs, how)
    PROVE  Sweeping'
<1>1. /\ seeds' = count /\ workers' = Started(jobs, count) /\ goes' = how
      /\ seed' = [w \in 0 .. workers' - 1 |-> w]
      /\ broke' = [w \in 0 .. workers' - 1 |-> <<>>]
      /\ worked' = [w \in 0 .. workers' - 1 |-> "working"]
      /\ joined' = 0 /\ answer' = Nothing
  BY DEF NoSweep, Begin
<1>2. workers' \in Nat \ {0}
  <2>1. {jobs, count} \in SUBSET Nat /\ {jobs, count} # {}
    OBVIOUS
  <2>2. Min({jobs, count}) \in {jobs, count}
    BY <2>1, LeastFacts
  <2> QED
    BY <1>1, <2>2 DEF Started
<1>3. SweepTypes'
  <2>1. seed' \in [Worker' -> Nat]
    BY <1>1, <1>2 DEF Worker
  <2>2. broke' \in [Worker' -> Seq(Nat)]
    BY <1>1 DEF Worker
  <2>3. worked' \in [Worker' -> {"working", "found", "unfinished", "panicked"}]
    BY <1>1 DEF Worker
  <2> QED
    BY <1>1, <1>2, <2>1, <2>2, <2>3 DEF SweepTypes, Seed
<1>4. ASSUME NEW w \in Worker' PROVE GoneThrough(w)' /\ Halted(w)'
  <2>1. seed'[w] = w /\ broke'[w] = <<>> /\ worked'[w] = "working" /\ w \in Nat
    BY <1>1, <1>2, <1>4 DEF Worker
  <2>2. Mine(w, w)'
    <3>1. 0 * workers' = 0
      BY <1>2, StrideFacts
    <3>2. w = w + 0 * workers' /\ 0 \in Nat
      BY <2>1, <3>1
    <3> QED
      BY <3>2 DEF Mine
  <2>3. ASSUME NEW s \in Nat, Mine(w, s)' PROVE ~ s < w
    <3>1. PICK k \in Nat : s = w + k * workers'
      BY <2>3 DEF Mine
    <3>2. k * workers' \in Nat
      BY <1>2, StrideFacts
    <3> QED
      BY <2>1, <3>1, <3>2
  <2>4. Seed' \subseteq Nat
    BY <1>1 DEF Seed
  <2>5. Range(broke'[w]) = {} /\ Rising(broke'[w])
    BY <2>1 DEF Range, Rising
  <2>6. FoundBy(w)' = {}
    BY <2>1, <2>3, <2>4 DEF FoundBy
  <2>7. ~ w < 0
    BY <2>1
  <2> QED
    BY <1>1, <2>1, <2>2, <2>3, <2>4, <2>5, <2>6, <2>7 DEF GoneThrough, Halted
<1> QED
  BY <1>1, <1>3, <1>4 DEF Sweeping, Concluded

\* What does not change what a worker is at does not change what it went through.
LEMMA StaysAsItIs ==
    ASSUME UNCHANGED <<seeds, workers, goes>>, NEW w \in Worker,
           seed'[w] = seed[w], broke'[w] = broke[w]
    PROVE  /\ \A s : Mine(w, s)' <=> Mine(w, s)
           /\ GoneThrough(w)' <=> GoneThrough(w)
<1>1. \A s : Mine(w, s)' <=> Mine(w, s)
  BY DEF Mine
<1>2. FoundBy(w)' = FoundBy(w)
  BY <1>1 DEF FoundBy, Seed
<1>3. Range(broke[w])' = Range(broke[w]) /\ (Rising(broke[w])' <=> Rising(broke[w]))
  OBVIOUS
<1> QED
  BY <1>1, <1>2, <1>3 DEF GoneThrough, Seed

\* Nothing about the seeds is changed by anything but the end of the process.
LEMMA SeedsStay ==
    ASSUME UNCHANGED <<seeds, workers, goes>>
    PROVE  /\ Seed' = Seed /\ Worker' = Worker
           /\ \A how : SeedsThat(how)' = SeedsThat(how)
BY DEF Seed, Worker, SeedsThat

LEMMA ConcludedStays ==
    ASSUME UNCHANGED <<seeds, workers, goes, answer>>, Concluded
    PROVE  Concluded'
<1>1. \A how : SeedsThat(how)' = SeedsThat(how)
  BY SeedsStay
<1> QED
  BY <1>1 DEF Concluded, SaidOf

LEMMA RunKeeps == ASSUME Sweeping, NEW w \in Worker, Run(w) PROVE Sweeping'
<1>1. /\ worked[w] = "working" /\ seed[w] < seeds
      /\ UNCHANGED <<seeds, workers, goes, joined, answer>>
  BY DEF Run
<1>2. /\ Seed' = Seed /\ Worker' = Worker /\ \A how : SeedsThat(how)' = SeedsThat(how)
  BY <1>1, SeedsStay
<1>3. /\ seeds \in Nat \ {0} /\ workers \in Nat \ {0}
      /\ seed[w] \in Nat /\ seed[w] \in Seed /\ broke[w] \in Seq(Nat)
      /\ goes[seed[w]] \in {"holds", "breaks", "errs", "panics"}
      /\ \A v \in Worker : seed[v] \in Nat
      /\ GoneThrough(w) /\ Halted(w)
  BY <1>1 DEF Sweeping, SweepTypes, Seed
<1>4. Concluded'
  BY <1>1, ConcludedStays DEF Sweeping
<1>5. w \in Nat /\ joined \in Nat /\ ~ w < joined
  BY <1>1, <1>3 DEF Halted, Worker, Sweeping, SweepTypes
<1>6. CASE goes[seed[w]] \in {"holds", "breaks"}
  <2> DEFINE at == seed[w]
  <2>1. /\ broke' = IF goes[at] = "breaks" THEN [broke EXCEPT ![w] = Append(broke[w], at)] ELSE broke
        /\ seed' = [seed EXCEPT ![w] = at + workers] /\ worked' = worked
    BY <1>6 DEF Run
  <2>2. /\ Mine(w, at) /\ Rising(broke[w]) /\ Range(broke[w]) = FoundBy(w)
        /\ \A s \in Seed : Mine(w, s) /\ s < at => goes[s] \in {"holds", "breaks"}
    BY <1>3 DEF GoneThrough
  <2>3. /\ Mine(w, at + workers) /\ at + workers \in Nat
        /\ \A s \in Nat : Mine(w, s) => (s < at + workers <=> s < at \/ s = at)
    BY <1>3, <2>2, NextOfShare
  <2>4. /\ Append(broke[w], at) \in Seq(Nat) /\ Rising(Append(broke[w], at))
        /\ Range(Append(broke[w], at)) = Range(broke[w]) \cup {at}
    <3>1. \A r \in Range(broke[w]) : r < at
      BY <2>2 DEF FoundBy
    <3> QED
      BY <1>3, <2>2, <3>1, FoundOneMore
  <2>5. SweepTypes'
    <3>1. seed' \in [Worker -> Nat]
      BY <2>1, <2>3 DEF Sweeping, SweepTypes
    <3>2. broke' \in [Worker -> Seq(Nat)]
      BY <2>1, <2>4 DEF Sweeping, SweepTypes
    <3> QED
      BY <1>1, <1>2, <2>1, <3>1, <3>2 DEF Sweeping, SweepTypes
  <2>6. ASSUME NEW v \in Worker PROVE GoneThrough(v)' /\ Halted(v)'
    <3>1. GoneThrough(v) /\ Halted(v)
      BY DEF Sweeping
    <3>2. CASE v # w
      <4>1. seed'[v] = seed[v] /\ broke'[v] = broke[v] /\ worked'[v] = worked[v]
        BY <2>1, <3>2 DEF Sweeping, SweepTypes
      <4>2. GoneThrough(v)'
        BY <1>1, <3>1, <4>1, StaysAsItIs
      <4> QED
        BY <1>1, <1>2, <3>1, <4>1, <4>2 DEF Halted
    <3>3. CASE v = w
      <4>1. /\ seed'[w] = at + workers /\ worked'[w] = "working"
            /\ broke'[w] = IF goes[at] = "breaks" THEN Append(broke[w], at) ELSE broke[w]
        BY <1>1, <2>1 DEF Sweeping, SweepTypes
      <4>2. \A s : Mine(w, s)' <=> Mine(w, s)
        BY <1>1 DEF Mine
      <4>3. Mine(w, seed[w])'
        BY <2>3, <4>1, <4>2
      <4>4. Seed \subseteq Nat
        BY <1>3 DEF Seed
      <4>5. \A s \in Seed' : Mine(w, s)' /\ s < seed'[w] => goes'[s] \in {"holds", "breaks"}
        BY <1>1, <1>2, <1>6, <2>2, <2>3, <4>1, <4>2, <4>4
      <4>6. FoundBy(w)' = {s \in Seed : Mine(w, s) /\ (s < at \/ s = at) /\ goes[s] = "breaks"}
        <5>1. FoundBy(w)' = {s \in Seed : Mine(w, s) /\ s < at + workers /\ goes[s] = "breaks"}
          BY <1>1, <1>2, <4>1, <4>2 DEF FoundBy
        <5> QED
          BY <2>3, <4>4, <5>1
      <4>7. Range(broke'[w]) = FoundBy(w)' /\ Rising(broke'[w])
        <5>1. CASE goes[at] = "breaks"
          <6>1. FoundBy(w)' = FoundBy(w) \cup {at}
            BY <1>3, <2>2, <4>6, <5>1 DEF FoundBy
          <6> QED
            BY <2>2, <2>4, <4>1, <5>1, <6>1
        <5>2. CASE goes[at] # "breaks"
          <6>1. FoundBy(w)' = FoundBy(w)
            BY <4>6, <5>2 DEF FoundBy
          <6> QED
            BY <2>2, <4>1, <5>2, <6>1
        <5> QED
          BY <5>1, <5>2
      <4>8. GoneThrough(w)'
        BY <4>3, <4>5, <4>7 DEF GoneThrough
      <4>9. Halted(w)'
        BY <1>1, <1>5, <4>1 DEF Halted
      <4> QED
        BY <3>3, <4>8, <4>9
    <3> QED
      BY <3>2, <3>3
  <2> QED
    BY <1>2, <1>4, <2>5, <2>6 DEF Sweeping
<1>7. CASE goes[seed[w]] \in {"errs", "panics"}
  <2>1. /\ UNCHANGED <<seed, broke>>
        /\ worked' = [worked EXCEPT ![w] = IF goes[seed[w]] = "errs" THEN "unfinished" ELSE "panicked"]
    BY <1>7 DEF Run
  <2>2. SweepTypes'
    BY <1>1, <1>2, <2>1 DEF Sweeping, SweepTypes
  <2>3. ASSUME NEW v \in Worker PROVE GoneThrough(v)' /\ Halted(v)'
    <3>1. GoneThrough(v) /\ Halted(v) /\ seed'[v] = seed[v] /\ broke'[v] = broke[v]
      BY <2>1 DEF Sweeping
    <3>2. GoneThrough(v)'
      BY <1>1, <3>1, StaysAsItIs
    <3>3. CASE v # w
      <4>1. worked'[v] = worked[v]
        BY <2>1, <3>3 DEF Sweeping, SweepTypes
      <4> QED
        BY <1>1, <1>2, <3>1, <3>2, <4>1 DEF Halted
    <3>4. CASE v = w
      <4>1. worked'[w] = IF goes[seed[w]] = "errs" THEN "unfinished" ELSE "panicked"
        BY <2>1 DEF Sweeping, SweepTypes
      <4>2. goes[seed[w]] = "errs" => seed[w] \in SeedsThat("errs")
        BY <1>3 DEF SeedsThat
      <4>3. goes[seed[w]] = "panics" => seed[w] \in SeedsThat("panics")
        BY <1>3 DEF SeedsThat
      <4> QED
        BY <1>1, <1>2, <1>5, <1>7, <2>1, <3>2, <3>4, <4>1, <4>2, <4>3 DEF Halted
    <3> QED
      BY <3>3, <3>4
  <2> QED
    BY <1>2, <1>4, <2>2, <2>3 DEF Sweeping
<1> QED
  BY <1>3, <1>6, <1>7

LEMMA ReturnKeeps == ASSUME Sweeping, NEW w \in Worker, Return(w) PROVE Sweeping'
<1>1. /\ worked[w] = "working" /\ seed[w] >= seeds
      /\ worked' = [worked EXCEPT ![w] = "found"]
      /\ UNCHANGED <<seeds, workers, goes, seed, broke, joined, answer>>
  BY DEF Return
<1>2. /\ Seed' = Seed /\ Worker' = Worker /\ \A how : SeedsThat(how)' = SeedsThat(how)
  BY <1>1, SeedsStay
<1>3. Concluded'
  BY <1>1, ConcludedStays DEF Sweeping
<1>4. SweepTypes'
  BY <1>1, <1>2 DEF Sweeping, SweepTypes
<1>5. ASSUME NEW v \in Worker PROVE GoneThrough(v)' /\ Halted(v)'
  <2>1. GoneThrough(v) /\ Halted(v) /\ seed'[v] = seed[v] /\ broke'[v] = broke[v]
    BY <1>1 DEF Sweeping
  <2>2. GoneThrough(v)'
    BY <1>1, <2>1, StaysAsItIs
  <2>3. worked'[v] = IF v = w THEN "found" ELSE worked[v]
    BY <1>1 DEF Sweeping, SweepTypes
  <2> QED
    BY <1>1, <1>2, <2>1, <2>2, <2>3 DEF Halted
<1> QED
  BY <1>2, <1>3, <1>4, <1>5 DEF Sweeping

LEMMA JoinKeeps == ASSUME Sweeping, Join PROVE Sweeping'
<1>1. /\ joined < workers /\ worked[joined] \in {"found", "unfinished"} /\ joined' = joined + 1
      /\ UNCHANGED <<seeds, workers, goes, seed, broke, worked, answer>>
  BY DEF Join
<1>2. /\ Seed' = Seed /\ Worker' = Worker /\ \A how : SeedsThat(how)' = SeedsThat(how)
  BY <1>1, SeedsStay
<1>3. Concluded'
  BY <1>1, ConcludedStays DEF Sweeping
<1>4. joined \in Nat /\ workers \in Nat /\ joined' \in 0 .. workers
  BY <1>1 DEF Sweeping, SweepTypes
<1>5. SweepTypes'
  BY <1>1, <1>2, <1>4 DEF Sweeping, SweepTypes
<1>6. ASSUME NEW v \in Worker PROVE GoneThrough(v)' /\ Halted(v)'
  <2>1. GoneThrough(v) /\ Halted(v) /\ seed'[v] = seed[v] /\ broke'[v] = broke[v]
    BY <1>1 DEF Sweeping
  <2>2. GoneThrough(v)'
    BY <1>1, <2>1, StaysAsItIs
  <2>3. v < joined' <=> v < joined \/ v = joined
    BY <1>1, <1>4 DEF Worker
  <2> QED
    BY <1>1, <1>2, <2>1, <2>2, <2>3 DEF Halted
<1> QED
  BY <1>2, <1>3, <1>5, <1>6 DEF Sweeping

LEMMA UnwindKeeps == ASSUME Sweeping, Unwind PROVE Sweeping'
<1>1. /\ joined < workers /\ worked[joined] = "panicked" /\ answer' = Panic
      /\ UNCHANGED <<seeds, workers, goes, seed, broke, worked, joined>>
  BY DEF Unwind
<1>2. /\ Seed' = Seed /\ Worker' = Worker /\ \A how : SeedsThat(how)' = SeedsThat(how)
  BY <1>1, SeedsStay
<1>3. joined \in Worker
  BY <1>1 DEF Sweeping, SweepTypes, Worker
<1>4. SeedsThat("panics") # {}
  BY <1>1, <1>3 DEF Sweeping, Halted
<1>5. Concluded'
  BY <1>1, <1>2, <1>4 DEF Concluded
<1>6. SweepTypes'
  BY <1>1, <1>2 DEF Sweeping, SweepTypes
<1>7. ASSUME NEW v \in Worker PROVE GoneThrough(v)' /\ Halted(v)'
  <2>1. GoneThrough(v) /\ Halted(v) /\ seed'[v] = seed[v] /\ broke'[v] = broke[v]
    BY <1>1 DEF Sweeping
  <2>2. GoneThrough(v)'
    BY <1>1, <2>1, StaysAsItIs
  <2> QED
    BY <1>1, <1>2, <2>1, <2>2 DEF Halted
<1> QED
  BY <1>2, <1>5, <1>6, <1>7 DEF Sweeping

LEMMA ImageIsFinite ==
    ASSUME NEW S, NEW T, IsFiniteSet(S), NEW f \in [S -> T], \A t \in T : \E s \in S : f[s] = t
    PROVE  IsFiniteSet(T)
<1>1. f \in Surjection(S, T)
  BY DEF Surjection
<1> QED
  BY <1>1, FS_Surjection

\* What all the workers found is finite, and so the list made of it has all of it.
LEMMA FindingIsFinite == ASSUME Sweeping PROVE IsFiniteSet(Finding)
<1> DEFINE At(w) == {<<w, i>> : i \in DOMAIN broke[w]}
<1>1. IsFiniteSet(Worker)
  BY FS_Interval DEF Worker, Sweeping, SweepTypes
<1>2. IsFiniteSet({At(w) : w \in Worker})
  <2> DEFINE f == [w \in Worker |-> At(w)] T == {At(w) : w \in Worker}
  <2>1. f \in [Worker -> T] /\ \A t \in T : \E w \in Worker : f[w] = t
    OBVIOUS
  <2> HIDE DEF f, T
  <2>2. IsFiniteSet(T)
    BY <1>1, <2>1, ImageIsFinite
  <2> QED
    BY <2>2 DEF T
<1>3. ASSUME NEW w \in Worker PROVE IsFiniteSet(At(w))
  <2>1. DOMAIN broke[w] = 1 .. Len(broke[w]) /\ Len(broke[w]) \in Nat
    BY DEF Sweeping, SweepTypes
  <2>2. IsFiniteSet(DOMAIN broke[w])
    BY <2>1, FS_Interval
  <2> DEFINE f == [i \in DOMAIN broke[w] |-> <<w, i>>] T == At(w)
  <2>3. f \in [DOMAIN broke[w] -> T] /\ \A t \in T : \E i \in DOMAIN broke[w] : f[i] = t
    OBVIOUS
  <2> HIDE DEF f, T
  <2>4. IsFiniteSet(T)
    BY <2>2, <2>3, ImageIsFinite
  <2> QED
    BY <2>4 DEF T
<1>4. Finding = UNION {At(w) : w \in Worker}
  BY DEF Finding
<1> QED
  <2>1. \A T \in {At(w) : w \in Worker} : IsFiniteSet(T)
    BY <1>3
  <2> HIDE DEF At
  <2> QED
    BY <1>2, <1>4, <2>1, FS_UNION

LEMMA ListHasAll ==
    ASSUME NEW S, IsFiniteSet(S), NEW list \in SetToSeqs(S)
    PROVE  /\ Cardinality(S) \in Nat
           /\ list \in [1 .. Cardinality(S) -> S]
           /\ \A k, l \in 1 .. Cardinality(S) : k # l => list[k] # list[l]
           /\ \A x \in S : \E k \in 1 .. Cardinality(S) : list[k] = x
<1> DEFINE D == 1 .. Cardinality(S)
<1>1. Cardinality(S) \in Nat
  BY FS_CardinalityType
<1>2. IsFiniteSet(D) /\ Cardinality(D) = Cardinality(S)
  BY <1>1, FS_Interval
<1>3. list \in [D -> S] /\ \A k, l \in D : k # l => list[k] # list[l]
  BY DEF SetToSeqs
<1> HIDE DEF D
<1>4. list \in Injection(D, S)
  BY <1>3 DEF Injection, IsInjective
<1>5. list \in Surjection(D, S)
  BY <1>2, <1>4, FS_Injection
<1>6. \A x \in S : \E k \in D : list[k] = x
  BY <1>5 DEF Surjection
<1> QED
  BY <1>1, <1>3, <1>6 DEF D

\* A finding is a seed that broke, in the share of its worker.
LEMMA FindingFacts ==
    ASSUME Sweeping, NEW finding \in Finding
    PROVE  \E w \in Worker : \E i \in DOMAIN broke[w] :
              finding = <<w, i>> /\ SeedAt(finding) = broke[w][i] /\ broke[w][i] \in FoundBy(w)
<1>1. PICK w \in Worker : finding \in {<<w, i>> : i \in DOMAIN broke[w]}
  BY DEF Finding
<1>2. PICK i \in DOMAIN broke[w] : finding = <<w, i>>
  BY <1>1
<1>3. SeedAt(finding) = broke[w][i]
  BY <1>2 DEF SeedAt
<1>4. broke[w][i] \in Range(broke[w])
  BY DEF Range
<1>5. Range(broke[w]) = FoundBy(w)
  BY DEF Sweeping, GoneThrough
<1> QED
  BY <1>2, <1>3, <1>4, <1>5

\* No seed is found twice.
LEMMA FoundOnce ==
    ASSUME Sweeping, NEW one \in Finding, NEW other \in Finding, SeedAt(one) = SeedAt(other)
    PROVE  one = other
<1>a. PICK w \in Worker : \E i \in DOMAIN broke[w] :
         one = <<w, i>> /\ SeedAt(one) = broke[w][i] /\ broke[w][i] \in FoundBy(w)
  BY FindingFacts
<1>1. PICK i \in DOMAIN broke[w] :
         one = <<w, i>> /\ SeedAt(one) = broke[w][i] /\ broke[w][i] \in FoundBy(w)
  BY <1>a
<1>b. PICK v \in Worker : \E j \in DOMAIN broke[v] :
         other = <<v, j>> /\ SeedAt(other) = broke[v][j] /\ broke[v][j] \in FoundBy(v)
  BY FindingFacts
<1>2. PICK j \in DOMAIN broke[v] :
         other = <<v, j>> /\ SeedAt(other) = broke[v][j] /\ broke[v][j] \in FoundBy(v)
  BY <1>b
<1>3. Seed \subseteq Nat /\ workers \in Nat \ {0}
  BY DEF Seed, Sweeping, SweepTypes
<1>4. w = v
  <2>1. broke[w][i] \in Nat /\ Mine(w, broke[w][i]) /\ Mine(v, broke[w][i])
    BY <1>1, <1>2, <1>3 DEF FoundBy
  <2> QED
    BY <1>3, <2>1, OneShare
<1>5. i \in Nat /\ j \in Nat /\ broke[w][i] \in Nat
  BY <1>1, <1>3, <1>4 DEF FoundBy, Sweeping, SweepTypes
<1>6. ~ i < j /\ ~ j < i
  BY <1>1, <1>2, <1>4, <1>5 DEF Sweeping, GoneThrough, Rising
<1> QED
  BY <1>1, <1>2, <1>4, <1>5, <1>6

\* Where every worker is through with its share, all seeds were run.
LEMMA AllWereRun ==
    ASSUME Sweeping, NEW s \in Seed
    PROVE  \E w \in Worker : /\ Mine(w, s)
                             /\ worked[w] = "found" => s < seed[w] /\ goes[s] \in {"holds", "breaks"}
                             /\ s < seed[w] => goes[s] \in {"holds", "breaks"}
<1>1. s \in Nat /\ s < seeds /\ seeds \in Nat /\ workers \in Nat \ {0}
  BY DEF Seed, Sweeping, SweepTypes
<1>2. PICK w \in Worker : Mine(w, s)
  BY <1>1, EverySeedIsShared
<1>3. s < seed[w] => goes[s] \in {"holds", "breaks"}
  BY <1>2 DEF Sweeping, GoneThrough
<1>4. worked[w] = "found" => s < seed[w]
  BY <1>1 DEF Sweeping, Halted, SweepTypes
<1> QED
  BY <1>2, <1>3, <1>4

LEMMA MergedIsSaid ==
    ASSUME Sweeping, \A w \in Worker : worked[w] = "found", NEW found \in Merged
    PROVE  SaidOf(found)
<1>1. PICK list \in SetToSeqs(Finding) :
         BySeed(list) /\ found = [k \in DOMAIN list |-> SeedAt(list[k])]
  BY DEF Merged
<1> DEFINE n == Cardinality(Finding)
<1>2. /\ n \in Nat /\ list \in [1 .. n -> Finding]
      /\ \A k, l \in 1 .. n : k # l => list[k] # list[l]
      /\ \A x \in Finding : \E k \in 1 .. n : list[k] = x
  BY FindingIsFinite, ListHasAll
<1> HIDE DEF n
<1>3. ASSUME NEW finding \in Finding PROVE SeedAt(finding) \in SeedsThat("breaks")
  BY FindingFacts DEF FoundBy, SeedsThat
<1>4. SeedsThat("breaks") \subseteq Nat
  BY DEF SeedsThat, Seed
<1>5. found = [k \in 1 .. n |-> SeedAt(list[k])]
  BY <1>1, <1>2
<1>6. found \in Seq(Nat) /\ Len(found) = n
  <2>1. found \in [1 .. n -> Nat]
    BY <1>2, <1>3, <1>4, <1>5
  <2> QED
    BY <1>2, <2>1
<1>7. Range(found) = SeedsThat("breaks")
  <2>1. ASSUME NEW s \in Range(found) PROVE s \in SeedsThat("breaks")
    <3>1. PICK k \in 1 .. n : s = SeedAt(list[k])
      BY <1>5 DEF Range
    <3> QED
      BY <1>2, <1>3, <3>1
  <2>2. ASSUME NEW s \in SeedsThat("breaks") PROVE s \in Range(found)
    <3>1. s \in Seed /\ goes[s] = "breaks"
      BY DEF SeedsThat
    <3>2. PICK w \in Worker : Mine(w, s) /\ s < seed[w]
      BY <3>1, AllWereRun
    <3>3. s \in Range(broke[w])
      BY <3>1, <3>2 DEF Sweeping, GoneThrough, FoundBy
    <3>4. PICK i \in DOMAIN broke[w] : s = broke[w][i]
      BY <3>3 DEF Range
    <3>5. <<w, i>> \in Finding /\ SeedAt(<<w, i>>) = s
      BY <3>4 DEF Finding, SeedAt
    <3>6. PICK k \in 1 .. n : list[k] = <<w, i>>
      BY <1>2, <3>5
    <3> QED
      BY <1>5, <3>5, <3>6 DEF Range
  <2> QED
    BY <2>1, <2>2
<1>8. ASSUME NEW k \in 2 .. Len(found) PROVE found[k - 1] < found[k]
  <2>1. k \in 1 .. n /\ k - 1 \in 1 .. n /\ k # k - 1 /\ k \in 2 .. n
    BY <1>2, <1>6
  <2>2. list[k] \in Finding /\ list[k - 1] \in Finding /\ list[k] # list[k - 1]
    BY <1>2, <2>1
  <2>3. found[k] = SeedAt(list[k]) /\ found[k - 1] = SeedAt(list[k - 1])
    BY <1>5, <2>1
  <2>4. found[k] # found[k - 1] /\ found[k] \in Nat /\ found[k - 1] \in Nat
    BY <1>3, <1>4, <2>2, <2>3, FoundOnce
  <2>5. found[k - 1] <= found[k]
    <3>1. Len(list) = n
      BY <1>2
    <3> QED
      BY <1>1, <2>1, <2>3, <3>1 DEF BySeed
  <2> QED
    BY <2>4, <2>5
<1>9. SeedsThat("errs") = {} /\ SeedsThat("panics") = {}
  BY AllWereRun DEF SeedsThat
<1> QED
  BY <1>6, <1>7, <1>8, <1>9 DEF SaidOf

\* The lowest seed a worker could not finish is the lowest there is.
LEMMA LowestIsSaid ==
    ASSUME Sweeping, \A w \in Worker : worked[w] \in {"found", "unfinished"},
           \E w \in Worker : worked[w] = "unfinished"
    PROVE  LowestUnfinished \in SeedsThat("errs") /\ \A r \in SeedsThat("errs") : LowestUnfinished <= r
<1> DEFINE Stuck == {seed[w] : w \in {v \in Worker : worked[v] = "unfinished"}}
<1>1. Stuck \in SUBSET Nat /\ Stuck # {} /\ Stuck \subseteq SeedsThat("errs")
  <2>1. ASSUME NEW w \in Worker, worked[w] = "unfinished"
        PROVE  seed[w] \in SeedsThat("errs") /\ seed[w] \in Nat
    BY <2>1 DEF Sweeping, SweepTypes, Halted
  <2> QED
    BY <2>1
<1>2. LowestUnfinished \in Stuck /\ \A s \in Stuck : LowestUnfinished <= s
  <2>1. LowestUnfinished = Min(Stuck)
    BY DEF LowestUnfinished
  <2> HIDE DEF Stuck
  <2> QED
    BY <1>1, <2>1, LeastFacts
<1>3. ASSUME NEW r \in SeedsThat("errs") PROVE LowestUnfinished <= r
  <2>1. r \in Seed /\ r \in Nat /\ goes[r] = "errs"
    BY DEF SeedsThat, Seed
  <2>2. PICK w \in Worker : /\ worked[w] = "found" => goes[r] \in {"holds", "breaks"}
                            /\ r < seed[w] => goes[r] \in {"holds", "breaks"}
    BY <2>1, AllWereRun
  <2>3. worked[w] = "unfinished" /\ ~ r < seed[w] /\ seed[w] \in Nat
    BY <2>1, <2>2 DEF Sweeping, SweepTypes
  <2>4. LowestUnfinished <= seed[w] /\ LowestUnfinished \in Nat
    BY <1>1, <1>2, <2>3
  <2> QED
    BY <2>1, <2>3, <2>4
<1> QED
  BY <1>1, <1>2, <1>3

LEMMA MergeKeeps == ASSUME Sweeping, Merge PROVE Sweeping'
<1>1. /\ joined = workers
      /\ UNCHANGED <<seeds, workers, goes, seed, broke, worked, joined>>
  BY DEF Merge
<1>2. /\ Seed' = Seed /\ Worker' = Worker /\ \A how : SeedsThat(how)' = SeedsThat(how)
  BY <1>1, SeedsStay
<1>3. \A w \in Worker : worked[w] \in {"found", "unfinished"}
  BY <1>1 DEF Sweeping, SweepTypes, Halted, Worker
<1>4. Concluded'
  <2>1. CASE \E w \in Worker : worked[w] = "unfinished"
    <3>1. answer' = Unfinished(LowestUnfinished)
      BY <2>1 DEF Merge
    <3> QED
      BY <1>2, <1>3, <2>1, <3>1, LowestIsSaid DEF Concluded
  <2>2. CASE ~ \E w \in Worker : worked[w] = "unfinished"
    <3>1. PICK found \in Merged : answer' = Survey(found)
      BY <2>2 DEF Merge
    <3>2. SaidOf(found)
      BY <1>3, <2>2, MergedIsSaid
    <3>3. SaidOf(found)'
      BY <1>2, <3>2 DEF SaidOf
    <3> QED
      BY <3>1, <3>3 DEF Concluded
  <2> QED
    BY <2>1, <2>2
<1>5. SweepTypes'
  BY <1>1, <1>2 DEF Sweeping, SweepTypes
<1>6. ASSUME NEW v \in Worker PROVE GoneThrough(v)' /\ Halted(v)'
  <2>1. GoneThrough(v) /\ Halted(v) /\ seed'[v] = seed[v] /\ broke'[v] = broke[v]
    BY <1>1 DEF Sweeping
  <2>2. GoneThrough(v)'
    BY <1>1, <2>1, StaysAsItIs
  <2> QED
    BY <1>1, <1>2, <2>1, <2>2 DEF Halted
<1> QED
  BY <1>2, <1>4, <1>5, <1>6 DEF Sweeping

LEMMA SweepStepKeeps == ASSUME Sweeping, SweepStep PROVE Sweeping' /\ UNCHANGED <<seeds, goes>>
<1>1. ASSUME NEW w \in Worker, Run(w) \/ Return(w) PROVE Sweeping' /\ UNCHANGED <<seeds, goes>>
  <2>1. CASE Run(w)
    BY <2>1, RunKeeps DEF Run
  <2>2. CASE Return(w)
    BY <2>2, ReturnKeeps DEF Return
  <2> QED
    BY <1>1, <2>1, <2>2
<1>2. CASE Join
  BY <1>2, JoinKeeps DEF Join
<1>3. CASE Unwind
  BY <1>3, UnwindKeeps DEF Unwind
<1>4. CASE Merge
  BY <1>4, MergeKeeps DEF Merge
<1> QED
  BY <1>1, <1>2, <1>3, <1>4 DEF SweepStep

--------------------------------------------------------------------------------
(* Commands. *)

Sweeps == {"sweep", "hunt"}
Reducers == {"shrink", "corner"}

\* What is remembered of the runs says how each seed goes.
Learnt ==
    /\ \A run \in DOMAIN known : \E s \in Seed : goes[s] = Going(known[run])
    /\ \A s \in Seed : \E run \in DOMAIN known : goes[s] = Going(known[run])

AllPassed == \A run \in DOMAIN known : known[run] = Pass

\* A sweep is under way from when it is asked for until it answers, and nothing was asked for
\* before it; what it answered fits what is remembered.
Commanding ==
    /\ DOMAIN files = Path /\ deeds \in Nat /\ (deeds = 0 => known = <<>>)
    /\ IF seeds = 0 THEN NoSweep ELSE Sweeping /\ Learnt /\ MaxDeeds # 0
    /\ seeds # 0 <=> said.command \in Sweeps /\ said.exit = "none"
    /\ said.command \in Sweeps /\ said.exit # "none"
         => (said.exit # "panic" /\ said.result.is = "good" <=> AllPassed)

\* How a step leaves things that is no step of a sweep.
Plain(commands) ==
    /\ UNCHANGED sweeping
    /\ said'.command \in commands
    /\ DOMAIN files' = Path /\ deeds' \in Nat /\ (deeds' = 0 => known' = <<>>)

LEMMA PlainKeeps ==
    ASSUME Commanding, seeds = 0, NEW commands, commands \cap Sweeps = {}, Plain(commands)
    PROVE  Commanding'
<1>1. NoSweep'
  BY DEF Commanding, NoSweep, Plain, sweeping
<1>2. seeds' = 0
  BY DEF Plain, sweeping
<1>3. said'.command \notin Sweeps
  BY DEF Plain
<1> QED
  BY <1>1, <1>2, <1>3 DEF Commanding, Plain

LEMMA GoodAndBad ==
    /\ \A news : Good(news).is = "good" /\ Good(news).news = news
    /\ \A why, line : Bad(why, line).is = "bad"
BY DEF Good, Bad

\* How commands end.
LEMMA TellsSays ==
    ASSUME NEW command, NEW path, NEW result, Tells(command, path, result), DOMAIN files = Path,
           deeds \in Nat, deeds < MaxDeeds
    PROVE  /\ said'.command = command /\ said'.on = path /\ said'.result = result
           /\ said'.exit \in {"failure", "success"}
           /\ DOMAIN files' = Path /\ deeds' \in Nat \ {0} /\ files' = files
<1>1. /\ deeds' = MaxDeeds /\ files' = files
      /\ \E out : said' = [command |-> command, on |-> path, result |-> result, exit |-> Exits(result, out)]
  BY DEF Tells, Finally
<1>2. MaxDeeds \in Nat \ {0}
  BY CommandAssumption
<1> QED
  BY <1>1, <1>2 DEF Exits

LEMMA CrashesSays ==
    ASSUME NEW command, NEW path, Crashes(command, path), DOMAIN files = Path,
           deeds \in Nat, deeds < MaxDeeds
    PROVE  /\ said'.command = command /\ said'.on = path /\ said'.exit = "panic"
           /\ DOMAIN files' = Path /\ deeds' \in Nat \ {0} /\ files' = files
<1>1. MaxDeeds \in Nat \ {0}
  BY CommandAssumption
<1> QED
  BY <1>1 DEF Crashes, Finally

LEMMA WritesSays ==
    ASSUME NEW command, NEW path, NEW result, NEW form, NEW value, NEW to,
           Writes(command, path, result, form, value, to), DOMAIN files = Path,
           deeds \in Nat, deeds < MaxDeeds
    PROVE  /\ said'.command = command /\ said'.on = path /\ said'.result = result
           /\ said'.exit \in {"failure", "success"}
           /\ DOMAIN files' = Path /\ deeds' \in Nat \ {0}
           /\ \A other \in Path : other # to => files'[other] = files[other]
<1>1. deeds' = MaxDeeds \/ deeds' = deeds + 1
  BY DEF Writes, Finally, GoingOn
<1>2. files' = files \/ \E text : files' = [files EXCEPT ![to] = text]
  BY DEF Writes
<1>3. \E out : said' = [command |-> command, on |-> path, result |-> result, exit |-> Exits(result, out)]
  BY DEF Writes
<1>4. MaxDeeds \in Nat \ {0}
  BY CommandAssumption
<1> QED
  BY <1>1, <1>2, <1>3, <1>4 DEF Exits

\* The commands that read a page, and those that only run.
Others == {"run", "trace", "replay", "inspect", "diff", "fork", "check", "reproduce", "refused", "none"}

LEMMA AloneFacts ==
    ASSUME Commanding, Alone
    PROVE  /\ seeds = 0 /\ deeds < MaxDeeds /\ UNCHANGED sweeping
           /\ DOMAIN files = Path /\ deeds \in Nat
BY DEF Commanding, Alone, Typed

LEMMA TellsIsPlain ==
    ASSUME Commanding, Alone, NEW commands, NEW command \in commands, NEW path, NEW result,
           Tells(command, path, result)
    PROVE  Plain(commands)
BY AloneFacts, TellsSays DEF Plain

LEMMA WritesIsPlain ==
    ASSUME Commanding, Alone, NEW commands, NEW command \in commands, NEW path, NEW result,
           NEW form, NEW value, NEW to, Writes(command, path, result, form, value, to)
    PROVE  Plain(commands)
BY AloneFacts, WritesSays DEF Plain

LEMMA CrashesIsPlain ==
    ASSUME Commanding, Alone, NEW commands, NEW command \in commands, NEW path,
           Crashes(command, path)
    PROVE  Plain(commands)
BY AloneFacts, CrashesSays DEF Plain

LEMMA VerdictIsPlain ==
    ASSUME Commanding, Alone, NEW commands, NEW command \in commands, NEW path, NEW outcome,
           NEW wanted, NEW otherwise, Verdict(command, path, outcome, wanted, otherwise)
    PROVE  Plain(commands)
<1>1. Crashes(command, path) \/ \E result : Tells(command, path, result)
  BY DEF Verdict
<1> QED
  BY <1>1, CrashesIsPlain, TellsIsPlain

\* A command that reads a page, or only runs, is plain.
LEMMA ReplayIsPlain == ASSUME Commanding, NEW path, Replay(path) PROVE Plain(Others)
<1>1. Alone /\ \E result : Tells("replay", path, result)
  BY DEF Replay
<1> QED
  BY <1>1, TellsIsPlain DEF Others

LEMMA InspectIsPlain == ASSUME Commanding, NEW path, NEW n, Inspect(path, n) PROVE Plain(Others)
<1>1. Alone /\ \E result : Tells("inspect", path, result)
  BY DEF Inspect
<1> QED
  BY <1>1, TellsIsPlain DEF Others

LEMMA DiffIsPlain == ASSUME Commanding, NEW path, NEW n, NEW m, Diff(path, n, m) PROVE Plain(Others)
<1>1. Alone /\ \E result : Tells("diff", path, result)
  BY DEF Diff
<1> QED
  BY <1>1, TellsIsPlain DEF Others

LEMMA ForkIsPlain ==
    ASSUME Commanding, NEW path, NEW n, NEW s, NEW to, Fork(path, n, s, to) PROVE Plain(Others)
<1>1. Alone /\ \E result, value : Writes("fork", path, result, "trace", value, to)
  BY DEF Fork
<1> QED
  BY <1>1, WritesIsPlain DEF Others

LEMMA RunSeedIsPlain == ASSUME Commanding, NEW s, NEW to, RunSeed(s, to) PROVE Plain(Others)
<1>1. Alone /\ \E value : Writes("run", to, Good(<<>>), "history", value, to)
  BY DEF RunSeed
<1> QED
  BY <1>1, WritesIsPlain DEF Others

LEMMA TraceSeedIsPlain == ASSUME Commanding, NEW s, NEW to, TraceSeed(s, to) PROVE Plain(Others)
<1>1. Alone /\ \E value : Writes("trace", to, Good(<<>>), "trace", value, to)
  BY DEF TraceSeed
<1> QED
  BY <1>1, WritesIsPlain DEF Others

LEMMA CheckIsPlain == ASSUME Commanding, NEW s, NEW path, Check(s, path) PROVE Plain(Others)
<1>1. /\ Alone
      /\ \/ \E result : Tells("check", path, result)
         \/ \E outcome, wanted : Verdict("check", path, outcome, wanted, "Broke")
  BY DEF Check
<1> QED
  BY <1>1, TellsIsPlain, VerdictIsPlain DEF Others

LEMMA ReproduceIsPlain == ASSUME Commanding, NEW path, Reproduce(path) PROVE Plain(Others)
<1>1. /\ Alone
      /\ \/ \E result : Tells("reproduce", path, result)
         \/ \E outcome, wanted : Verdict("reproduce", path, outcome, wanted, "NotReproduced")
  BY DEF Reproduce
<1> QED
  BY <1>1, TellsIsPlain, VerdictIsPlain DEF Others

LEMMA MistypeIsPlain == ASSUME Commanding, NEW text, Mistype(text) PROVE Plain(Others)
<1>1. MaxDeeds \in Nat \ {0} \/ MaxDeeds = 0
  BY CommandAssumption
<1>2. Alone /\ deeds' = MaxDeeds /\ files' = files /\ known' = known /\ said'.command = "refused"
  BY DEF Mistype, Finally
<1>3. deeds' \in Nat /\ deeds' # 0
  BY <1>1, <1>2, AloneFacts
<1> QED
  BY <1>2, <1>3, AloneFacts DEF Plain, Others

LEMMA RebuildIsPlain == ASSUME Commanding, Rebuild PROVE seeds = 0 /\ Plain(Others)
<1>1. /\ seeds = 0 /\ UNCHANGED sweeping /\ files' = files /\ deeds' = deeds + 1
      /\ known' = <<>> /\ said'.command = "none"
  BY DEF Rebuild, Quiet
<1> QED
  BY <1>1 DEF Plain, Others, Commanding

LEMMA HarmIsPlain == ASSUME Commanding, NEW path, Harm(path) PROVE seeds = 0 /\ Plain(Others)
<1>1. /\ seeds = 0 /\ UNCHANGED sweeping /\ deeds < MaxDeeds /\ known' = known
      /\ deeds' = (IF path = "faults" THEN MaxDeeds - 1 ELSE deeds + 1)
      /\ said'.command = "none" /\ \E text : files' = [files EXCEPT ![path] = text]
  BY DEF Harm, Quiet
<1>2. deeds \in Nat /\ DOMAIN files = Path /\ (deeds = 0 => known = <<>>) /\ MaxDeeds \in Nat
  BY CommandAssumption DEF Commanding
<1>3. deeds' \in Nat /\ (deeds' = 0 => deeds = 0)
  BY <1>1, <1>2
<1> QED
  BY <1>1, <1>2, <1>3 DEF Plain, Others

--------------------------------------------------------------------------------
(* Reductions. *)

\* What answers a reduction with anything but good news promises nothing.
LEMMA BadNewsIsTrue ==
    ASSUME said'.exit = "panic" \/ said'.result.is = "bad"
    PROVE  ReprosExpectTheirOwnRun'
BY DEF ReprosExpectTheirOwnRun, AnsweredWell, Answered

LEMMA ReductionIsSound ==
    ASSUME Commanding, Alone, NEW command \in Reducers, NEW path, NEW system, NEW s, NEW schedule,
           NEW to, Reduced(command, path, system, s, schedule, to),
           IF command = "shrink"
           THEN path \in Path /\ path # to /\ schedule = ReadSchedule(files[path]).value
           ELSE schedule = DrawnFor(s)
    PROVE  Plain(Reducers) /\ ReprosExpectTheirOwnRun'
<1>1. \/ Crashes(command, path)
      \/ \E why : Writes(command, path, Bad(why, 0), "repro", <<>>, to)
      \/ \E first, last, knowing, less :
            /\ NoMore(less, schedule)
            /\ known' = Knowing(knowing, SystemOf(system, s, less), last)
            /\ LET repro == [system |-> system, seed |-> s, faults |-> less,
                             expected |-> Expected(first, last)]
               IN Writes(command, path, Good(<<repro>>), "repro", repro, to)
  <2>1. PICK first : LET knowing == Knowing(known, SystemOf(system, s, schedule), first) IN
          \/ /\ first = Crash /\ known' = knowing /\ Crashes(command, path)
          \/ /\ first \in {Unrun, Pass} /\ known' = knowing
             /\ Writes(command, path, Bad(IF first = Unrun THEN "Run" ELSE "NothingToReduce", 0),
                       "repro", <<>>, to)
          \/ /\ first \notin {Crash, Unrun, Pass}
             /\ \E less \in {l \in Smaller \cup {schedule} : NoMore(l, schedule)} :
                \E last \in Comes(knowing, SystemOf(system, s, less)) :
                   /\ known' = Knowing(knowing, SystemOf(system, s, less), last)
                   /\ \/ last = Crash /\ Crashes(command, path)
                      \/ last = Unrun /\ Writes(command, path, Bad("Run", 0), "repro", <<>>, to)
                      \/ /\ last \notin {Crash, Unrun} /\ Reproduces(last, first)
                         /\ LET repro == [system |-> system, seed |-> s, faults |-> less,
                                          expected |-> Expected(first, last)]
                            IN Writes(command, path, Good(<<repro>>), "repro", repro, to)
    BY DEF Reduced
  <2> QED
    BY <2>1
<1>2. CASE Crashes(command, path)
  BY <1>2, AloneFacts, CrashesSays, CrashesIsPlain, BadNewsIsTrue
<1>3. ASSUME NEW why, Writes(command, path, Bad(why, 0), "repro", <<>>, to)
      PROVE  Plain(Reducers) /\ ReprosExpectTheirOwnRun'
  BY <1>3, AloneFacts, WritesSays, WritesIsPlain, GoodAndBad, BadNewsIsTrue
<1>4. ASSUME NEW first, NEW last, NEW knowing, NEW less, NEW repro, NoMore(less, schedule),
             known' = Knowing(knowing, SystemOf(system, s, less), last),
             repro = [system |-> system, seed |-> s, faults |-> less,
                      expected |-> Expected(first, last)],
             Writes(command, path, Good(<<repro>>), "repro", repro, to)
      PROVE  Plain(Reducers) /\ ReprosExpectTheirOwnRun'
  <2>1. Plain(Reducers)
    BY <1>4, WritesIsPlain
  <2>2. /\ said'.command = command /\ said'.on = path /\ said'.result = Good(<<repro>>)
        /\ \A other \in Path : other # to => files'[other] = files[other]
    BY <1>4, AloneFacts, WritesSays
  <2>3. said'.result.news[1] = repro
    BY <2>2, GoodAndBad
  <2>4. repro.system = system /\ repro.seed = s /\ repro.faults = less /\ repro.expected = last
    BY <1>4 DEF Expected
  <2>5. /\ SystemOf(system, s, less) \in DOMAIN known'
        /\ known'[SystemOf(system, s, less)] = last
    BY <1>4 DEF Knowing
  <2>6. schedule = IF said'.command = "shrink" THEN ReadSchedule(files'[said'.on]).value
                   ELSE DrawnFor(repro.seed)
    <3>1. CASE command = "shrink"
      <4>1. files'[path] = files[path]
        BY <2>2, <3>1
      <4> QED
        BY <2>2, <3>1, <4>1
    <3>2. CASE command # "shrink"
      BY <2>2, <2>4, <3>2
    <3> QED
      BY <3>1, <3>2
  <2>7. NoMore(repro.faults, IF said'.command = "shrink" THEN ReadSchedule(files'[said'.on]).value
                             ELSE DrawnFor(repro.seed))
    BY <1>4, <2>4, <2>6
  <2> QED
    BY <2>1, <2>3, <2>4, <2>5, <2>7 DEF ReprosExpectTheirOwnRun
<1> QED
  BY <1>1, <1>2, <1>3, <1>4

LEMMA ShrinkIsSound ==
    ASSUME Commanding, NEW s, NEW path \in Path, NEW to, ShrinkFaults(s, path, to)
    PROVE  Plain(Reducers) /\ ReprosExpectTheirOwnRun'
<1>1. Alone /\ to # path
  BY DEF ShrinkFaults
<1>2. CASE IsRead(ReadSchedule(files[path]))
  <2>1. Reduced("shrink", path, "quorum", s, ReadSchedule(files[path]).value, to)
    BY <1>2 DEF ShrinkFaults
  <2> QED
    BY <1>1, <2>1, ReductionIsSound DEF Reducers
<1>3. CASE ~ IsRead(ReadSchedule(files[path]))
  <2>1. Writes("shrink", path, Complaint(ReadSchedule(files[path])), "repro", <<>>, to)
    BY <1>3 DEF ShrinkFaults
  <2>2. said'.result.is = "bad"
    BY <1>1, <2>1, AloneFacts, WritesSays, GoodAndBad DEF Complaint
  <2> QED
    BY <1>1, <2>1, <2>2, WritesIsPlain, BadNewsIsTrue DEF Reducers
<1> QED
  BY <1>2, <1>3

LEMMA CornerIsSound ==
    ASSUME Commanding, NEW s, NEW to, Corner(s, to)
    PROVE  Plain(Reducers) /\ ReprosExpectTheirOwnRun'
<1>1. Alone /\ Reduced("corner", to, "reconciler", s, DrawnFor(s), to)
  BY DEF Corner
<1> QED
  BY <1>1, ReductionIsSound DEF Reducers

--------------------------------------------------------------------------------
(* A sweep, from one end to the other. *)

LEMMA GoingFacts ==
    /\ \A outcome : Going(outcome) \in {"holds", "breaks", "errs", "panics"}
    /\ \A outcome : Going(outcome) = "holds" <=> outcome = Pass
<1>1. Pass # Unrun /\ Pass # Crash
  BY DEF Pass, Unrun, Crash
<1>2. ASSUME NEW outcome PROVE /\ Going(outcome) \in {"holds", "breaks", "errs", "panics"}
                               /\ Going(outcome) = "holds" <=> outcome = Pass
  BY <1>1 DEF Going
<1> QED
  BY <1>2

LEMMA SweepStarts ==
    ASSUME Commanding, NEW command \in Sweeps, NEW path, NEW run,
           \A s \in 0 .. MaxSeeds - 1 : run[s][2] = s,
           BeginSweep(command, path, run)
    PROVE  Commanding' /\ said'.command \in Sweeps
<1>1. /\ seeds = 0 /\ deeds = 0 /\ deeds' = deeds + 1 /\ deeds < MaxDeeds
      /\ said' = [command |-> command, on |-> path, exit |-> "none"] /\ files' = files
  BY DEF BeginSweep, Typed, GoingOn
<1>2. NoSweep /\ known = <<>> /\ DOMAIN files = Path
  BY <1>1 DEF Commanding
<1>3. PICK count \in 1 .. MaxSeeds, jobs \in 1 .. MaxJobs :
         \E outcomes \in [0 .. count - 1 -> UNION {Endings(s) : s \in 0 .. count - 1}] :
            /\ known' = [r \in DOMAIN known \cup {run[s] : s \in 0 .. count - 1} |->
                           IF r \in DOMAIN known THEN known[r] ELSE outcomes[r[2]]]
            /\ Begin(count, jobs, [s \in 0 .. count - 1 |-> Going(outcomes[s])])
  BY DEF BeginSweep
<1>4. PICK outcomes :
            /\ known' = [r \in DOMAIN known \cup {run[s] : s \in 0 .. count - 1} |->
                           IF r \in DOMAIN known THEN known[r] ELSE outcomes[r[2]]]
            /\ Begin(count, jobs, [s \in 0 .. count - 1 |-> Going(outcomes[s])])
  BY <1>3
<1>5. count \in Nat \ {0} /\ jobs \in Nat \ {0} /\ count <= MaxSeeds /\ MaxSeeds \in Nat
  BY CommandAssumption
<1>6. [s \in 0 .. count - 1 |-> Going(outcomes[s])]
         \in [0 .. count - 1 -> {"holds", "breaks", "errs", "panics"}]
  BY GoingFacts
<1>7. Sweeping'
  BY <1>2, <1>4, <1>5, <1>6, SweepBegins
<1>8. seeds' = count /\ goes' = [s \in 0 .. count - 1 |-> Going(outcomes[s])] /\ seeds' # 0
  BY <1>4, <1>5 DEF Begin
<1>9. DOMAIN known = {}
  BY <1>2
<1>10. known' = [r \in {run[s] : s \in 0 .. count - 1} |-> outcomes[r[2]]]
  BY <1>4, <1>9
<1>11. \A s \in 0 .. count - 1 : run[s][2] = s
  BY <1>5
<1>12. Learnt'
  <2>1. ASSUME NEW r \in DOMAIN known' PROVE \E s \in Seed' : goes'[s] = Going(known'[r])
    <3>1. PICK s \in 0 .. count - 1 : r = run[s]
      BY <1>10
    <3> QED
      BY <1>8, <1>10, <1>11, <3>1 DEF Seed
  <2>2. ASSUME NEW s \in Seed' PROVE \E r \in DOMAIN known' : goes'[s] = Going(known'[r])
    <3>1. s \in 0 .. count - 1
      BY <1>8 DEF Seed
    <3>2. run[s] \in DOMAIN known' /\ known'[run[s]] = outcomes[s] /\ goes'[s] = Going(outcomes[s])
      BY <1>8, <1>10, <1>11, <3>1
    <3> QED
      BY <3>2
  <2> QED
    BY <2>1, <2>2 DEF Learnt
<1>13. deeds' = 1 /\ said'.command = command /\ said'.exit = "none" /\ MaxDeeds # 0
  BY <1>1
<1> QED
  BY <1>1, <1>2, <1>7, <1>8, <1>12, <1>13 DEF Commanding

LEMMA SweepSeedsStarts == ASSUME Commanding, SweepSeeds PROVE Commanding' /\ said'.command \in Sweeps
<1> DEFINE run == [s \in 0 .. MaxSeeds - 1 |->
                     SystemOf("quorum", s, ReadSchedule(files["faults"]).value)]
<1>1. \A s \in 0 .. MaxSeeds - 1 : run[s][2] = s
  BY DEF SystemOf
<1>2. BeginSweep("sweep", "faults", run)
  BY DEF SweepSeeds
<1>3. "sweep" \in Sweeps
  BY DEF Sweeps
<1> HIDE DEF run
<1> QED
  BY <1>1, <1>2, <1>3, SweepStarts

LEMMA HuntSeedsStarts == ASSUME Commanding, HuntSeeds PROVE Commanding' /\ said'.command \in Sweeps
<1> DEFINE run == [s \in 0 .. MaxSeeds - 1 |-> SystemOf("reconciler", s, DrawnFor(s))]
<1>1. \A s \in 0 .. MaxSeeds - 1 : run[s][2] = s
  BY DEF SystemOf
<1>2. BeginSweep("hunt", "faults", run)
  BY DEF HuntSeeds
<1>3. "hunt" \in Sweeps
  BY DEF Sweeps
<1> HIDE DEF run
<1> QED
  BY <1>1, <1>2, <1>3, SweepStarts

LEMMA WhileSweepingKeeps == ASSUME Commanding, WhileSweeping PROVE Commanding'
<1>1. SweepStep /\ UNCHANGED <<files, known, said, deeds>>
  BY DEF WhileSweeping, commandVars
<1>2. seeds # 0
  <2> SUFFICES ASSUME seeds = 0 PROVE FALSE
    OBVIOUS
  <2>1. workers = 0 /\ joined = 0 /\ Worker = {}
    BY DEF Commanding, NoSweep, Worker
  <2> QED
    BY <1>1, <2>1 DEF SweepStep, Join, Unwind, Merge
<1>3. Sweeping' /\ UNCHANGED <<seeds, goes>>
  BY <1>1, <1>2, SweepStepKeeps DEF Commanding
<1>4. Learnt'
  BY <1>1, <1>2, <1>3 DEF Commanding, Learnt, Seed
<1> QED
  BY <1>1, <1>2, <1>3, <1>4 DEF Commanding, AllPassed

\* What the seeds say is what the runs of them say.
LEMMA PassedOrNot ==
    ASSUME Sweeping, Learnt
    PROVE  AllPassed <=> \A s \in Seed : goes[s] = "holds"
BY GoingFacts DEF Learnt, AllPassed

LEMMA SweepEndsWell == ASSUME Commanding, SweepEnds PROVE Commanding' /\ said'.command \in Sweeps
<1>1. /\ answer # Nothing /\ NoSweep' /\ known' = known
      /\ \/ answer = Panic /\ Crashes(said.command, said.on)
         \/ /\ answer # Panic
            /\ Tells(said.command, said.on,
                     IF answer.is = "unfinished" THEN Bad("Unfinished", answer.seed)
                     ELSE IF answer.broke = <<>> THEN Good(<<>>) ELSE Bad("SomeSeedsBroke", 0))
  BY DEF SweepEnds, Leave, NoSweep
<1>2. seeds # 0 /\ Sweeping /\ Learnt /\ said.command \in Sweeps /\ MaxDeeds # 0
  BY <1>1 DEF Commanding, NoSweep
<1>3. AllPassed' <=> \A s \in Seed : goes[s] = "holds"
  BY <1>1, <1>2, PassedOrNot DEF AllPassed
<1>4. MaxDeeds \in Nat /\ DOMAIN files = Path
  BY CommandAssumption DEF Commanding
<1>5. /\ deeds' = MaxDeeds /\ files' = files
      /\ said'.command = said.command /\ said'.exit # "none"
  <2>1. CASE answer = Panic
    BY <1>1, <2>1 DEF Crashes, Finally
  <2>2. CASE answer # Panic
    BY <1>1, <2>2 DEF Tells, Finally, Exits
  <2> QED
    BY <2>1, <2>2
<1>6. said'.exit # "panic" /\ said'.result.is = "good" <=> \A s \in Seed : goes[s] = "holds"
  <2>1. CASE answer = Panic /\ SeedsThat("panics") # {}
    <3>1. Crashes(said.command, said.on)
      BY <1>1, <2>1
    <3>2. said'.exit = "panic"
      BY <3>1 DEF Crashes
    <3> QED
      BY <2>1, <3>2 DEF SeedsThat
  <2>2. ASSUME NEW found, answer = Survey(found), SaidOf(found)
        PROVE  said'.exit # "panic" /\ said'.result.is = "good" <=> \A s \in Seed : goes[s] = "holds"
    <3>1. answer.is = "survey" /\ answer.broke = found /\ answer # Panic
      BY <2>2 DEF Survey, Panic
    <3>2. Tells(said.command, said.on, IF found = <<>> THEN Good(<<>>) ELSE Bad("SomeSeedsBroke", 0))
      BY <1>1, <3>1
    <3>3. /\ said'.exit # "panic"
          /\ said'.result = IF found = <<>> THEN Good(<<>>) ELSE Bad("SomeSeedsBroke", 0)
      BY <3>2 DEF Tells, Exits
    <3>4. said'.result.is = "good" <=> found = <<>>
      BY <3>3, GoodAndBad
    <3>5. found = <<>> <=> SeedsThat("breaks") = {}
      <4>1. found \in Seq(Nat) /\ Range(found) = SeedsThat("breaks")
        BY <2>2 DEF SaidOf
      <4>2. found = <<>> => Range(found) = {}
        BY DEF Range
      <4>3. found # <<>> => found[1] \in Range(found)
        BY <4>1 DEF Range
      <4> QED
        BY <4>1, <4>2, <4>3
    <3>6. SeedsThat("errs") = {} /\ SeedsThat("panics") = {}
      BY <2>2 DEF SaidOf
    <3>7. \A s \in Seed : goes[s] \in {"holds", "breaks", "errs", "panics"}
      BY <1>2 DEF Sweeping, SweepTypes
    <3>8. SeedsThat("breaks") = {} <=> \A s \in Seed : goes[s] = "holds"
      BY <3>6, <3>7 DEF SeedsThat
    <3> QED
      BY <3>3, <3>4, <3>5, <3>8
  <2>3. ASSUME NEW s \in SeedsThat("errs"), answer = Unfinished(s)
        PROVE  said'.exit # "panic" /\ said'.result.is = "good" <=> \A r \in Seed : goes[r] = "holds"
    <3>1. answer.is = "unfinished" /\ answer # Panic
      BY <2>3 DEF Unfinished, Panic
    <3>2. Tells(said.command, said.on, Bad("Unfinished", answer.seed))
      BY <1>1, <3>1
    <3>3. said'.result.is = "bad"
      BY <3>2, GoodAndBad DEF Tells
    <3>4. s \in Seed /\ goes[s] = "errs"
      BY DEF SeedsThat
    <3> QED
      BY <3>3, <3>4
  <2> QED
    BY <1>1, <1>2, <2>1, <2>2, <2>3 DEF Sweeping, Concluded
<1>7. seeds' = 0
  BY <1>1 DEF NoSweep
<1> QED
  BY <1>1, <1>2, <1>3, <1>4, <1>5, <1>6, <1>7 DEF Commanding

--------------------------------------------------------------------------------
(* Any run of commands. *)

\* The runs: what was asked for, and the promise of the last reproduction.
CLInv == Commanding /\ ReprosExpectTheirOwnRun

LEMMA SweepsPromiseNothing ==
    ASSUME said'.command \notin Reducers
    PROVE  ReprosExpectTheirOwnRun'
BY DEF ReprosExpectTheirOwnRun, AnsweredWell, Answered, Reducers

LEMMA CommandInitHolds == CommandInit => CLInv
<1> SUFFICES ASSUME CommandInit PROVE CLInv
  OBVIOUS
<1>1. NoSweep /\ said = Quiet /\ deeds = 0 /\ known = <<>> /\ DOMAIN files = Path
  BY DEF CommandInit
<1>2. seeds = 0 /\ said.command = "none"
  BY <1>1 DEF NoSweep, Quiet
<1>3. Commanding
  BY <1>1, <1>2 DEF Commanding, Sweeps
<1>4. ReprosExpectTheirOwnRun
  BY <1>2 DEF ReprosExpectTheirOwnRun, AnsweredWell, Answered
<1> QED
  BY <1>3, <1>4 DEF CLInv

\* A step of any command but a sweep.
LEMMA PlainIsSound ==
    ASSUME Commanding, seeds = 0, Plain(Others) \/ (Plain(Reducers) /\ ReprosExpectTheirOwnRun')
    PROVE  CLInv'
<1>1. Others \cap Sweeps = {} /\ Reducers \cap Sweeps = {} /\ Others \cap Reducers = {}
  BY DEF Others, Sweeps, Reducers
<1>2. CASE Plain(Others)
  <2>1. Commanding'
    BY <1>1, <1>2, PlainKeeps
  <2>2. said'.command \notin Reducers
    BY <1>1, <1>2 DEF Plain
  <2> QED
    BY <2>1, <2>2, SweepsPromiseNothing DEF CLInv
<1>3. CASE Plain(Reducers) /\ ReprosExpectTheirOwnRun'
  BY <1>1, <1>3, PlainKeeps DEF CLInv
<1> QED
  BY <1>2, <1>3

LEMMA CommandStepKeeps == CLInv /\ [CommandNext]_allVars => CLInv'
<1> SUFFICES ASSUME CLInv, [CommandNext]_allVars PROVE CLInv'
  OBVIOUS
<1>1. Commanding /\ ReprosExpectTheirOwnRun
  BY DEF CLInv
<1>2. ASSUME NEW s, RunSeed(s, "page") \/ TraceSeed(s, "page") \/ ShrinkFaults(s, "faults", "page")
                      \/ Corner(s, "page")
      PROVE  CLInv'
  <2>1. Alone
    BY <1>2 DEF RunSeed, TraceSeed, ShrinkFaults, Corner
  <2>2. seeds = 0 /\ "faults" \in Path
    BY <1>1, <2>1, AloneFacts DEF Path
  <2> QED
    BY <1>1, <1>2, <2>2, RunSeedIsPlain, TraceSeedIsPlain, ShrinkIsSound, CornerIsSound, PlainIsSound
<1>3. ASSUME NEW s, Check(s, "faults") PROVE CLInv'
  <2>1. seeds = 0
    BY <1>1, <1>3, AloneFacts DEF Check
  <2> QED
    BY <1>1, <1>3, <2>1, CheckIsPlain, PlainIsSound
<1>4. ASSUME NEW path, \/ Replay(path) \/ Reproduce(path)
                       \/ \E n : \/ Inspect(path, n)
                                 \/ \E m : Diff(path, n, m)
                                 \/ \E s : Fork(path, n, s, "other")
      PROVE  CLInv'
  <2>1. Alone
    BY <1>4 DEF Replay, Reproduce, Inspect, Diff, Fork
  <2>2. seeds = 0
    BY <1>1, <2>1, AloneFacts
  <2>3. Plain(Others)
    BY <1>1, <1>4, ReplayIsPlain, ReproduceIsPlain, InspectIsPlain, DiffIsPlain, ForkIsPlain
  <2> QED
    BY <1>1, <2>2, <2>3, PlainIsSound
<1>5. ASSUME NEW path, Harm(path) PROVE CLInv'
  BY <1>1, <1>5, HarmIsPlain, PlainIsSound
<1>6. ASSUME SweepSeeds \/ HuntSeeds \/ SweepEnds PROVE CLInv'
  <2>1. Commanding' /\ said'.command \in Sweeps
    BY <1>1, <1>6, SweepSeedsStarts, HuntSeedsStarts, SweepEndsWell
  <2>2. said'.command \notin Reducers
    BY <2>1 DEF Sweeps, Reducers
  <2> QED
    BY <2>1, <2>2, SweepsPromiseNothing DEF CLInv
<1>7. ASSUME UNCHANGED <<files, known, said>> PROVE ReprosExpectTheirOwnRun'
  BY <1>1, <1>7 DEF ReprosExpectTheirOwnRun, AnsweredWell, Answered
<1>8. CASE WhileSweeping
  <2>1. UNCHANGED <<files, known, said>>
    BY <1>8 DEF WhileSweeping, commandVars
  <2> QED
    BY <1>1, <1>7, <1>8, <2>1, WhileSweepingKeeps DEF CLInv
<1>9. ASSUME NEW text, Mistype(text) PROVE CLInv'
  <2>1. seeds = 0
    BY <1>1, <1>9, AloneFacts DEF Mistype
  <2> QED
    BY <1>1, <1>9, <2>1, MistypeIsPlain, PlainIsSound
<1>10. CASE Rebuild
  BY <1>1, <1>10, RebuildIsPlain, PlainIsSound
<1>11. CASE UNCHANGED allVars
  <2>1. UNCHANGED <<files, known, said, deeds>> /\ UNCHANGED sweeping
    BY <1>11 DEF allVars, commandVars
  <2>2. Commanding'
    <3>1. UNCHANGED <<seeds, workers, goes, seed, broke, worked, joined, answer>>
      BY <2>1 DEF sweeping
    <3>2. NoSweep => NoSweep'
      BY <3>1 DEF NoSweep
    <3>3. Sweeping => Sweeping'
      <4> SUFFICES ASSUME Sweeping PROVE Sweeping'
        OBVIOUS
      <4>1. Seed' = Seed /\ Worker' = Worker /\ \A how : SeedsThat(how)' = SeedsThat(how)
        BY <3>1, SeedsStay
      <4>2. SweepTypes'
        BY <3>1, <4>1 DEF Sweeping, SweepTypes
      <4>3. Concluded'
        BY <3>1, ConcludedStays DEF Sweeping
      <4>4. ASSUME NEW w \in Worker PROVE GoneThrough(w)' /\ Halted(w)'
        BY <3>1, <4>1, StaysAsItIs DEF Sweeping, Halted
      <4> QED
        BY <4>1, <4>2, <4>3, <4>4 DEF Sweeping
    <3>4. (Learnt => Learnt') /\ (AllPassed' <=> AllPassed)
      BY <2>1, <3>1 DEF Learnt, AllPassed, Seed
    <3> QED
      BY <1>1, <2>1, <3>1, <3>2, <3>3, <3>4 DEF Commanding
  <2> QED
    BY <1>7, <2>1, <2>2 DEF CLInv
<1>12. CASE CommandNext
  BY <1>2, <1>3, <1>4, <1>5, <1>6, <1>8, <1>9, <1>10, <1>12 DEF CommandNext
<1> QED
  BY <1>11, <1>12

LEMMA CommandsKeep == CommandSpec => []CLInv
BY CommandInitHolds, CommandStepKeeps, PTL DEF CommandSpec

LEMMA SeedsSayIt == CLInv => SaidBySeeds
<1> SUFFICES ASSUME CLInv PROVE SaidBySeeds
  OBVIOUS
<1>1. Commanding
  BY DEF CLInv
<1>2. /\ \A found : Survey(found).is = "survey" /\ Survey(found).broke = found
      /\ \A s : Unfinished(s).is = "unfinished" /\ Unfinished(s).seed = s
      /\ Nothing.is = "nothing" /\ Panic.is = "panic"
  BY DEF Survey, Unfinished, Nothing, Panic
<1>3. Concluded
  BY <1>1 DEF Commanding, NoSweep, Sweeping, Concluded
<1>4. /\ answer.is = "survey" => SaidOf(answer.broke)
      /\ answer.is = "panic" => SeedsThat("panics") # {}
      /\ answer.is = "unfinished" =>
            answer.seed \in SeedsThat("errs") /\ \A r \in SeedsThat("errs") : answer.seed <= r
  BY <1>2, <1>3 DEF Concluded
<1>5. answer.is = "unfinished" => SeedsThat("errs") # {} /\ answer.seed = Min(SeedsThat("errs"))
  <2> SUFFICES ASSUME answer.is = "unfinished"
               PROVE  SeedsThat("errs") # {} /\ answer.seed = Min(SeedsThat("errs"))
    OBVIOUS
  <2>1. SeedsThat("errs") \in SUBSET Nat
    BY DEF SeedsThat, Seed
  <2> QED
    BY <1>4, <2>1, SmallestIs
<1>6. AnsweredWell({"sweep", "hunt"}) <=>
         said.command \in {"sweep", "hunt"} /\ said.exit # "none"
           /\ \A run \in DOMAIN known : known[run] = Pass
  BY <1>1 DEF Commanding, AnsweredWell, Answered, Sweeps, AllPassed
<1> QED
  BY <1>4, <1>5, <1>6 DEF SaidBySeeds, SaidOf, SeedsThat

\* What a sweep comes back with is said by the seeds alone, whatever the number of seeds and of
\* workers and whichever worker was first (`sweep`, `stride`), and a script sees it succeed when
\* a check of each seed would (`held_up`).
THEOREM SweepsSayWhatTheSeedsSay == CommandSpec => []SaidBySeeds
BY CommandsKeep, SeedsSayIt, PTL

\* A repro expects what its own faults do, and those are no more than the ones it was made of,
\* whatever the runs come to and whatever befell the files (`reduced`).
THEOREM ReprosAreOfTheirOwnRun == CommandSpec => []ReprosExpectTheirOwnRun
<1>1. CLInv => ReprosExpectTheirOwnRun
  BY DEF CLInv
<1> QED
  BY <1>1, CommandsKeep, PTL

--------------------------------------------------------------------------------
(* Lists of tokens. *)

\* A list of two parts is opened by the first and goes on with the second.
LEMMA Parts ==
    ASSUME NEW S, NEW s \in Seq(S), NEW t \in Seq(S)
    PROVE  /\ SubSeq(s \o t, 1, Len(s)) = s
           /\ After(s \o t, Len(s)) = t
           /\ t # <<>> => Opens(s \o t, s)
<1> DEFINE u == s \o t
<1>1. /\ u \in Seq(S) /\ Len(u) = Len(s) + Len(t)
      /\ \A i \in 1 .. Len(s) + Len(t) : u[i] = IF i <= Len(s) THEN s[i] ELSE t[i - Len(s)]
  BY ConcatProperties
<1>2. Len(s) \in Nat /\ Len(t) \in Nat /\ Len(u) \in Nat
  BY <1>1
<1> HIDE DEF u
<1>3. SubSeq(u, 1, Len(s)) = s
  <2>1. \A i \in 1 .. Len(s) : u[i] \in S
    BY <1>1, <1>2
  <2>2. /\ SubSeq(u, 1, Len(s)) \in Seq(S) /\ Len(SubSeq(u, 1, Len(s))) = Len(s)
        /\ \A i \in 1 .. Len(s) : SubSeq(u, 1, Len(s))[i] = u[i]
    BY <1>2, <2>1, SubSeqProperties
  <2> QED
    BY <1>1, <1>2, <2>2, SeqEqual
<1>4. SubSeq(u, Len(s) + 1, Len(u)) = t
  <2>1. \A i \in Len(s) + 1 .. Len(u) : u[i] \in S
    BY <1>1, <1>2
  <2> DEFINE v == SubSeq(u, Len(s) + 1, Len(u))
  <2>2. /\ v \in Seq(S) /\ Len(v) = Len(t)
        /\ \A i \in 1 .. Len(t) : v[i] = u[Len(s) + 1 + i - 1]
    BY <1>1, <1>2, <2>1, SubSeqProperties
  <2> HIDE DEF v
  <2>3. ASSUME NEW i \in 1 .. Len(t) PROVE v[i] = t[i]
    <3>1. v[i] = u[Len(s) + i]
      BY <1>2, <2>2
    <3>2. Len(s) + i \in 1 .. Len(s) + Len(t) /\ ~ Len(s) + i <= Len(s)
      BY <1>2
    <3>3. u[Len(s) + i] = t[Len(s) + i - Len(s)] /\ Len(s) + i - Len(s) = i
      BY <1>1, <1>2, <3>2
    <3> QED
      BY <3>1, <3>3
  <2>4. v = t
    BY <2>2, <2>3, SeqEqual
  <2> QED
    BY <2>4 DEF v
<1>5. ASSUME t # <<>> PROVE IsStrictPrefix(s, u)
  <2>1. Len(t) > 0
    BY <1>5, EmptySeq
  <2>2. s # u /\ Len(s) <= Len(u) /\ SubSeq(s, 1, Len(s)) = s
    BY <1>1, <1>2, <2>1, SubSeqFull
  <2> QED
    BY <1>3, <2>2 DEF IsStrictPrefix, IsPrefix
<1> QED
  BY <1>3, <1>4, <1>5 DEF After, Opens, u

\* A list that has the one and then the other is the two put together.
LEMMA Glued ==
    ASSUME NEW S, NEW s \in Seq(S), NEW t \in Seq(S), NEW u \in Seq(S),
           Len(u) = Len(s) + Len(t),
           \A i \in 1 .. Len(s) : u[i] = s[i],
           \A i \in 1 .. Len(t) : u[Len(s) + i] = t[i]
    PROVE  s \o t = u
<1>1. /\ s \o t \in Seq(S) /\ Len(s \o t) = Len(s) + Len(t)
      /\ \A i \in 1 .. Len(s) + Len(t) : (s \o t)[i] = IF i <= Len(s) THEN s[i] ELSE t[i - Len(s)]
  BY ConcatProperties
<1>2. Len(s) \in Nat /\ Len(t) \in Nat
  OBVIOUS
<1> DEFINE v == s \o t
<1> HIDE DEF v
<1>3. ASSUME NEW i \in 1 .. Len(s) + Len(t) PROVE v[i] = u[i]
  <2>1. CASE i <= Len(s)
    BY <1>1, <1>2, <2>1 DEF v
  <2>2. CASE ~ i <= Len(s)
    <3> DEFINE j == i - Len(s)
    <3>1. j \in 1 .. Len(t) /\ i = Len(s) + j /\ v[i] = t[j]
      BY <1>1, <1>2, <2>2 DEF v
    <3> QED
      BY <3>1
  <2> QED
    BY <2>1, <2>2
<1>4. v = u
  BY <1>1, <1>3, SeqEqual DEF v
<1> QED
  BY <1>4 DEF v

\* Lists of a few tokens, put together.
LEMMA OneAndOne ==
    ASSUME NEW a, NEW b
    PROVE  <<a>> \o <<b>> = <<a, b>>
<1> DEFINE s == <<a>>
           t == <<b>>
           u == <<a, b>>
           S == {a, b}
<1>1. /\ s \in Seq(S) /\ Len(s) = 1
      /\ s[1] = a
  OBVIOUS
<1>2. /\ t \in Seq(S) /\ Len(t) = 1
      /\ t[1] = b
  OBVIOUS
<1>3. /\ u \in Seq(S) /\ Len(u) = 2
      /\ u[1] = a /\ u[2] = b
  OBVIOUS
<1> HIDE DEF s, t, u, S
<1>4. \A k \in 1 .. Len(s) : u[k] = s[k]
  BY <1>1, <1>3
<1>5. \A k \in 1 .. Len(t) : u[Len(s) + k] = t[k]
  BY <1>1, <1>2, <1>3
<1>6. s \in Seq(S) /\ t \in Seq(S) /\ u \in Seq(S)
  BY <1>1, <1>2, <1>3
<1>7. Len(u) = Len(s) + Len(t)
  BY <1>1, <1>2, <1>3
<1>8. s \o t = u
  BY <1>4, <1>5, <1>6, <1>7, Glued
<1> QED
  BY <1>8 DEF s, t, u

LEMMA OneAndTwo ==
    ASSUME NEW a, NEW b, NEW c
    PROVE  <<a>> \o <<b, c>> = <<a, b, c>>
<1> DEFINE s == <<a>>
           t == <<b, c>>
           u == <<a, b, c>>
           S == {a, b, c}
<1>1. /\ s \in Seq(S) /\ Len(s) = 1
      /\ s[1] = a
  OBVIOUS
<1>2. /\ t \in Seq(S) /\ Len(t) = 2
      /\ t[1] = b /\ t[2] = c
  OBVIOUS
<1>3. /\ u \in Seq(S) /\ Len(u) = 3
      /\ u[1] = a /\ u[2] = b /\ u[3] = c
  OBVIOUS
<1> HIDE DEF s, t, u, S
<1>4. \A k \in 1 .. Len(s) : u[k] = s[k]
  BY <1>1, <1>3
<1>5. \A k \in 1 .. Len(t) : u[Len(s) + k] = t[k]
  BY <1>1, <1>2, <1>3
<1>6. s \in Seq(S) /\ t \in Seq(S) /\ u \in Seq(S)
  BY <1>1, <1>2, <1>3
<1>7. Len(u) = Len(s) + Len(t)
  BY <1>1, <1>2, <1>3
<1>8. s \o t = u
  BY <1>4, <1>5, <1>6, <1>7, Glued
<1> QED
  BY <1>8 DEF s, t, u

LEMMA TwoAndOne ==
    ASSUME NEW a, NEW b, NEW c
    PROVE  <<a, b>> \o <<c>> = <<a, b, c>>
<1> DEFINE s == <<a, b>>
           t == <<c>>
           u == <<a, b, c>>
           S == {a, b, c}
<1>1. /\ s \in Seq(S) /\ Len(s) = 2
      /\ s[1] = a /\ s[2] = b
  OBVIOUS
<1>2. /\ t \in Seq(S) /\ Len(t) = 1
      /\ t[1] = c
  OBVIOUS
<1>3. /\ u \in Seq(S) /\ Len(u) = 3
      /\ u[1] = a /\ u[2] = b /\ u[3] = c
  OBVIOUS
<1> HIDE DEF s, t, u, S
<1>4. \A k \in 1 .. Len(s) : u[k] = s[k]
  BY <1>1, <1>3
<1>5. \A k \in 1 .. Len(t) : u[Len(s) + k] = t[k]
  BY <1>1, <1>2, <1>3
<1>6. s \in Seq(S) /\ t \in Seq(S) /\ u \in Seq(S)
  BY <1>1, <1>2, <1>3
<1>7. Len(u) = Len(s) + Len(t)
  BY <1>1, <1>2, <1>3
<1>8. s \o t = u
  BY <1>4, <1>5, <1>6, <1>7, Glued
<1> QED
  BY <1>8 DEF s, t, u

LEMMA OneAndThree ==
    ASSUME NEW a, NEW b, NEW c, NEW d
    PROVE  <<a>> \o <<b, c, d>> = <<a, b, c, d>>
<1> DEFINE s == <<a>>
           t == <<b, c, d>>
           u == <<a, b, c, d>>
           S == {a, b, c, d}
<1>1. /\ s \in Seq(S) /\ Len(s) = 1
      /\ s[1] = a
  OBVIOUS
<1>2. /\ t \in Seq(S) /\ Len(t) = 3
      /\ t[1] = b /\ t[2] = c /\ t[3] = d
  OBVIOUS
<1>3. /\ u \in Seq(S) /\ Len(u) = 4
      /\ u[1] = a /\ u[2] = b /\ u[3] = c /\ u[4] = d
  OBVIOUS
<1> HIDE DEF s, t, u, S
<1>4. \A k \in 1 .. Len(s) : u[k] = s[k]
  BY <1>1, <1>3
<1>5. \A k \in 1 .. Len(t) : u[Len(s) + k] = t[k]
  BY <1>1, <1>2, <1>3
<1>6. s \in Seq(S) /\ t \in Seq(S) /\ u \in Seq(S)
  BY <1>1, <1>2, <1>3
<1>7. Len(u) = Len(s) + Len(t)
  BY <1>1, <1>2, <1>3
<1>8. s \o t = u
  BY <1>4, <1>5, <1>6, <1>7, Glued
<1> QED
  BY <1>8 DEF s, t, u

LEMMA ThreeAndOne ==
    ASSUME NEW a, NEW b, NEW c, NEW d
    PROVE  <<a, b, c>> \o <<d>> = <<a, b, c, d>>
<1> DEFINE s == <<a, b, c>>
           t == <<d>>
           u == <<a, b, c, d>>
           S == {a, b, c, d}
<1>1. /\ s \in Seq(S) /\ Len(s) = 3
      /\ s[1] = a /\ s[2] = b /\ s[3] = c
  OBVIOUS
<1>2. /\ t \in Seq(S) /\ Len(t) = 1
      /\ t[1] = d
  OBVIOUS
<1>3. /\ u \in Seq(S) /\ Len(u) = 4
      /\ u[1] = a /\ u[2] = b /\ u[3] = c /\ u[4] = d
  OBVIOUS
<1> HIDE DEF s, t, u, S
<1>4. \A k \in 1 .. Len(s) : u[k] = s[k]
  BY <1>1, <1>3
<1>5. \A k \in 1 .. Len(t) : u[Len(s) + k] = t[k]
  BY <1>1, <1>2, <1>3
<1>6. s \in Seq(S) /\ t \in Seq(S) /\ u \in Seq(S)
  BY <1>1, <1>2, <1>3
<1>7. Len(u) = Len(s) + Len(t)
  BY <1>1, <1>2, <1>3
<1>8. s \o t = u
  BY <1>4, <1>5, <1>6, <1>7, Glued
<1> QED
  BY <1>8 DEF s, t, u

LEMMA TwoAndThree ==
    ASSUME NEW a, NEW b, NEW c, NEW d, NEW e
    PROVE  <<a, b>> \o <<c, d, e>> = <<a, b, c, d, e>>
<1> DEFINE s == <<a, b>>
           t == <<c, d, e>>
           u == <<a, b, c, d, e>>
           S == {a, b, c, d, e}
<1>1. /\ s \in Seq(S) /\ Len(s) = 2
      /\ s[1] = a /\ s[2] = b
  OBVIOUS
<1>2. /\ t \in Seq(S) /\ Len(t) = 3
      /\ t[1] = c /\ t[2] = d /\ t[3] = e
  OBVIOUS
<1>3. /\ u \in Seq(S) /\ Len(u) = 5
      /\ u[1] = a /\ u[2] = b /\ u[3] = c /\ u[4] = d /\ u[5] = e
  OBVIOUS
<1> HIDE DEF s, t, u, S
<1>4. \A k \in 1 .. Len(s) : u[k] = s[k]
  BY <1>1, <1>3
<1>5. \A k \in 1 .. Len(t) : u[Len(s) + k] = t[k]
  BY <1>1, <1>2, <1>3
<1>6. s \in Seq(S) /\ t \in Seq(S) /\ u \in Seq(S)
  BY <1>1, <1>2, <1>3
<1>7. Len(u) = Len(s) + Len(t)
  BY <1>1, <1>2, <1>3
<1>8. s \o t = u
  BY <1>4, <1>5, <1>6, <1>7, Glued
<1> QED
  BY <1>8 DEF s, t, u

LEMMA ThreeAndTwo ==
    ASSUME NEW a, NEW b, NEW c, NEW d, NEW e
    PROVE  <<a, b, c>> \o <<d, e>> = <<a, b, c, d, e>>
<1> DEFINE s == <<a, b, c>>
           t == <<d, e>>
           u == <<a, b, c, d, e>>
           S == {a, b, c, d, e}
<1>1. /\ s \in Seq(S) /\ Len(s) = 3
      /\ s[1] = a /\ s[2] = b /\ s[3] = c
  OBVIOUS
<1>2. /\ t \in Seq(S) /\ Len(t) = 2
      /\ t[1] = d /\ t[2] = e
  OBVIOUS
<1>3. /\ u \in Seq(S) /\ Len(u) = 5
      /\ u[1] = a /\ u[2] = b /\ u[3] = c /\ u[4] = d /\ u[5] = e
  OBVIOUS
<1> HIDE DEF s, t, u, S
<1>4. \A k \in 1 .. Len(s) : u[k] = s[k]
  BY <1>1, <1>3
<1>5. \A k \in 1 .. Len(t) : u[Len(s) + k] = t[k]
  BY <1>1, <1>2, <1>3
<1>6. s \in Seq(S) /\ t \in Seq(S) /\ u \in Seq(S)
  BY <1>1, <1>2, <1>3
<1>7. Len(u) = Len(s) + Len(t)
  BY <1>1, <1>2, <1>3
<1>8. s \o t = u
  BY <1>4, <1>5, <1>6, <1>7, Glued
<1> QED
  BY <1>8 DEF s, t, u

LEMMA FiveAndFour ==
    ASSUME NEW a, NEW b, NEW c, NEW d, NEW e, NEW f, NEW g, NEW h, NEW i
    PROVE  <<a, b, c, d, e>> \o <<f, g, h, i>> = <<a, b, c, d, e, f, g, h, i>>
<1> DEFINE s == <<a, b, c, d, e>>
           t == <<f, g, h, i>>
           u == <<a, b, c, d, e, f, g, h, i>>
           S == {a, b, c, d, e, f, g, h, i}
<1>1. /\ s \in Seq(S) /\ Len(s) = 5
      /\ s[1] = a /\ s[2] = b /\ s[3] = c /\ s[4] = d /\ s[5] = e
  OBVIOUS
<1>2. /\ t \in Seq(S) /\ Len(t) = 4
      /\ t[1] = f /\ t[2] = g /\ t[3] = h /\ t[4] = i
  OBVIOUS
<1>3. /\ u \in Seq(S) /\ Len(u) = 9
      /\ u[1] = a /\ u[2] = b /\ u[3] = c /\ u[4] = d /\ u[5] = e /\ u[6] = f
      /\ u[7] = g /\ u[8] = h /\ u[9] = i
  OBVIOUS
<1> HIDE DEF s, t, u, S
<1>4. \A k \in 1 .. Len(s) : u[k] = s[k]
  BY <1>1, <1>3
<1>5. \A k \in 1 .. Len(t) : u[Len(s) + k] = t[k]
  BY <1>1, <1>2, <1>3
<1>6. s \in Seq(S) /\ t \in Seq(S) /\ u \in Seq(S)
  BY <1>1, <1>2, <1>3
<1>7. Len(u) = Len(s) + Len(t)
  BY <1>1, <1>2, <1>3
<1>8. s \o t = u
  BY <1>4, <1>5, <1>6, <1>7, Glued
<1> QED
  BY <1>8 DEF s, t, u

LEMMA OneAndNine ==
    ASSUME NEW a, NEW b, NEW c, NEW d, NEW e, NEW f, NEW g, NEW h, NEW i, NEW j
    PROVE  <<a>> \o <<b, c, d, e, f, g, h, i, j>> = <<a, b, c, d, e, f, g, h, i, j>>
<1> DEFINE s == <<a>>
           t == <<b, c, d, e, f, g, h, i, j>>
           u == <<a, b, c, d, e, f, g, h, i, j>>
           S == {a, b, c, d, e, f, g, h, i, j}
<1>1. /\ s \in Seq(S) /\ Len(s) = 1
      /\ s[1] = a
  OBVIOUS
<1>2. /\ t \in Seq(S) /\ Len(t) = 9
      /\ t[1] = b /\ t[2] = c /\ t[3] = d /\ t[4] = e /\ t[5] = f /\ t[6] = g
      /\ t[7] = h /\ t[8] = i /\ t[9] = j
  OBVIOUS
<1>3. /\ u \in Seq(S) /\ Len(u) = 10
      /\ u[1] = a /\ u[2] = b /\ u[3] = c /\ u[4] = d /\ u[5] = e /\ u[6] = f
      /\ u[7] = g /\ u[8] = h /\ u[9] = i /\ u[10] = j
  OBVIOUS
<1> HIDE DEF s, t, u, S
<1>4. \A k \in 1 .. Len(s) : u[k] = s[k]
  BY <1>1, <1>3
<1>5. \A k \in 1 .. Len(t) : u[Len(s) + k] = t[k]
  BY <1>1, <1>2, <1>3
<1>6. s \in Seq(S) /\ t \in Seq(S) /\ u \in Seq(S)
  BY <1>1, <1>2, <1>3
<1>7. Len(u) = Len(s) + Len(t)
  BY <1>1, <1>2, <1>3
<1>8. s \o t = u
  BY <1>4, <1>5, <1>6, <1>7, Glued
<1> QED
  BY <1>8 DEF s, t, u

LEMMA OnlyIsTheGreatest == ASSUME NEW n \in Nat PROVE Max({n}) = n
BY DEF Max

\* A separator that does not begin inside the first part splits the list between the parts.
LEMMA SplitsBetween ==
    ASSUME NEW S, NEW s \in Seq(S), NEW x \in Seq(S), NEW t \in Seq(S),
           s # <<>>, x # <<>>, t # <<>>,
           \A i \in 2 .. Len(s) : s[i] # x[1]
    PROVE  /\ Splits(s \o x \o t, x) # {}
           /\ SplitOnce(s \o x \o t, x) = <<s, t>>
<1> DEFINE u == s \o x \o t
           k == Len(s) + 1
<1>1. /\ s \o x \in Seq(S) /\ u \in Seq(S) /\ x \o t \in Seq(S) /\ u = s \o (x \o t)
      /\ Len(s \o x) = Len(s) + Len(x) /\ Len(x \o t) = Len(x) + Len(t)
      /\ Len(u) = Len(s) + Len(x) + Len(t)
  BY ConcatProperties, ConcatAssociative
<1>2. /\ Len(s) \in Nat \ {0} /\ Len(x) \in Nat \ {0} /\ Len(t) \in Nat \ {0}
      /\ Len(u) \in Nat
  BY <1>1, EmptySeq, LenProperties
<1>3. After(u, Len(s)) = x \o t
  <2> DEFINE y == x \o t
  <2>1. y \in Seq(S) /\ u = s \o y
    BY <1>1
  <2> HIDE DEF y, u
  <2>2. After(s \o y, Len(s)) = y
    BY <2>1, Parts
  <2> QED
    BY <2>1, <2>2 DEF y
<1>4. SubSeq(u, k, k + Len(x) - 1) = x
  <2>1. \A i \in k .. k + Len(x) - 1 : u[i] = x[i - Len(s)] /\ u[i] \in S
    <3> SUFFICES ASSUME NEW i \in k .. k + Len(x) - 1
                 PROVE  u[i] = x[i - Len(s)] /\ u[i] \in S
      OBVIOUS
    <3>1. i \in 1 .. Len(s) + Len(x) + Len(t) /\ i <= Len(s) + Len(x)
          /\ i \in 1 .. Len(s) + Len(x) /\ ~ i <= Len(s) /\ i - Len(s) \in 1 .. Len(x)
      BY <1>2
    <3>2. u[i] = (s \o x)[i]
      BY <1>1, <3>1, ConcatProperties
    <3>3. (s \o x)[i] = x[i - Len(s)]
      BY <3>1, ConcatProperties
    <3> QED
      BY <3>1, <3>2, <3>3, ElementOfSeq
  <2> DEFINE v == SubSeq(u, k, k + Len(x) - 1)
  <2>2. /\ k \in Int /\ k + Len(x) - 1 \in Int /\ k <= k + Len(x) - 1
        /\ k + Len(x) - 1 - k + 1 = Len(x)
    BY <1>2
  <2> HIDE DEF k, u
  <2>3. /\ v \in Seq(S) /\ Len(v) = Len(x)
        /\ \A i \in 1 .. Len(x) : v[i] = u[k + i - 1]
    BY <2>1, <2>2, SubSeqProperties
  <2> HIDE DEF v
  <2>4. ASSUME NEW i \in 1 .. Len(x) PROVE v[i] = x[i]
    <3> DEFINE j == k + i - 1
    <3>2. j \in k .. k + Len(x) - 1 /\ j - Len(s) = i
      BY <1>2 DEF k
    <3>4. v[i] = u[j]
      BY <2>3
    <3> HIDE DEF j
    <3>3. u[j] = x[j - Len(s)]
      BY <2>1, <3>2
    <3> QED
      BY <3>2, <3>3, <3>4
  <2>5. v = x
    BY <2>3, <2>4, SeqEqual
  <2> QED
    BY <2>5 DEF v
<1>5. k \in Splits(u, x)
  <2>1. k \in 2 .. (Len(u) - Len(x))
    BY <1>1, <1>2
  <2> QED
    BY <1>4, <2>1 DEF Splits
<1>6. ASSUME NEW i \in Splits(u, x) PROVE k <= i
  <2>1. i \in 2 .. (Len(u) - Len(x)) /\ SubSeq(u, i, i + Len(x) - 1) = x
    BY <1>6 DEF Splits
  <2>2. SUFFICES ASSUME i \in 2 .. Len(s) PROVE FALSE
    BY <1>2, <2>1
  <2>3. u[i] = s[i]
    BY <1>1, <1>2, <2>2, ConcatProperties
  <2>4. \A j \in i .. i + Len(x) - 1 : u[j] \in S
    BY <1>1, <1>2, <2>1, ElementOfSeq
  <2> DEFINE j == i + Len(x) - 1
  <2>5. i \in Int /\ j \in Int /\ i <= j /\ 1 \in 1 .. j - i + 1 /\ i + 1 - 1 = i
    BY <1>2, <2>1
  <2> HIDE DEF j, u
  <2>7. \A l \in 1 .. j - i + 1 : SubSeq(u, i, j)[l] = u[i + l - 1]
    BY <2>4, <2>5, SubSeqProperties DEF j
  <2>6. SubSeq(u, i, j)[1] = u[i]
    <3>1. SubSeq(u, i, j)[1] = u[i + 1 - 1]
      BY <2>5, <2>7
    <3> QED
      BY <2>5, <3>1
  <2>8. SubSeq(u, i, j) = x
    BY <2>1 DEF j
  <2> QED
    BY <2>2, <2>3, <2>6, <2>8
<1>7. Min(Splits(u, x)) = k
  <2>1. Splits(u, x) \in SUBSET Nat
    BY <1>1, <1>2 DEF Splits
  <2> QED
    BY <1>5, <1>6, <2>1, SmallestIs
<1>8. SubSeq(u, 1, k - 1) = s
  <2>1. k - 1 = Len(s)
    BY <1>2
  <2> QED
    BY <1>1, <2>1, Parts
<1>9. After(u, k + Len(x) - 1) = t
  <2>1. k + Len(x) - 1 = Len(s \o x)
    BY <1>1, <1>2
  <2>2. After(u, Len(s \o x)) = t
    BY <1>1, Parts
  <2> QED
    BY <2>1, <2>2
<1> HIDE DEF u, k
<1> QED
  BY <1>5, <1>7, <1>8, <1>9 DEF SplitOnce, u

--------------------------------------------------------------------------------
(* Numbers, instants and names of states. *)

\* The tokens there are: any text, and those that the program itself writes.
Token ==
    STRING
    \cup {Numerals[i] : i \in DOMAIN Numerals} \cup {c.text : c \in Clocked}
    \cup {HashText[i] : i \in DOMAIN HashText} \cup Systems
    \cup {"chronoloop", "history", "trace", "repro", "faults", "seed", "forked", "at", "to", "step",
          "passed", "failed", ":", "partition", "loss", "in", "on", "node", "->", "from",
          "until", "forever"}

\* What is written for a number is read as that number and nothing else.
LEMMA NumberReadsBack ==
    ASSUME NEW n \in Number
    PROVE  Digits(<<Written(n)>>) = {n} /\ Written(n) \in Token
<1>1. n \in {0, 1, 2, 3, 4, 5}
  BY DEF Number
<1>2. \A m \in Number : Written(m) = Written(n) => m = n
  BY <1>1 DEF Number, Written, Numerals
<1>3. \A m \in Number : Written(m) # "01"
  <2> SUFFICES ASSUME NEW m \in Number PROVE Written(m) # "01"
    OBVIOUS
  <2>1. m \in {0, 1, 2, 3, 4, 5}
    BY DEF Number
  <2>2. Written(m) \in {"0", "1", "2", "3", "4", "5"}
    BY <2>1 DEF Written, Numerals
  <2> QED
    BY <2>2
<1>6. Written(n) \in Token
  <2>1. n + 1 \in 1 .. 6 /\ DOMAIN Numerals = 1 .. 6
    BY <1>1 DEF Numerals
  <2> QED
    BY <2>1 DEF Written, Token
<1>4. \A m \in Number : \A token \in Spellings(m) : <<Written(n)>> = <<token>> => m = n
  BY <1>2, <1>3 DEF Spellings
<1>5. Written(n) \in Spellings(n)
  BY DEF Spellings
<1> QED
  BY <1>4, <1>5, <1>6 DEF Digits

LEMMA NumberAlone == \A n \in Number : Max({n}) = n
<1> SUFFICES ASSUME NEW n \in Number PROVE Max({n}) = n
  OBVIOUS
<1>1. n \in Nat
  BY DEF Number
<1> QED
  BY <1>1, OnlyIsTheGreatest

LEMMA InstantReadsBack ==
    ASSUME NEW at \in Instant
    PROVE  ReadInstant(<<WriteInstant(at)>>) = Read(at) /\ WriteInstant(at) \in Token
<1>1. at \in {0, 1, 2, 3} /\ at <= MaxTime /\ MaxTime \in Nat
  BY MaxTimeAssumption, WrittenTimesAssumption DEF Instant, PER_SEC
<1> DEFINE clock(a) == CHOOSE c \in Clocked : /\ c.seconds = <<Written(a \div PER_SEC)>>
                                              /\ c.nanos = <<Written(a % PER_SEC)>>
<1>2. /\ Written(0) = "0" /\ Written(1) = "1"
      /\ 0 \div 2 = 0 /\ 1 \div 2 = 0 /\ 2 \div 2 = 1 /\ 3 \div 2 = 1
      /\ 0 % 2 = 0 /\ 1 % 2 = 1 /\ 2 % 2 = 0 /\ 3 % 2 = 1
  BY DEF Written, Numerals
<1>3. /\ clock(0) = [text |-> "0.0s", seconds |-> <<"0">>, nanos |-> <<"0">>]
      /\ clock(1) = [text |-> "0.1s", seconds |-> <<"0">>, nanos |-> <<"1">>]
      /\ clock(2) = [text |-> "1.0s", seconds |-> <<"1">>, nanos |-> <<"0">>]
      /\ clock(3) = [text |-> "1.1s", seconds |-> <<"1">>, nanos |-> <<"1">>]
  BY <1>2 DEF Clocked, PER_SEC
<1>4. \A a : WriteInstant(a) = clock(a).text
  BY DEF WriteInstant
<1> HIDE DEF clock
<1>5. /\ clock(at) \in Clocked
      /\ clock(at).seconds = <<Written(at \div 2)>> /\ clock(at).nanos = <<Written(at % 2)>>
  BY <1>1, <1>2, <1>3 DEF Clocked
<1>6. /\ at \div 2 \in Number /\ at % 2 \in Number /\ (at \div 2) * 2 + (at % 2) = at
  BY <1>1, <1>2 DEF Number
<1>7. Timed(clock(at).seconds, clock(at).nanos) = Read(at)
  <2>1. \A n \in Number : Digits(<<Written(n)>>) = {n} /\ Max({n}) = n
    BY NumberReadsBack, OnlyIsTheGreatest DEF Number
  <2>2. /\ Digits(clock(at).seconds) = {at \div 2} /\ Max({at \div 2}) = at \div 2
        /\ Digits(clock(at).nanos) = {at % 2} /\ Max({at % 2}) = at % 2
        /\ Len(clock(at).nanos) = 1
    BY <1>5, <1>6, <2>1
  <2>3. ~ at > MaxTime
    BY <1>1
  <2> QED
    BY <1>6, <2>2, <2>3 DEF Timed, PER_SEC
<1>8. ASSUME NEW c \in Clocked
      PROVE  ReadInstant(<<c.text>>) = Timed(c.seconds, c.nanos)
  <2>1. \A d \in Clocked : d.text = c.text => d = c
    BY DEF Clocked
  <2>2. \A d \in Clocked : <<c.text>> = <<d.text>> <=> d = c
    BY <2>1
  <2>3. (CHOOSE d \in Clocked : <<c.text>> = <<d.text>>) = c
    BY <2>2
  <2> QED
    BY <2>3 DEF ReadInstant
<1>9. clock(at).text \in Token
  BY <1>5 DEF Token
<1> QED
  BY <1>4, <1>5, <1>7, <1>8, <1>9

LEMMA HashReadsBack ==
    ASSUME NEW hash \in DOMAIN HashText
    PROVE  ReadHash(WriteHash(hash)) = Read(hash) /\ WriteHash(hash) \in Token
<1>1. \A h \in DOMAIN HashText : HashText[h] = HashText[hash] <=> h = hash
  BY DEF HashText
<1>2. (CHOOSE h \in DOMAIN HashText : HashText[h] = HashText[hash]) = hash
  BY <1>1
<1> QED
  BY <1>2 DEF ReadHash, WriteHash, Token

\* A line is a list of tokens.
Line == Seq(Token)

Words ==
    {"chronoloop", "history", "trace", "repro", "faults", "seed", "forked", "at", "to", "step",
     "passed", "failed", ":", "partition", "loss", "in", "on", "node", "->", "from",
     "until", "forever"}

LEMMA WordsAreTokens == Words \subseteq Token /\ Systems \subseteq Token
BY DEF Words, Token

LEMMA OneToken ==
    ASSUME NEW t \in Token
    PROVE  <<t>> \in Line /\ Len(<<t>>) = 1 /\ <<t>> # <<>> /\ <<t>>[1] = t
BY DEF Line

LEMMA MessageFacts ==
    ASSUME NEW m \in Message
    PROVE  m \in Line /\ Text(m) /\ m # <<>> /\ Len(m) \in Nat \ {0}
<1>1. m \in Seq(STRING) /\ Text(m)
  BY DEF Message
<1>2. m \in Line
  BY <1>1, SeqMonotonic DEF Token, Line
<1> QED
  BY <1>1, <1>2, EmptySeq DEF Text, Line

--------------------------------------------------------------------------------
(* Recordings. *)

LEMMA ReadOrWrong ==
    /\ \A value : IsRead(Read(value)) /\ Read(value).value = value
    /\ \A why, line : ~ IsRead(Wrong(why, line)) /\ ~ IsRead(Amiss(why))
BY DEF IsRead, Read, Wrong, Amiss

LEMMA CollectsAll ==
    ASSUME NEW results, NEW first, \A i \in DOMAIN results : IsRead(results[i])
    PROVE  Collect(results, first) = Read([i \in DOMAIN results |-> results[i].value])
BY DEF Collect

\* A number at the end of a header is read as it was written.
LEMMA HeaderReadsBack ==
    ASSUME NEW header \in Line, NEW n \in Number
    PROVE  /\ Numbered(Append(header, Written(n)), header) = {n}
           /\ Append(header, Written(n)) \in Line
<1>1. Written(n) \in Token /\ Digits(<<Written(n)>>) = {n}
  BY NumberReadsBack
<1>2. Append(header, Written(n)) = header \o <<Written(n)>>
  BY <1>1, AppendIsConcat DEF Line
<1>3. /\ Opens(header \o <<Written(n)>>, header)
      /\ After(header \o <<Written(n)>>, Len(header)) = <<Written(n)>>
  BY <1>1, OneToken, Parts DEF Line
<1>4. header \o <<Written(n)>> \in Line
  BY <1>1, OneToken, ConcatProperties DEF Line
<1> QED
  BY <1>1, <1>2, <1>3, <1>4 DEF Numbered

LEMMA HeadersAreLines ==
    ASSUME NEW kind \in Words
    PROVE  Header(kind) \in Line /\ Len(Header(kind)) = 3
<1>1. "chronoloop" \in Token /\ kind \in Token /\ "seed" \in Token
  BY WordsAreTokens DEF Words
<1> QED
  BY <1>1 DEF Header, Line

\* What follows a line's first tokens.
LEMMA Headed ==
    ASSUME NEW S, NEW t \in S, NEW m \in Seq(S)
    PROVE  /\ SubSeq(<<t>> \o m, 1, 1) = <<t>>
           /\ After(<<t>> \o m, 1) = m
           /\ (<<t>> \o m)[1] = t
           /\ <<t>> \o m \in Seq(S) /\ Len(<<t>> \o m) = 1 + Len(m)
           /\ m # <<>> => Opens(<<t>> \o m, <<t>>)
           /\ \A i \in 1 .. Len(m) : (<<t>> \o m)[i + 1] = m[i]
<1>1. <<t>> \in Seq(S) /\ Len(<<t>>) = 1 /\ <<t>>[1] = t
  OBVIOUS
<1>2. /\ SubSeq(<<t>> \o m, 1, 1) = <<t>> /\ After(<<t>> \o m, 1) = m
      /\ m # <<>> => Opens(<<t>> \o m, <<t>>)
  BY <1>1, Parts
<1>3. /\ <<t>> \o m \in Seq(S) /\ Len(<<t>> \o m) = 1 + Len(m)
      /\ \A i \in 1 .. 1 + Len(m) : (<<t>> \o m)[i] = IF i <= 1 THEN <<t>>[i] ELSE m[i - 1]
  BY <1>1, ConcatProperties
<1>4. Len(m) \in Nat
  BY LenProperties
<1>5. (<<t>> \o m)[1] = t
  BY <1>1, <1>3, <1>4
<1>6. ASSUME NEW i \in 1 .. Len(m) PROVE (<<t>> \o m)[i + 1] = m[i]
  <2>1. i + 1 \in 1 .. 1 + Len(m) /\ ~ i + 1 <= 1 /\ i + 1 - 1 = i
    BY <1>4
  <2> QED
    BY <1>3, <2>1
<1> QED
  BY <1>2, <1>3, <1>5, <1>6

LEMMA EntryReadsBack ==
    ASSUME NEW e \in Entry
    PROVE  ReadEntry(WriteEntry(e)) = Read(e) /\ WriteEntry(e) \in Line
<1>1. e.at \in Instant /\ e.message \in Message /\ e = [at |-> e.at, message |-> e.message]
  BY DEF Entry
<1> DEFINE w == WriteInstant(e.at)
           m == e.message
<1>2. w \in Token /\ ReadInstant(<<w>>) = Read(e.at)
  BY <1>1, InstantReadsBack
<1>3. m \in Line /\ Text(m) /\ m # <<>> /\ Len(m) \in Nat \ {0}
  BY <1>1, MessageFacts
<1>4. /\ SubSeq(<<w>> \o m, 1, 1) = <<w>> /\ After(<<w>> \o m, 1) = m
      /\ <<w>> \o m \in Line /\ Len(<<w>> \o m) = 1 + Len(m)
  BY <1>2, <1>3, Headed DEF Line
<1>5. ~ Len(<<w>> \o m) < 2
  BY <1>3, <1>4
<1> HIDE DEF w
<1>6. ReadEntry(<<w>> \o m) = Read([at |-> e.at, message |-> m])
  BY <1>2, <1>3, <1>4, <1>5, ReadOrWrong DEF ReadEntry, IsEntry
<1> QED
  BY <1>1, <1>4, <1>6 DEF WriteEntry, w

LEMMA RecordingReadsBack ==
    ASSUME NEW r \in Recording
    PROVE  ReadRecording(WriteRecording(r)) = Read(r) /\ WriteRecording(r) \in Seq(Line)
<1> DEFINE head == Append(Header("history"), Written(r.seed))
           lines == [i \in DOMAIN r.entries |-> WriteEntry(r.entries[i])]
           text == <<head>> \o lines
<1>1. /\ r.seed \in Number /\ r.entries \in Seq(Entry)
      /\ r = [seed |-> r.seed, entries |-> r.entries]
  BY DEF Recording
<1>2. "history" \in Words
  BY DEF Words
<1>3. Numbered(head, Header("history")) = {r.seed} /\ head \in Line
  BY <1>1, <1>2, HeaderReadsBack, HeadersAreLines
<1>4. /\ lines \in Seq(Line) /\ Len(lines) = Len(r.entries) /\ DOMAIN lines = DOMAIN r.entries
      /\ \A i \in DOMAIN r.entries : lines[i] = WriteEntry(r.entries[i])
  <2>1. \A i \in DOMAIN r.entries : r.entries[i] \in Entry
    BY <1>1
  <2>2. \A i \in DOMAIN r.entries : WriteEntry(r.entries[i]) \in Line
    BY <2>1, EntryReadsBack
  <2> QED
    BY <1>1, <2>2
<1> HIDE DEF lines, head
<1>5. /\ text \in Seq(Line) /\ text[1] = head /\ Len(text) = 1 + Len(lines) /\ text # <<>>
      /\ \A i \in 1 .. Len(lines) : text[i + 1] = lines[i]
  BY <1>3, <1>4, Headed, EmptySeq
<1> HIDE DEF text
<1>6. Len(lines) \in Nat /\ DOMAIN lines = 1 .. Len(lines) /\ Len(text) - 1 = Len(lines)
  BY <1>4, <1>5
<1> DEFINE results == [i \in 1 .. Len(text) - 1 |-> ReadEntry(text[i + 1])]
<1>7. \A i \in DOMAIN results : results[i] = Read(r.entries[i])
  <2> SUFFICES ASSUME NEW i \in 1 .. Len(lines) PROVE results[i] = Read(r.entries[i])
    BY <1>6
  <2>1. r.entries[i] \in Entry
    BY <1>1, <1>4, <1>6
  <2> QED
    BY <1>4, <1>5, <1>6, <2>1, EntryReadsBack
<1>8. DOMAIN results = DOMAIN r.entries
  BY <1>4, <1>6
<1> HIDE DEF results
<1>9. Collect(results, 2) = Read(r.entries)
  <2>1. \A i \in DOMAIN results : IsRead(results[i]) /\ results[i].value = r.entries[i]
    BY <1>7, ReadOrWrong
  <2>2. [i \in DOMAIN results |-> results[i].value] = [i \in DOMAIN r.entries |-> r.entries[i]]
    BY <1>8, <2>1
  <2>3. [i \in DOMAIN r.entries |-> r.entries[i]] = r.entries
    BY <1>1
  <2> QED
    BY <2>1, <2>2, <2>3, CollectsAll
<1>10. Max({r.seed}) = r.seed
  BY <1>1, NumberAlone
<1>11. ReadRecording(text) = Read([seed |-> r.seed, entries |-> r.entries])
  BY <1>3, <1>5, <1>9, <1>10, ReadOrWrong DEF ReadRecording, results
<1> QED
  BY <1>1, <1>5, <1>11 DEF WriteRecording, text, lines, head

\* One token by itself.
LEMMA OneOf ==
    ASSUME NEW S, NEW s \in Seq(S), NEW i \in 1 .. Len(s)
    PROVE  SubSeq(s, i, i) = <<s[i]>>
<1>1. i \in Int /\ s[i] \in S /\ \A j \in i .. i : s[j] \in S
  BY ElementOfSeq
<1>2. /\ SubSeq(s, i, i) \in Seq(S) /\ Len(SubSeq(s, i, i)) = 1
      /\ \A j \in 1 .. i - i + 1 : SubSeq(s, i, i)[j] = s[i + j - 1]
  BY <1>1, SubSeqProperties
<1>3. SubSeq(s, i, i)[1] = s[i]
  <2>1. 1 \in 1 .. i - i + 1 /\ i + 1 - 1 = i
    BY <1>1
  <2> QED
    BY <1>2, <2>1
<1> DEFINE one == SubSeq(s, i, i)
<1> HIDE DEF one
<1>4. one \in Seq(S) /\ Len(one) = 1 /\ one[1] = s[i]
  BY <1>2, <1>3 DEF one
<1>5. one = <<s[i]>>
  BY <1>1, <1>4
<1> QED
  BY <1>5 DEF one

--------------------------------------------------------------------------------
(* Traces. *)

LEMMA StepReadsBack ==
    ASSUME NEW step \in TraceStep
    PROVE  /\ ReadStep(WriteStep(step)) = Read(step)
           /\ WriteStep(step) \in Line /\ Len(WriteStep(step)) > 2
<1>1. /\ step.at \in Instant /\ step.state \in DOMAIN HashText /\ step.message \in Message
      /\ step = [at |-> step.at, state |-> step.state, message |-> step.message]
  BY DEF TraceStep
<1> DEFINE w == WriteInstant(step.at)
           h == WriteHash(step.state)
           m == step.message
           line == <<w, h>> \o m
<1>2. w \in Token /\ ReadInstant(<<w>>) = Read(step.at)
  BY <1>1, InstantReadsBack
<1>3. h \in Token /\ ReadHash(h) = Read(step.state)
  BY <1>1, HashReadsBack
<1>4. m \in Line /\ Text(m) /\ m # <<>> /\ Len(m) \in Nat \ {0}
  BY <1>1, MessageFacts
<1> HIDE DEF w, h, m
<1>5. <<w, h>> \in Line /\ Len(<<w, h>>) = 2 /\ <<w, h>>[1] = w /\ <<w, h>>[2] = h
  BY <1>2, <1>3 DEF Line
<1>6. /\ After(line, 2) = m /\ line \in Line /\ Len(line) = 2 + Len(m)
      /\ line[1] = w /\ line[2] = h
  <2>1. After(line, 2) = m
    BY <1>4, <1>5, Parts DEF Line
  <2>2. /\ line \in Seq(Token) /\ Len(line) = Len(<<w, h>>) + Len(m)
        /\ \A i \in 1 .. Len(<<w, h>>) + Len(m) :
              line[i] = IF i <= Len(<<w, h>>) THEN <<w, h>>[i] ELSE m[i - Len(<<w, h>>)]
    BY <1>4, <1>5, ConcatProperties DEF Line
  <2> HIDE DEF line
  <2> QED
    BY <1>4, <1>5, <2>1, <2>2 DEF Line
<1>7. SubSeq(line, 1, 1) = <<w>>
  <2> HIDE DEF line
  <2>1. line \in Seq(Token) /\ 1 \in 1 .. Len(line)
    BY <1>4, <1>6 DEF Line
  <2> QED
    BY <1>6, <2>1, OneOf
<1>8. ~ Len(line) < 2 /\ ~ Len(line) < 3 /\ Len(line) > 2
  BY <1>4, <1>6
<1> HIDE DEF line
<1>9. ReadStep(line) = Read([at |-> step.at, state |-> step.state, message |-> m])
  BY <1>2, <1>3, <1>4, <1>6, <1>7, <1>8, ReadOrWrong DEF ReadStep, IsEntry
<1> QED
  BY <1>1, <1>6, <1>8, <1>9 DEF WriteStep, line, w, h, m

\* A step is read where its number is due.
LEMMA NumberedReadsBack ==
    ASSUME NEW step \in TraceStep, NEW n \in Number
    PROVE  /\ ReadNumbered(<<"step", Written(n)>> \o WriteStep(step), n) = Read(step)
           /\ <<"step", Written(n)>> \o WriteStep(step) \in Line
<1> DEFINE s == WriteStep(step)
           n0 == Written(n)
           line == <<"step">> \o (<<n0>> \o s)
<1>1. s \in Line /\ Len(s) > 2 /\ ReadStep(s) = Read(step) /\ s # <<>>
  BY StepReadsBack
<1>2. n0 \in Token /\ Digits(<<n0>>) = {n} /\ "step" \in Token
  BY NumberReadsBack, WordsAreTokens DEF Words
<1> HIDE DEF s, n0
<1>3. /\ <<n0>> \o s \in Line /\ Len(<<n0>> \o s) = 1 + Len(s) /\ (<<n0>> \o s)[1] = n0
      /\ After(<<n0>> \o s, 1) = s /\ <<n0>> \o s # <<>>
  BY <1>1, <1>2, Headed DEF Line
<1>4. /\ line \in Line /\ Len(line) = 2 + Len(s) /\ Opens(line, <<"step">>)
      /\ line[2] = n0
  <2>1. /\ line \in Line /\ Len(line) = 1 + Len(<<n0>> \o s) /\ Opens(line, <<"step">>)
        /\ \A i \in 1 .. Len(<<n0>> \o s) : line[i + 1] = (<<n0>> \o s)[i]
    <3> DEFINE rest == <<n0>> \o s
    <3>1. rest \in Seq(Token) /\ rest # <<>>
      BY <1>3 DEF Line
    <3> HIDE DEF rest
    <3>2. /\ <<"step">> \o rest \in Seq(Token) /\ Len(<<"step">> \o rest) = 1 + Len(rest)
          /\ Opens(<<"step">> \o rest, <<"step">>)
          /\ \A i \in 1 .. Len(rest) : (<<"step">> \o rest)[i + 1] = rest[i]
      BY <1>2, <3>1, Headed
    <3> QED
      BY <3>2 DEF rest, Line
  <2>2. 1 \in 1 .. Len(<<n0>> \o s) /\ 1 + 1 = 2 /\ Len(s) \in Nat
    BY <1>1, <1>3 DEF Line
  <2>3. line[2] = n0
    BY <1>3, <2>1, <2>2
  <2> HIDE DEF line
  <2> QED
    BY <1>3, <2>1, <2>2, <2>3
<1>5. line = <<"step", n0>> \o s
  <2>1. <<"step", n0>> = <<"step">> \o <<n0>>
    BY <1>2
  <2> QED
    BY <1>1, <1>2, <2>1, OneToken, ConcatAssociative DEF Line
<1>6. After(line, 2) = s
  <2>1. <<"step", n0>> \in Seq(Token) /\ Len(<<"step", n0>>) = 2
    BY <1>2
  <2> QED
    BY <1>1, <1>5, <2>1, Parts DEF Line
<1>7. SubSeq(line, 2, 2) = <<n0>> /\ ~ Len(line) < 3
  <2> HIDE DEF line
  <2>1. line \in Seq(Token) /\ 2 \in 1 .. Len(line)
    BY <1>1, <1>4 DEF Line
  <2> QED
    BY <1>1, <1>4, <2>1, OneOf DEF Line
<1> HIDE DEF line
<1>8. ReadNumbered(line, n) = Read(step)
  BY <1>1, <1>2, <1>4, <1>6, <1>7 DEF ReadNumbered
<1> QED
  BY <1>4, <1>5, <1>8 DEF s, n0

\* A fork is read where its line stands.
LEMMA ForkReadsBack ==
    ASSUME NEW at \in Instant, NEW s \in Number
    PROVE  LET line == WriteFork([at |-> at, seed |-> s])
           IN line \in Line /\ IsForkLine(line) /\ ReadFork(line) = Read([at |-> at, seed |-> s])
<1> DEFINE w == WriteInstant(at)
           n == Written(s)
           opening == <<"forked", "at">>
           mark == <<"to", "seed">>
           rest == <<w>> \o mark \o <<n>>
           line == WriteFork([at |-> at, seed |-> s])
<1>1. w \in Token /\ ReadInstant(<<w>>) = Read(at)
  BY InstantReadsBack
<1>2. n \in Token /\ Digits(<<n>>) = {s} /\ Max({s}) = s
  BY NumberReadsBack, NumberAlone
<1>3. line = <<"forked", "at", w, "to", "seed", n>>
  BY DEF WriteFork
<1> HIDE DEF w, n, line
<1>4. /\ {"forked", "at", "to", "seed"} \subseteq Token
      /\ opening \in Line /\ Len(opening) = 2 /\ mark \in Line /\ mark # <<>>
      /\ <<w>> \in Line /\ Len(<<w>>) = 1 /\ <<w>> # <<>> /\ <<n>> \in Line /\ <<n>> # <<>>
  BY <1>1, <1>2, WordsAreTokens DEF Words, Line
<1>5. rest = <<w, "to", "seed", n>>
  <2>1. <<w>> \o mark = <<w, "to", "seed">>
    BY <1>1, <1>4, OneAndTwo
  <2>2. <<w, "to", "seed">> \o <<n>> = <<w, "to", "seed", n>>
    BY <1>1, <1>2, <1>4, ThreeAndOne
  <2> QED
    BY <2>1, <2>2
<1>6. /\ Splits(rest, mark) # {} /\ SplitOnce(rest, mark) = <<<<w>>, <<n>>>>
  <2>1. \A i \in 2 .. Len(<<w>>) : <<w>>[i] # mark[1]
    BY <1>4
  <2> HIDE DEF mark
  <2> QED
    BY <1>4, <2>1, SplitsBetween DEF Line
<1>7. rest \in Line /\ rest # <<>> /\ line = opening \o rest
  <2>1. rest \in Line /\ rest # <<>>
    BY <1>1, <1>2, <1>4, <1>5 DEF Line
  <2>2. line = opening \o <<w, "to", "seed", n>>
    BY <1>1, <1>2, <1>3, <1>4
  <2> QED
    BY <1>5, <2>1, <2>2
<1> HIDE DEF opening, rest
<1>8. Opens(line, opening) /\ After(line, 2) = rest /\ line \in Line
  <2>1. line \in Line
    BY <1>4, <1>7, ConcatProperties DEF Line
  <2> QED
    BY <1>4, <1>7, <2>1, Parts DEF Line
<1>9. ReadFork(line) = Read([at |-> at, seed |-> s])
  <2>1. /\ SplitOnce(After(line, 2), mark)[1] = <<w>>
        /\ SplitOnce(After(line, 2), mark)[2] = <<n>>
        /\ Splits(After(line, 2), mark) # {}
    BY <1>6, <1>8
  <2> HIDE DEF mark
  <2>2. ReadFork(line) =
          IF /\ Splits(After(line, 2), mark) # {}
             /\ IsRead(ReadInstant(SplitOnce(After(line, 2), mark)[1]))
             /\ Digits(SplitOnce(After(line, 2), mark)[2]) # {}
          THEN Read([at |-> ReadInstant(SplitOnce(After(line, 2), mark)[1]).value,
                     seed |-> Max(Digits(SplitOnce(After(line, 2), mark)[2]))])
          ELSE Wrong("BadFork", 2)
    BY DEF ReadFork, mark
  <2>3. IsRead(Read(at)) /\ Read(at).value = at
    BY ReadOrWrong
  <2> QED
    BY <1>1, <1>2, <2>1, <2>2, <2>3
<1> QED
  BY <1>8, <1>9 DEF IsForkLine, opening, line

LEMMA NumbersAreSix == Cardinality(Number) = 6
<1>1. 0 \in Int /\ 5 \in Int /\ 5 - 0 + 1 = 6 /\ ~ 0 > 5
  OBVIOUS
<1>2. Cardinality(0 .. 5) = IF 0 > 5 THEN 0 ELSE 5 - 0 + 1
  BY <1>1, FS_Interval
<1> QED
  BY <1>1, <1>2 DEF Number

\* The steps of a trace, one a line, each numbered.
StepLines(steps) == [i \in DOMAIN steps |-> <<"step", Written(i - 1)>> \o WriteStep(steps[i])]

LEMMA StepsReadBack ==
    ASSUME NEW steps \in Seq(TraceStep), Len(steps) <= 6, NEW first
    PROVE  /\ StepLines(steps) \in Seq(Line)
           /\ ReadSteps(StepLines(steps), first) = Read(steps)
           /\ steps # <<>> => ~ IsForkLine(StepLines(steps)[1])
<1> DEFINE lines == StepLines(steps)
<1>1. DOMAIN steps = 1 .. Len(steps) /\ Len(steps) \in Nat
  OBVIOUS
<1>2. ASSUME NEW i \in DOMAIN steps
      PROVE  /\ lines[i] = <<"step", Written(i - 1)>> \o WriteStep(steps[i])
             /\ lines[i] \in Line /\ ReadNumbered(lines[i], i - 1) = Read(steps[i])
  <2>1. steps[i] \in TraceStep /\ i - 1 \in Number
    BY <1>1 DEF Number
  <2>2. lines[i] = <<"step", Written(i - 1)>> \o WriteStep(steps[i])
    BY DEF StepLines
  <2> QED
    BY <2>1, <2>2, NumberedReadsBack
<1>3. DOMAIN lines = DOMAIN steps
  BY DEF StepLines
<1>4. lines \in Seq(Line) /\ Len(lines) = Len(steps)
  <2>1. lines = [i \in 1 .. Len(steps) |-> lines[i]]
    BY <1>1 DEF StepLines
  <2> HIDE DEF lines
  <2>2. \A i \in 1 .. Len(steps) : lines[i] \in Line
    BY <1>1, <1>2
  <2>3. [i \in 1 .. Len(steps) |-> lines[i]] \in Seq(Line)
    BY <1>1, <2>2
  <2>4. Len([i \in 1 .. Len(steps) |-> lines[i]]) = Len(steps)
    BY <1>1
  <2> QED
    BY <2>1, <2>3, <2>4
<1> HIDE DEF lines
<1>5. ReadSteps(lines, first) = Read(steps)
  <2> DEFINE results == [i \in DOMAIN lines |-> ReadNumbered(lines[i], i - 1)]
  <2>1. DOMAIN results = DOMAIN steps /\ \A i \in DOMAIN results : results[i] = Read(steps[i])
    BY <1>2, <1>3
  <2> HIDE DEF results
  <2>2. \A i \in DOMAIN results : IsRead(results[i]) /\ results[i].value = steps[i]
    BY <2>1, ReadOrWrong
  <2>3. [i \in DOMAIN results |-> results[i].value] = [i \in DOMAIN steps |-> steps[i]]
    BY <2>1, <2>2
  <2>4. [i \in DOMAIN steps |-> steps[i]] = steps
    OBVIOUS
  <2>5. Collect(results, first) = Read(steps)
    BY <2>2, <2>3, <2>4, CollectsAll
  <2> QED
    BY <2>5 DEF ReadSteps, results
<1>6. ASSUME steps # <<>> PROVE ~ IsForkLine(lines[1])
  <2>1. 1 \in DOMAIN steps
    BY <1>1, <1>6
  <2>2. lines[1] = <<"step", Written(0)>> \o WriteStep(steps[1])
    <3>1. 1 - 1 = 0
      OBVIOUS
    <3> QED
      BY <1>2, <2>1, <3>1
  <2>3. Written(0) \in Token /\ "step" \in Token
    BY NumberReadsBack, WordsAreTokens DEF Number, Words
  <2>4. WriteStep(steps[1]) \in Line
    BY <2>1, StepReadsBack
  <2>5. <<"step", Written(0)>> \in Seq(Token) /\ Len(<<"step", Written(0)>>) = 2
    BY <2>3
  <2>6. lines[1][1] = "step" /\ lines[1] \in Seq(Token) /\ Len(lines[1]) >= 2
    BY <2>2, <2>4, <2>5, ConcatProperties DEF Line
  <2>7. SubSeq(lines[1], 1, 2)[1] = "step"
    BY <2>6
  <2>8. SubSeq(<<"forked", "at">>, 1, 2)[1] = "forked" /\ Len(<<"forked", "at">>) = 2
    OBVIOUS
  <2> QED
    BY <2>7, <2>8 DEF IsForkLine, Opens, IsStrictPrefix, IsPrefix
<1> QED
  BY <1>4, <1>5, <1>6 DEF lines

LEMMA TraceReadsBack ==
    ASSUME NEW t \in Trace
    PROVE  ReadTrace(WriteTrace(t)) = Read(t) /\ WriteTrace(t) \in Seq(Line)
<1> DEFINE head == Append(Header("trace"), Written(t.seed))
           forks == [i \in DOMAIN t.fork |-> WriteFork(t.fork[i])]
           lines == StepLines(t.steps)
           text == <<head>> \o forks \o lines
<1>1. /\ t.seed \in Number /\ t.fork \in Seq([at : Instant, seed : Number])
      /\ t.steps \in Seq(TraceStep) /\ Len(t.fork) < 2 /\ Len(t.steps) <= 6
      /\ t = [seed |-> t.seed, fork |-> t.fork, steps |-> t.steps]
  BY NumbersAreSix DEF Trace, Steps
<1>2. "trace" \in Words
  BY DEF Words
<1>3. Numbered(head, Header("trace")) = {t.seed} /\ head \in Line
  BY <1>1, <1>2, HeaderReadsBack, HeadersAreLines
<1>4. Max({t.seed}) = t.seed
  BY <1>1, NumberAlone
<1>5. /\ lines \in Seq(Line)
      /\ \A first : ReadSteps(lines, first) = Read(t.steps)
      /\ t.steps # <<>> => ~ IsForkLine(lines[1])
      /\ lines # <<>> => t.steps # <<>>
  <2>1. lines # <<>> => t.steps # <<>>
    BY DEF StepLines
  <2> QED
    BY <1>1, <2>1, StepsReadBack
<1>6. WriteTrace(t) = text
  BY DEF WriteTrace, StepLines
<1>7. t.fork = <<>> \/ \E f \in [at : Instant, seed : Number] : t.fork = <<f>>
  <2>1. PICK s \in Seq([at : Instant, seed : Number]) : s = t.fork /\ Len(s) < 2
    BY <1>1
  <2>2. Len(s) \in Nat
    BY <2>1, LenProperties
  <2>3. CASE Len(s) = 0
    BY <2>1, <2>3, EmptySeq
  <2>4. CASE Len(s) = 1
    <3>0. 1 \in 1 .. Len(s)
      BY <2>4
    <3>1. s[1] \in [at : Instant, seed : Number]
      BY <2>1, <3>0, ElementOfSeq
    <3>2. s = <<s[1]>>
      BY <2>1, <2>4
    <3> QED
      BY <2>1, <3>1, <3>2
  <2>5. Len(s) = 0 \/ Len(s) = 1
    <3> DEFINE n == Len(s)
    <3>1. n \in Nat /\ n < 2
      BY <2>1, <2>2
    <3> HIDE DEF n
    <3>2. n = 0 \/ n = 1
      BY <3>1
    <3> QED
      BY <3>2 DEF n
  <2> QED
    BY <2>3, <2>4, <2>5
<1> HIDE DEF lines, head
<1>8. CASE t.fork = <<>>
  <2>1. forks = <<>>
    BY <1>8
  <2> HIDE DEF forks
  <2>2. text = <<head>> \o lines
    <3>1. <<head>> \in Seq(Line)
      BY <1>3
    <3> QED
      BY <2>1, <3>1, ConcatEmptySeq
  <2>3. /\ text[1] = head /\ After(text, 1) = lines /\ text \in Seq(Line)
        /\ Len(text) = 1 + Len(lines) /\ text # <<>>
        /\ \A i \in 1 .. Len(lines) : text[i + 1] = lines[i]
    <3> HIDE DEF text
    <3>1. /\ <<head>> \o lines \in Seq(Line) /\ Len(<<head>> \o lines) = 1 + Len(lines)
          /\ After(<<head>> \o lines, 1) = lines /\ (<<head>> \o lines)[1] = head
          /\ \A i \in 1 .. Len(lines) : (<<head>> \o lines)[i + 1] = lines[i]
      BY <1>3, <1>5, Headed
    <3>2. /\ text[1] = head /\ After(text, 1) = lines /\ text \in Seq(Line)
          /\ Len(text) = 1 + Len(lines)
          /\ \A i \in 1 .. Len(lines) : text[i + 1] = lines[i]
      BY <2>2, <3>1
    <3>3. Len(lines) \in Nat
      BY <1>5, LenProperties
    <3>4. text # <<>>
      BY <3>2, <3>3, EmptySeq
    <3> QED
      BY <3>2, <3>4
  <2> HIDE DEF text
  <2>4. ~ (Len(text) > 1 /\ IsForkLine(text[2]))
    <3> SUFFICES ASSUME Len(text) > 1 PROVE ~ IsForkLine(text[2])
      OBVIOUS
    <3>1. Len(lines) \in Nat /\ Len(lines) > 0 /\ lines # <<>>
      BY <1>5, <2>3
    <3>2. text[2] = lines[1]
      BY <2>3, <3>1
    <3> QED
      BY <1>5, <3>1, <3>2
  <2>5. ReadSteps(After(text, 2 - 1), 2) = Read(t.steps)
    BY <1>5, <2>3
  <2>6. ReadTrace(text) = Read([seed |-> t.seed, fork |-> <<>>, steps |-> t.steps])
    BY <1>3, <1>4, <2>3, <2>4, <2>5, ReadOrWrong DEF ReadTrace
  <2> QED
    BY <1>1, <1>6, <1>8, <2>3, <2>6
<1>9. ASSUME NEW f \in [at : Instant, seed : Number], t.fork = <<f>>
      PROVE  ReadTrace(WriteTrace(t)) = Read(t) /\ WriteTrace(t) \in Seq(Line)
  <2> DEFINE line == WriteFork(f)
  <2>1. /\ f.at \in Instant /\ f.seed \in Number /\ f = [at |-> f.at, seed |-> f.seed]
        /\ line \in Line /\ IsForkLine(line) /\ ReadFork(line) = Read(f)
    <3>1. f.at \in Instant /\ f.seed \in Number /\ f = [at |-> f.at, seed |-> f.seed]
      OBVIOUS
    <3> QED
      BY <3>1, ForkReadsBack
  <2>2. forks = <<line>>
    BY <1>9
  <2> HIDE DEF forks, line
  <2>3. <<head>> \o <<line>> = <<head, line>>
    BY <1>3, <2>1, OneAndOne
  <2>4. text = <<head, line>> \o lines /\ <<head, line>> \in Seq(Line) /\ Len(<<head, line>>) = 2
    BY <1>3, <2>1, <2>2, <2>3
  <2>5. /\ text \in Seq(Line) /\ text[1] = head /\ text[2] = line /\ Len(text) > 1
        /\ text # <<>> /\ After(text, 2) = lines
    <3>1. After(text, 2) = lines
      BY <1>5, <2>4, Parts
    <3>2. /\ text \in Seq(Line) /\ Len(text) = 2 + Len(lines)
          /\ \A i \in 1 .. 2 + Len(lines) : i <= 2 => text[i] = <<head, line>>[i]
      <4> HIDE DEF text
      <4>1. /\ <<head, line>> \o lines \in Seq(Line)
            /\ Len(<<head, line>> \o lines) = Len(<<head, line>>) + Len(lines)
            /\ \A i \in 1 .. Len(<<head, line>>) + Len(lines) :
                  (<<head, line>> \o lines)[i] =
                    IF i <= Len(<<head, line>>) THEN <<head, line>>[i]
                    ELSE lines[i - Len(<<head, line>>)]
        BY <1>5, <2>4, ConcatProperties
      <4> QED
        BY <2>4, <4>1
    <3>3. Len(lines) \in Nat
      BY <1>5, LenProperties
    <3> HIDE DEF text
    <3>4. text[1] = head /\ text[2] = line
      BY <3>2, <3>3
    <3> QED
      BY <3>1, <3>2, <3>3, <3>4
  <2> HIDE DEF text
  <2>6. ReadSteps(After(text, 3 - 1), 3) = Read(t.steps)
    BY <1>5, <2>5
  <2>7. ReadTrace(text) = Read([seed |-> t.seed, fork |-> <<f>>, steps |-> t.steps])
    BY <1>3, <1>4, <2>1, <2>5, <2>6, ReadOrWrong DEF ReadTrace
  <2> QED
    BY <1>1, <1>6, <1>9, <2>5, <2>7
<1> QED
  BY <1>7, <1>8, <1>9

--------------------------------------------------------------------------------
(* Outcomes. *)

LEMMA FailureFacts ==
    ASSUME NEW outcome \in Failure
    PROVE  /\ outcome # Pass /\ outcome.step \in Number
           /\ outcome.reason \in Line /\ IsReason(outcome.reason) /\ outcome.reason # <<>>
           /\ outcome = Fail(outcome.reason, outcome.step)
           /\ Reproduces(outcome, outcome)
<1>1. /\ outcome = [verdict |-> "fail", reason |-> outcome.reason, step |-> outcome.step]
      /\ outcome.reason \in Seq(STRING) /\ outcome.step \in Number /\ IsReason(outcome.reason)
  BY DEF Failure
<1>2. outcome # Pass
  <2>1. outcome.verdict = "fail" /\ Pass.verdict = "pass"
    BY <1>1 DEF Pass
  <2> QED
    BY <2>1
<1>3. outcome.reason \in Line
  BY <1>1, SeqMonotonic DEF Token, Line
<1>4. outcome.reason # <<>>
  BY <1>1 DEF IsReason, Text
<1> QED
  BY <1>1, <1>2, <1>3, <1>4 DEF Reproduces, Fail

LEMMA OutcomeReadsBack ==
    ASSUME NEW outcome \in Failure
    PROVE  ReadOutcome(WriteOutcome(outcome)) = Read(outcome) /\ WriteOutcome(outcome) \in Line
<1> DEFINE n == Written(outcome.step)
           r == outcome.reason
           line == WriteOutcome(outcome)
           rest == <<n>> \o <<":">> \o r
<1>1. /\ outcome # Pass /\ outcome.step \in Number
      /\ r \in Line /\ IsReason(r) /\ r # <<>> /\ outcome = Fail(r, outcome.step)
  BY FailureFacts
<1>2. n \in Token /\ Digits(<<n>>) = {outcome.step} /\ Max({outcome.step}) = outcome.step
  BY <1>1, NumberReadsBack, NumberAlone
<1>3. line = FailedAt \o <<n, ":">> \o r
  BY <1>1 DEF WriteOutcome
<1> HIDE DEF n, r, line
<1>4. {"failed", "at", "step", ":"} \subseteq Token
  BY WordsAreTokens DEF Words
<1>5. /\ FailedAt \in Seq(Token) /\ Len(FailedAt) = 3 /\ FailedAt[1] = "failed"
      /\ <<":">> \in Seq(Token) /\ <<":">> # <<>> /\ Len(<<":">>) = 1
      /\ <<n>> \in Seq(Token) /\ <<n>> # <<>> /\ Len(<<n>>) = 1
      /\ <<n, ":">> \in Seq(Token) /\ r \in Seq(Token)
  BY <1>1, <1>2, <1>4 DEF FailedAt, Line
<1>6. <<n, ":">> = <<n>> \o <<":">>
  BY <1>2, <1>4, OneAndOne
<1>7. /\ line = FailedAt \o rest /\ rest \in Seq(Token) /\ rest # <<>>
  <2>1. rest = <<n>> \o (<<":">> \o r) /\ <<":">> \o r \in Seq(Token)
    BY <1>5, ConcatAssociative, ConcatProperties
  <2>2. rest \in Seq(Token) /\ Len(rest) = 1 + Len(<<":">> \o r)
    BY <1>2, <2>1, Headed
  <2>3. rest # <<>>
    <3> HIDE DEF rest
    <3>1. Len(<<":">> \o r) \in Nat
      BY <2>1, LenProperties
    <3> QED
      BY <2>2, <3>1, EmptySeq
  <2>4. line = FailedAt \o rest
    BY <1>3, <1>5, <1>6, ConcatAssociative
  <2> QED
    BY <2>2, <2>3, <2>4
<1>8. Splits(rest, <<":">>) # {} /\ SplitOnce(rest, <<":">>) = <<<<n>>, r>>
  <2>1. \A i \in 2 .. Len(<<n>>) : <<n>>[i] # <<":">>[1]
    BY <1>5
  <2> QED
    BY <1>1, <1>5, <2>1, SplitsBetween
<1> HIDE DEF rest
<1>9. Opens(line, FailedAt) /\ After(line, 3) = rest /\ line \in Seq(Token)
  <2>1. line \in Seq(Token)
    BY <1>5, <1>7, ConcatProperties
  <2> QED
    BY <1>5, <1>7, <2>1, Parts
<1>10. line # <<"passed">>
  <2>1. Len(line) = 3 + Len(rest) /\ Len(rest) \in Nat
    <3>1. Len(FailedAt \o rest) = Len(FailedAt) + Len(rest)
      BY <1>5, <1>7, ConcatProperties
    <3>2. Len(rest) \in Nat
      BY <1>7, LenProperties
    <3> QED
      BY <1>5, <1>7, <3>1, <3>2
  <2>2. Len(<<"passed">>) = 1
    OBVIOUS
  <2> QED
    BY <2>1, <2>2
<1>11. ReadOutcome(line) = Read(Fail(r, outcome.step))
  <2>1. /\ SplitOnce(After(line, 3), <<":">>)[1] = <<n>>
        /\ SplitOnce(After(line, 3), <<":">>)[2] = r
    BY <1>8, <1>9
  <2> QED
    BY <1>1, <1>2, <1>8, <1>9, <1>10, <2>1 DEF ReadOutcome
<1> QED
  BY <1>1, <1>9, <1>11 DEF line, Line

--------------------------------------------------------------------------------
(* Schedules. *)

\* What is written for a number, an instant or an end is none of the words around it.
LEMMA NoneOfTheWords ==
    /\ \A n \in Number : Written(n) \notin {"on", "from", "->", "until", "in", "node"}
    /\ \A c \in Clocked : c.text # "forever"
<1>1. \A n \in Number : Written(n) \in {"0", "1", "2", "3", "4", "5"}
  <2> SUFFICES ASSUME NEW n \in Number PROVE Written(n) \in {"0", "1", "2", "3", "4", "5"}
    OBVIOUS
  <2>1. n \in {0, 1, 2, 3, 4, 5}
    BY DEF Number
  <2> QED
    BY <2>1 DEF Written, Numerals
<1>2. \A c \in Clocked : c.text # "forever"
  BY DEF Clocked
<1> QED
  BY <1>1, <1>2

\* A separator between one token and another.
LEMMA SplitsThree ==
    ASSUME NEW a, NEW x, NEW b
    PROVE  /\ Splits(<<a, x, b>>, <<x>>) # {}
           /\ SplitOnce(<<a, x, b>>, <<x>>)[1] = <<a>>
           /\ SplitOnce(<<a, x, b>>, <<x>>)[2] = <<b>>
<1> DEFINE p == <<a>>
           y == <<x>>
           q == <<b>>
           S == {a, x, b}
<1>1. /\ p \in Seq(S) /\ y \in Seq(S) /\ q \in Seq(S)
      /\ p # <<>> /\ y # <<>> /\ q # <<>> /\ Len(p) = 1
  OBVIOUS
<1>2. p \o y \o q = <<a, x, b>>
  <2>1. <<a>> \o <<x>> = <<a, x>>
    BY OneAndOne
  <2>2. <<a, x>> \o <<b>> = <<a, x, b>>
    BY TwoAndOne
  <2> QED
    BY <2>1, <2>2
<1> HIDE DEF p, y, q, S
<1>3. \A i \in 2 .. Len(p) : p[i] # y[1]
  BY <1>1
<1>4. Splits(p \o y \o q, y) # {} /\ SplitOnce(p \o y \o q, y) = <<p, q>>
  BY <1>1, <1>3, SplitsBetween
<1>5. /\ Splits(<<a, x, b>>, y) # {}
      /\ SplitOnce(<<a, x, b>>, y)[1] = p /\ SplitOnce(<<a, x, b>>, y)[2] = q
  BY <1>2, <1>4
<1> QED
  BY <1>5 DEF p, y, q

LEMMA ForeverIsNoInstant ==
    ASSUME NEW at \in Instant
    PROVE  WriteInstant(at) # "forever"
<1>1. \A value : ReadInstant(<<"forever">>) # Read(value)
  BY DEF ReadInstant, Clocked, Amiss, Wrong, Read
<1>2. ReadInstant(<<WriteInstant(at)>>) = Read(at)
  BY InstantReadsBack
<1> QED
  BY <1>1, <1>2

LEMMA EndReadsBack ==
    ASSUME NEW at \in Instant
    PROVE  /\ WriteEnd(at) \in Token
           /\ (IF <<WriteEnd(at)>> = <<"forever">> THEN Read(MaxTime)
               ELSE ReadInstant(<<WriteEnd(at)>>)) = Read(at)
<1>1. WriteInstant(at) \in Token /\ ReadInstant(<<WriteInstant(at)>>) = Read(at)
  BY InstantReadsBack
<1>2. CASE at = MaxTime
  <2>1. WriteEnd(at) = "forever" /\ "forever" \in Token
    BY <1>2, WordsAreTokens DEF WriteEnd, Words
  <2> QED
    BY <1>2, <2>1
<1>3. CASE at # MaxTime
  <2>1. WriteEnd(at) = WriteInstant(at)
    BY <1>3 DEF WriteEnd
  <2>2. WriteInstant(at) # "forever"
    BY <1>1, ForeverIsNoInstant
  <2> QED
    BY <1>1, <2>1, <2>2
<1> QED
  BY <1>2, <1>3

LEMMA WindowReadsBack ==
    ASSUME NEW w \in Window
    PROVE  LET three == <<WriteInstant(w.start), "until", WriteEnd(w.end)>>
           IN three \in Line /\ ReadWindow(three) = Read(w)
<1> DEFINE s == WriteInstant(w.start)
           e == WriteEnd(w.end)
           three == <<s, "until", e>>
<1>1. /\ w.start \in Instant /\ w.end \in Instant /\ w.start <= w.end
      /\ w = [start |-> w.start, end |-> w.end]
  BY DEF Window
<1>2. s \in Token /\ ReadInstant(<<s>>) = Read(w.start)
  BY <1>1, InstantReadsBack
<1>3. /\ e \in Token
      /\ (IF <<e>> = <<"forever">> THEN Read(MaxTime) ELSE ReadInstant(<<e>>)) = Read(w.end)
  BY <1>1, EndReadsBack
<1>4. "until" \in Token
  BY WordsAreTokens DEF Words
<1> HIDE DEF s, e
<1>5. /\ Splits(three, <<"until">>) # {}
      /\ SplitOnce(three, <<"until">>)[1] = <<s>> /\ SplitOnce(three, <<"until">>)[2] = <<e>>
  BY SplitsThree
<1>6. three \in Line
  BY <1>2, <1>3, <1>4 DEF Line
<1>7. ~ w.end < w.start
  BY <1>1 DEF Instant
<1> HIDE DEF three
<1>8. ReadWindow(three) = Read([start |-> w.start, end |-> w.end])
  BY <1>2, <1>3, <1>5, <1>7, ReadOrWrong DEF ReadWindow
<1> QED
  BY <1>1, <1>6, <1>8 DEF three, s, e

LEMMA OddsReadBack ==
    ASSUME NEW odds \in WritableOdds
    PROVE  LET three == <<Written(odds.numerator), "in", Written(odds.denominator)>>
           IN three \in Line /\ ReadOdds(three) = Read(odds)
<1> DEFINE a == Written(odds.numerator)
           b == Written(odds.denominator)
           three == <<a, "in", b>>
<1>1. /\ a \in Token /\ Digits(<<a>>) = {odds.numerator}
      /\ Max({odds.numerator}) = odds.numerator
  BY NumberReadsBack, NumberAlone DEF WritableOdds
<1>2. /\ b \in Token /\ Digits(<<b>>) = {odds.denominator}
      /\ Max({odds.denominator}) = odds.denominator
  BY NumberReadsBack, NumberAlone DEF WritableOdds
<1>3. "in" \in Token
  BY WordsAreTokens DEF Words
<1> HIDE DEF a, b
<1>4. /\ Splits(three, <<"in">>) # {}
      /\ SplitOnce(three, <<"in">>)[1] = <<a>> /\ SplitOnce(three, <<"in">>)[2] = <<b>>
  BY SplitsThree
<1>5. three \in Line
  BY <1>1, <1>2, <1>3 DEF Line
<1>6. /\ odds.denominator # 0 /\ ~ odds.numerator > odds.denominator
      /\ odds = [numerator |-> odds.numerator, denominator |-> odds.denominator]
  BY DEF WritableOdds, Number
<1> HIDE DEF three
<1>7. ReadOdds(three) = Read([numerator |-> odds.numerator, denominator |-> odds.denominator])
  BY <1>1, <1>2, <1>4, <1>6 DEF ReadOdds
<1> QED
  BY <1>5, <1>6, <1>7 DEF three, a, b

\* A node by its name.
LEMMA NodeReadsBack ==
    ASSUME NEW n \in Number
    PROVE  ReadNode(<<"node", Written(n)>>) = {n}
<1> DEFINE t == Written(n)
<1>1. t \in Token /\ Digits(<<t>>) = {n} /\ "node" \in Token
  BY NumberReadsBack, WordsAreTokens DEF Words
<1> HIDE DEF t
<1>2. <<"node">> \o <<t>> = <<"node", t>>
  BY <1>1, OneAndOne
<1>3. <<t>> \in Seq(Token) /\ <<t>> # <<>>
  BY <1>1
<1>4. Opens(<<"node">> \o <<t>>, <<"node">>) /\ After(<<"node">> \o <<t>>, 1) = <<t>>
  <2> DEFINE m == <<t>>
  <2>1. "node" \in Token /\ m \in Seq(Token) /\ m # <<>>
    BY <1>1, <1>3
  <2> HIDE DEF m
  <2>2. Opens(<<"node">> \o m, <<"node">>) /\ After(<<"node">> \o m, 1) = m
    BY <2>1, Headed
  <2> QED
    BY <2>2 DEF m
<1> QED
  BY <1>1, <1>2, <1>4 DEF ReadNode, t

\* The kind of a fault, as its line opens with it.
KindOf(fault) ==
    IF fault.kind = "partition" THEN <<"partition">>
    ELSE <<"loss", Written(fault.odds.numerator), "in", Written(fault.odds.denominator)>>

Route(fault) == <<"node", Written(fault.from), "->", "node", Written(fault.to)>>

Span(fault) == <<"from", WriteInstant(fault.during.start), "until", WriteEnd(fault.during.end)>>

LEMMA FaultFacts ==
    ASSUME NEW fault \in WritableFault
    PROVE  /\ fault.kind \in {"partition", "loss"} /\ fault.during \in Window
           /\ fault.from \in Number /\ fault.to \in Number
           /\ fault.odds \in WritableOdds
           /\ fault.odds.numerator \in Number /\ fault.odds.denominator \in Number
           /\ fault.kind = "partition" => fault.odds = NoOdds
           /\ fault = [kind |-> fault.kind, from |-> fault.from, to |-> fault.to,
                       during |-> fault.during, odds |-> fault.odds]
BY DEF WritableFault, WritableOdds

\* What a line says first of all: that it is a loss, and of what odds, or that it is none.
LEMMA KindReadsBack ==
    ASSUME NEW fault \in WritableFault
    PROVE  LET k == KindOf(fault)
           IN /\ k \in Seq(Token) /\ k # <<>>
              /\ \A i \in 2 .. Len(k) : k[i] # "on"
              /\ fault.kind = "partition" => k = <<"partition">> /\ ~ Opens(k, <<"loss">>)
              /\ fault.kind = "loss" => /\ Opens(k, <<"loss">>)
                                        /\ ReadOdds(After(k, 1)) = Read(fault.odds)
<1> DEFINE a == Written(fault.odds.numerator)
           b == Written(fault.odds.denominator)
           three == <<a, "in", b>>
<1>1. a \in Token /\ b \in Token /\ a # "on" /\ b # "on"
  BY FaultFacts, NumberReadsBack, NoneOfTheWords
<1>2. {"partition", "loss", "in"} \subseteq Token
  BY WordsAreTokens DEF Words
<1>3. three \in Seq(Token) /\ ReadOdds(three) = Read(fault.odds)
  BY FaultFacts, OddsReadBack DEF Line
<1>4. fault.kind \in {"partition", "loss"}
  BY FaultFacts
<1> HIDE DEF a, b
<1>5. CASE fault.kind = "partition"
  <2> DEFINE k == <<"partition">>
  <2>1. KindOf(fault) = k
    BY <1>5 DEF KindOf
  <2>2. k \in Seq(Token) /\ k # <<>> /\ Len(k) = 1 /\ k[1] = "partition"
    BY <1>2
  <2>3. ~ Opens(k, <<"loss">>)
    <3>1. Len(<<"loss">>) = 1 /\ SubSeq(<<"loss">>, 1, 1)[1] = "loss" /\ SubSeq(k, 1, 1)[1] = "partition"
      OBVIOUS
    <3> HIDE DEF k
    <3> QED
      BY <3>1 DEF Opens, IsStrictPrefix, IsPrefix
  <2>4. \A i \in 2 .. Len(k) : k[i] # "on"
    BY <2>2
  <2> HIDE DEF k
  <2>5. fault.kind # "loss"
    BY <1>5
  <2> QED
    BY <2>1, <2>2, <2>3, <2>4, <2>5 DEF k
<1>6. CASE fault.kind = "loss"
  <2> DEFINE k == <<"loss", a, "in", b>>
  <2>1. KindOf(fault) = k
    BY <1>6 DEF KindOf, a, b
  <2>2. k \in Seq(Token) /\ k # <<>>
    BY <1>1, <1>2
  <2>3. \A i \in 2 .. Len(k) : k[i] # "on"
    <3>1. Len(k) = 4 /\ k[2] = a /\ k[3] = "in" /\ k[4] = b
      OBVIOUS
    <3> HIDE DEF k
    <3>2. \A i \in 2 .. 4 : i = 2 \/ i = 3 \/ i = 4
      OBVIOUS
    <3> QED
      BY <1>1, <3>1, <3>2
  <2>4. <<"loss">> \o three = k
    BY <1>1, <1>2, OneAndThree
  <2>5. three # <<>>
    OBVIOUS
  <2> HIDE DEF k, three
  <2>6. Opens(k, <<"loss">>) /\ After(k, 1) = three
    <3>1. "loss" \in Token
      BY <1>2
    <3>2. Opens(<<"loss">> \o three, <<"loss">>) /\ After(<<"loss">> \o three, 1) = three
      BY <1>3, <2>5, <3>1, Headed
    <3> QED
      BY <2>4, <3>2
  <2> QED
    BY <1>3, <1>6, <2>1, <2>2, <2>3, <2>6
<1> QED
  BY <1>4, <1>5, <1>6

\* From one node to another.
LEMMA RouteReadsBack ==
    ASSUME NEW fault \in WritableFault
    PROVE  LET r == Route(fault)
           IN /\ r \in Seq(Token) /\ r # <<>> /\ \A i \in 2 .. Len(r) : r[i] # "from"
              /\ Splits(r, <<"->">>) # {}
              /\ ReadNode(SplitOnce(r, <<"->">>)[1]) = {fault.from}
              /\ ReadNode(SplitOnce(r, <<"->">>)[2]) = {fault.to}
<1> DEFINE a == Written(fault.from)
           b == Written(fault.to)
           p == <<"node", a>>
           x == <<"->">>
           q == <<"node", b>>
           r == <<"node", a, "->", "node", b>>
<1>1. a \in Token /\ b \in Token /\ a \notin {"from", "->"} /\ b # "from"
  BY FaultFacts, NumberReadsBack, NoneOfTheWords
<1>2. {"node", "->"} \subseteq Token
  BY WordsAreTokens DEF Words
<1>3. ReadNode(p) = {fault.from} /\ ReadNode(q) = {fault.to}
  BY FaultFacts, NodeReadsBack
<1>4. Route(fault) = r
  BY DEF Route
<1> HIDE DEF a, b
<1>5. p \o x \o q = r
  <2>1. p \o x = <<"node", a, "->">>
    BY <1>1, <1>2, TwoAndOne
  <2>2. <<"node", a, "->">> \o q = r
    BY <1>1, <1>2, ThreeAndTwo
  <2> QED
    BY <2>1, <2>2
<1>6. /\ p \in Seq(Token) /\ p # <<>> /\ x \in Seq(Token) /\ x # <<>>
      /\ q \in Seq(Token) /\ q # <<>> /\ r \in Seq(Token) /\ r # <<>>
  BY <1>1, <1>2
<1>7. \A i \in 2 .. Len(p) : p[i] # x[1]
  <2>1. Len(p) = 2 /\ p[2] = a /\ x[1] = "->"
    OBVIOUS
  <2> HIDE DEF p, x
  <2>2. \A i \in 2 .. 2 : i = 2
    OBVIOUS
  <2> QED
    BY <1>1, <2>1, <2>2
<1>8. \A i \in 2 .. Len(r) : r[i] # "from"
  <2>1. Len(r) = 5 /\ r[2] = a /\ r[3] = "->" /\ r[4] = "node" /\ r[5] = b
    OBVIOUS
  <2> HIDE DEF r
  <2>2. \A i \in 2 .. 5 : i = 2 \/ i = 3 \/ i = 4 \/ i = 5
    OBVIOUS
  <2> QED
    BY <1>1, <2>1, <2>2
<1> HIDE DEF p, x, q, r
<1>9. Splits(r, x) # {} /\ SplitOnce(r, x)[1] = p /\ SplitOnce(r, x)[2] = q
  <2>1. Splits(p \o x \o q, x) # {} /\ SplitOnce(p \o x \o q, x) = <<p, q>>
    BY <1>6, <1>7, SplitsBetween
  <2> QED
    BY <1>5, <2>1
<1> QED
  BY <1>3, <1>4, <1>6, <1>8, <1>9 DEF x

LEMMA FaultReadsBack ==
    ASSUME NEW fault \in WritableFault
    PROVE  ReadFault(WriteFault(fault)) = Read(fault) /\ WriteFault(fault) \in Line
<1> DEFINE k == KindOf(fault)
           r == Route(fault)
           f == Written(fault.from)
           g == Written(fault.to)
           s == WriteInstant(fault.during.start)
           e == WriteEnd(fault.during.end)
           three == <<s, "until", e>>
           nine == <<"node", f, "->", "node", g, "from", s, "until", e>>
           line == WriteFault(fault)
           on == <<"on">>
           from == <<"from">>
<1>1. f \in Token /\ g \in Token
  BY FaultFacts, NumberReadsBack
<1>2. fault.during \in Window /\ fault.during.start \in Instant /\ fault.during.end \in Instant
  BY FaultFacts DEF Window
<1>3. s \in Token /\ e \in Token
  BY <1>2, InstantReadsBack, EndReadsBack
<1>4. three \in Seq(Token) /\ ReadWindow(three) = Read(fault.during)
  BY <1>2, WindowReadsBack DEF Line
<1>5. r = <<"node", f, "->", "node", g>>
  BY DEF Route
<1>6. line = k \o <<"on", "node", f, "->", "node", g, "from", s, "until", e>>
  BY DEF WriteFault, KindOf
<1>7. {"on", "node", "->", "from", "until"} \subseteq Token
  BY WordsAreTokens DEF Words
<1> HIDE DEF f, g, s, e, line, k, r
<1>8. on \o nine = <<"on", "node", f, "->", "node", g, "from", s, "until", e>>
  <2>1. /\ "on" \in Token /\ "node" \in Token /\ f \in Token /\ "->" \in Token /\ g \in Token
        /\ "from" \in Token /\ s \in Token /\ "until" \in Token /\ e \in Token
    BY <1>1, <1>3, <1>7
  <2>2. <<"on">> \o <<"node", f, "->", "node", g, "from", s, "until", e>>
          = <<"on", "node", f, "->", "node", g, "from", s, "until", e>>
    BY OneAndNine
  <2> QED
    BY <2>2
<1>9. r \o <<"from", s, "until", e>> = nine
  BY <1>1, <1>3, <1>5, <1>7, FiveAndFour
<1>10. from \o three = <<"from", s, "until", e>>
  BY <1>3, <1>7, OneAndThree
<1>11. /\ on \in Seq(Token) /\ on # <<>> /\ on[1] = "on"
       /\ from \in Seq(Token) /\ from # <<>> /\ from[1] = "from"
       /\ nine \in Seq(Token) /\ nine # <<>> /\ three # <<>>
  BY <1>1, <1>3, <1>7
<1>12. /\ k \in Seq(Token) /\ k # <<>> /\ \A i \in 2 .. Len(k) : k[i] # "on"
       /\ fault.kind = "partition" => k = <<"partition">> /\ ~ Opens(k, <<"loss">>)
       /\ fault.kind = "loss" => /\ Opens(k, <<"loss">>)
                                 /\ ReadOdds(After(k, 1)) = Read(fault.odds)
  BY KindReadsBack DEF k
<1>13. /\ r \in Seq(Token) /\ r # <<>> /\ \A i \in 2 .. Len(r) : r[i] # "from"
       /\ Splits(r, <<"->">>) # {}
       /\ ReadNode(SplitOnce(r, <<"->">>)[1]) = {fault.from}
       /\ ReadNode(SplitOnce(r, <<"->">>)[2]) = {fault.to}
  BY RouteReadsBack DEF r
<1> HIDE DEF nine, three, on, from
<1>14. line = k \o on \o nine /\ nine = r \o from \o three
  <2>1. line = k \o (on \o nine)
    BY <1>6, <1>8 DEF nine, on
  <2>2. nine = r \o (from \o three)
    BY <1>9, <1>10 DEF nine, three, from
  <2>3. k \o (on \o nine) = k \o on \o nine
    <3>1. k \in Seq(Token) /\ on \in Seq(Token) /\ nine \in Seq(Token)
      BY <1>11, <1>12
    <3> QED
      BY <3>1, ConcatAssociative
  <2>4. r \o (from \o three) = r \o from \o three
    <3>1. r \in Seq(Token) /\ from \in Seq(Token) /\ three \in Seq(Token)
      BY <1>4, <1>11, <1>13
    <3> QED
      BY <3>1, ConcatAssociative
  <2> QED
    BY <2>1, <2>2, <2>3, <2>4
<1>15. Splits(line, on) # {} /\ SplitOnce(line, on)[1] = k /\ SplitOnce(line, on)[2] = nine
  <2>1. Splits(k \o on \o nine, on) # {} /\ SplitOnce(k \o on \o nine, on) = <<k, nine>>
    <3>1. \A i \in 2 .. Len(k) : k[i] # on[1]
      BY <1>11, <1>12
    <3>2. /\ k \in Seq(Token) /\ k # <<>> /\ on \in Seq(Token) /\ on # <<>>
          /\ nine \in Seq(Token) /\ nine # <<>>
      BY <1>11, <1>12
    <3> QED
      BY <3>1, <3>2, SplitsBetween
  <2> QED
    BY <1>14, <2>1
<1>16. Splits(nine, from) # {} /\ SplitOnce(nine, from)[1] = r /\ SplitOnce(nine, from)[2] = three
  <2>1. Splits(r \o from \o three, from) # {} /\ SplitOnce(r \o from \o three, from) = <<r, three>>
    <3>1. \A i \in 2 .. Len(r) : r[i] # from[1]
      BY <1>11, <1>13
    <3>2. /\ r \in Seq(Token) /\ r # <<>> /\ from \in Seq(Token) /\ from # <<>>
          /\ three \in Seq(Token) /\ three # <<>>
      BY <1>4, <1>11, <1>13
    <3> QED
      BY <3>1, <3>2, SplitsBetween
  <2> QED
    BY <1>14, <2>1
<1>17. line \in Line
  BY <1>11, <1>12, <1>14, ConcatProperties DEF Line
<1>18. Max({fault.from}) = fault.from /\ Max({fault.to}) = fault.to
  BY FaultFacts, NumberAlone
<1>19. ReadFault(line) =
         IF fault.kind = "loss"
         THEN Read([kind |-> "loss", from |-> fault.from, to |-> fault.to,
                    during |-> fault.during, odds |-> fault.odds])
         ELSE Read([kind |-> "partition", from |-> fault.from, to |-> fault.to,
                    during |-> fault.during, odds |-> NoOdds])
  <2>0. fault.kind \in {"partition", "loss"}
    BY FaultFacts
  <2> DEFINE p == SplitOnce(r, <<"->">>)[1]
             q == SplitOnce(r, <<"->">>)[2]
             loses == Opens(k, <<"loss">>)
             odds == IF loses THEN ReadOdds(After(k, 1)) ELSE Read(NoOdds)
  <2>1. ReadFault(line) =
          IF \/ Splits(line, on) = {} \/ Splits(nine, from) = {} \/ Splits(r, <<"->">>) = {}
             \/ ReadNode(p) = {} \/ ReadNode(q) = {}
          THEN Amiss("Malformed")
          ELSE IF ~ IsRead(ReadWindow(three)) THEN ReadWindow(three)
          ELSE IF k # <<"partition">> /\ ~ loses THEN Amiss("Malformed")
          ELSE IF ~ IsRead(odds) THEN odds
          ELSE Read([kind |-> IF loses THEN "loss" ELSE "partition",
                     from |-> Max(ReadNode(p)), to |-> Max(ReadNode(q)),
                     during |-> ReadWindow(three).value, odds |-> odds.value])
    BY <1>15, <1>16 DEF ReadFault, on, from
  <2>2. /\ fault.kind = "loss" => loses /\ odds = Read(fault.odds)
        /\ fault.kind = "partition" => k = <<"partition">> /\ ~ loses /\ odds = Read(NoOdds)
    BY <1>12
  <2>3. ReadNode(p) = {fault.from} /\ ReadNode(q) = {fault.to}
    BY <1>13
  <2> HIDE DEF p, q, loses, odds
  <2>4. /\ IsRead(Read(fault.during)) /\ Read(fault.during).value = fault.during
        /\ \A o : IsRead(Read(o)) /\ Read(o).value = o
    BY ReadOrWrong
  <2>5. ReadFault(line) =
          IF k # <<"partition">> /\ ~ loses THEN Amiss("Malformed")
          ELSE IF ~ IsRead(odds) THEN odds
          ELSE Read([kind |-> IF loses THEN "loss" ELSE "partition",
                     from |-> fault.from, to |-> fault.to,
                     during |-> fault.during, odds |-> odds.value])
    BY <1>4, <1>13, <1>15, <1>16, <1>18, <2>1, <2>3, <2>4
  <2>6. CASE fault.kind = "loss"
    BY <2>2, <2>4, <2>5, <2>6
  <2>7. CASE fault.kind = "partition"
    BY <2>2, <2>4, <2>5, <2>7
  <2> QED
    BY <2>0, <2>6, <2>7
<1>20. ReadFault(line) = Read(fault)
  BY <1>19, FaultFacts
<1> QED
  BY <1>17, <1>20 DEF line

LEMMA ScheduleReadsBack ==
    ASSUME NEW schedule \in Seq(WritableFault)
    PROVE  /\ ReadSchedule(WriteSchedule(schedule)) = Read(schedule)
           /\ WriteSchedule(schedule) \in Seq(Line) /\ WriteSchedule(schedule) # <<>>
<1> DEFINE lines == [i \in DOMAIN schedule |-> WriteFault(schedule[i])]
           text == <<FaultsHeader>> \o lines
<1>1. FaultsHeader \in Line
  <2>1. "chronoloop" \in Token /\ "faults" \in Token
    BY WordsAreTokens DEF Words
  <2> QED
    BY <2>1 DEF FaultsHeader, Line
<1>2. /\ lines \in Seq(Line) /\ Len(lines) = Len(schedule) /\ DOMAIN lines = DOMAIN schedule
      /\ \A i \in DOMAIN schedule : lines[i] = WriteFault(schedule[i])
  <2>1. \A i \in DOMAIN schedule : schedule[i] \in WritableFault
    OBVIOUS
  <2>2. \A i \in DOMAIN schedule : WriteFault(schedule[i]) \in Line
    BY <2>1, FaultReadsBack
  <2> QED
    BY <2>2
<1> HIDE DEF lines
<1>3. /\ text \in Seq(Line) /\ text[1] = FaultsHeader /\ Len(text) = 1 + Len(lines)
      /\ text # <<>> /\ \A i \in 1 .. Len(lines) : text[i + 1] = lines[i]
  BY <1>1, <1>2, Headed, EmptySeq
<1> HIDE DEF text
<1>4. Len(lines) \in Nat /\ DOMAIN lines = 1 .. Len(lines) /\ Len(text) - 1 = Len(lines)
  BY <1>2, <1>3
<1> DEFINE results == [i \in 1 .. Len(text) - 1 |-> ReadFault(text[i + 1])]
<1>5. \A i \in DOMAIN results : results[i] = Read(schedule[i])
  <2> SUFFICES ASSUME NEW i \in 1 .. Len(lines) PROVE results[i] = Read(schedule[i])
    BY <1>4
  <2>1. schedule[i] \in WritableFault
    BY <1>2, <1>4
  <2> QED
    BY <1>2, <1>3, <1>4, <2>1, FaultReadsBack
<1>6. DOMAIN results = DOMAIN schedule
  BY <1>2, <1>4
<1> HIDE DEF results
<1>7. Collect(results, 2) = Read(schedule)
  <2>1. \A i \in DOMAIN results : IsRead(results[i]) /\ results[i].value = schedule[i]
    BY <1>5, ReadOrWrong
  <2>2. [i \in DOMAIN results |-> results[i].value] = [i \in DOMAIN schedule |-> schedule[i]]
    BY <1>6, <2>1
  <2>3. [i \in DOMAIN schedule |-> schedule[i]] = schedule
    OBVIOUS
  <2> QED
    BY <2>1, <2>2, <2>3, CollectsAll
<1>8. ReadSchedule(text) = Read(schedule)
  BY <1>3, <1>7 DEF ReadSchedule, results
<1> QED
  BY <1>3, <1>8 DEF WriteSchedule, text, lines

--------------------------------------------------------------------------------
(* Repros. *)

LEMMA ReproReadsBack ==
    ASSUME NEW repro \in Repro
    PROVE  ReadRepro(WriteRepro(repro)) = Read(repro) /\ WriteRepro(repro) \in Seq(Line)
<1> DEFINE n == Written(repro.seed)
           opening == <<"chronoloop", "repro">>
           three == <<repro.system, "seed", n>>
           head == <<"chronoloop", "repro", repro.system, "seed", n>>
           outcome == WriteOutcome(repro.expected)
           two == <<head, outcome>>
           schedule == WriteSchedule(repro.faults)
           text == two \o schedule
<1>1. /\ repro.system \in Systems /\ repro.seed \in Number
      /\ repro.faults \in Seq(WritableFault) /\ repro.expected \in Failure
      /\ repro = [system |-> repro.system, seed |-> repro.seed,
                  faults |-> repro.faults, expected |-> repro.expected]
  BY DEF Repro
<1>2. n \in Token /\ Digits(<<n>>) = {repro.seed} /\ Max({repro.seed}) = repro.seed
  BY <1>1, NumberReadsBack, NumberAlone
<1>3. repro.system \in Token /\ {"chronoloop", "repro", "seed"} \subseteq Token
  BY <1>1, WordsAreTokens DEF Words
<1>4. /\ outcome \in Line /\ ReadOutcome(outcome) = Read(repro.expected)
      /\ Reproducible(repro.expected)
  BY <1>1, OutcomeReadsBack, FailureFacts DEF Reproducible
<1>5. /\ schedule \in Seq(Line) /\ schedule # <<>>
      /\ ReadSchedule(schedule) = Read(repro.faults)
  BY <1>1, ScheduleReadsBack
<1>6. WriteRepro(repro) = text
  BY DEF WriteRepro
<1> HIDE DEF n, outcome, schedule
<1>7. /\ Splits(three, <<"seed">>) # {}
      /\ SplitOnce(three, <<"seed">>)[1] = <<repro.system>>
      /\ SplitOnce(three, <<"seed">>)[2] = <<n>>
  BY SplitsThree
<1>8. opening \o three = head
  BY TwoAndThree
<1>9. /\ opening \in Seq(Token) /\ Len(opening) = 2
      /\ three \in Seq(Token) /\ three # <<>> /\ head \in Line
  BY <1>2, <1>3 DEF Line
<1> HIDE DEF opening, three, head
<1>10. Opens(head, opening) /\ After(head, 2) = three
  BY <1>8, <1>9, Parts
<1>11. /\ two \in Seq(Line) /\ Len(two) = 2 /\ two[1] = head /\ two[2] = outcome
  BY <1>4, <1>9
<1> HIDE DEF two
<1>12. /\ text \in Seq(Line) /\ After(text, 2) = schedule
       /\ text[1] = head /\ text[2] = outcome /\ ~ Len(text) < 2 /\ text # <<>>
  <2>1. After(text, 2) = schedule
    BY <1>5, <1>11, Parts
  <2>2. /\ text \in Seq(Line) /\ Len(text) = Len(two) + Len(schedule)
        /\ \A i \in 1 .. Len(two) + Len(schedule) :
              text[i] = IF i <= Len(two) THEN two[i] ELSE schedule[i - Len(two)]
    BY <1>5, <1>11, ConcatProperties
  <2> HIDE DEF text
  <2>3. Len(schedule) \in Nat
    BY <1>5, LenProperties
  <2>4. ~ Len(text) < 2 /\ Len(text) # 0
    BY <1>11, <2>2, <2>3
  <2>5. text[1] = head /\ text[2] = outcome
    BY <1>11, <2>2, <2>3
  <2> QED
    BY <2>1, <2>2, <2>4, <2>5, EmptySeq
<1> HIDE DEF text
<1>13. ReadRepro(text) = Read([system |-> repro.system, seed |-> repro.seed,
                               faults |-> repro.faults, expected |-> repro.expected])
  <2> DEFINE named == SplitOnce(After(head, 2), <<"seed">>)
  <2>1. named[1] = <<repro.system>> /\ named[2] = <<n>> /\ Splits(After(head, 2), <<"seed">>) # {}
    BY <1>7, <1>10
  <2>2. ReadRepro(text) =
          IF \/ Splits(After(head, 2), <<"seed">>) = {}
             \/ \A system \in Systems : named[1] # <<system>>
             \/ Digits(named[2]) = {}
          THEN Wrong("BadHeader", 1)
          ELSE IF ~ IsRead(ReadOutcome(outcome)) THEN Wrong(ReadOutcome(outcome).why, 2)
          ELSE IF ~ Reproducible(ReadOutcome(outcome).value) THEN Wrong("HeldUp", 2)
          ELSE IF ~ IsRead(ReadSchedule(schedule)) THEN Nested(ReadSchedule(schedule))
          ELSE Read([system |-> named[1][1], seed |-> Max(Digits(named[2])),
                     faults |-> ReadSchedule(schedule).value,
                     expected |-> ReadOutcome(outcome).value])
    BY <1>10, <1>12 DEF ReadRepro, opening
  <2> HIDE DEF named
  <2>3. ~ \A system \in Systems : named[1] # <<system>>
    BY <1>1, <2>1
  <2>4. named[1][1] = repro.system
    BY <2>1
  <2>5. \A value : IsRead(Read(value)) /\ Read(value).value = value
    BY ReadOrWrong
  <2> QED
    BY <1>2, <1>4, <1>5, <2>1, <2>2, <2>3, <2>4, <2>5
<1> QED
  BY <1>1, <1>6, <1>12, <1>13

--------------------------------------------------------------------------------
(* Whatever is read is of its form. *)

LEMMA NumberRead ==
    ASSUME NEW tokens, Digits(tokens) # {}
    PROVE  Max(Digits(tokens)) \in Number
<1> DEFINE D == Digits(tokens)
<1>1. D \subseteq Number /\ D # {}
  BY DEF Digits
<1> HIDE DEF D
<1>2. D \subseteq {0, 1, 2, 3, 4, 5}
  BY <1>1 DEF Number
<1>3. \E n \in D : \A m \in D : n >= m
  <2>1. CASE 5 \in D
    BY <1>2, <2>1
  <2>2. CASE 5 \notin D /\ 4 \in D
    BY <1>2, <2>2
  <2>3. CASE 5 \notin D /\ 4 \notin D /\ 3 \in D
    BY <1>2, <2>3
  <2>4. CASE 5 \notin D /\ 4 \notin D /\ 3 \notin D /\ 2 \in D
    BY <1>2, <2>4
  <2>5. CASE 5 \notin D /\ 4 \notin D /\ 3 \notin D /\ 2 \notin D /\ 1 \in D
    BY <1>2, <2>5
  <2>6. CASE D = {0}
    BY <2>6
  <2> QED
    BY <1>1, <1>2, <2>1, <2>2, <2>3, <2>4, <2>5, <2>6
<1>4. Max(D) \in D
  BY <1>3 DEF Max
<1> QED
  BY <1>1, <1>4 DEF D

LEMMA InstantRead ==
    ASSUME NEW tokens, IsRead(ReadInstant(tokens))
    PROVE  ReadInstant(tokens).value \in Instant
<1>1. \E c \in Clocked : tokens = <<c.text>>
  BY ReadOrWrong DEF ReadInstant
<1> DEFINE c == CHOOSE c \in Clocked : tokens = <<c.text>>
           seconds == Max(Digits(c.seconds))
           nanos == Max(Digits(c.nanos))
           at == seconds * PER_SEC + nanos
<1>2. ReadInstant(tokens) = Timed(c.seconds, c.nanos)
  BY <1>1 DEF ReadInstant
<1> HIDE DEF c
<1>3. Digits(c.seconds) # {} /\ Digits(c.nanos) # {} /\ ~ at > MaxTime
      /\ Timed(c.seconds, c.nanos) = Read(at)
  BY <1>2, ReadOrWrong DEF Timed
<1>4. seconds \in Number /\ nanos \in Number
  BY <1>3, NumberRead
<1> HIDE DEF seconds, nanos
<1>5. at \in Nat
  BY <1>4 DEF Number, PER_SEC
<1> HIDE DEF at
<1>6. at \in Instant
  BY <1>3, <1>5, MaxTimeAssumption DEF Instant
<1> QED
  BY <1>2, <1>3, <1>6, ReadOrWrong

LEMMA WindowRead ==
    ASSUME NEW tokens, IsRead(ReadWindow(tokens))
    PROVE  ReadWindow(tokens).value \in Window
<1> DEFINE parts == SplitOnce(tokens, <<"until">>)
           start == ReadInstant(parts[1])
           end == IF parts[2] = <<"forever">> THEN Read(MaxTime) ELSE ReadInstant(parts[2])
<1>1. /\ IsRead(start) /\ IsRead(end) /\ ~ end.value < start.value
      /\ ReadWindow(tokens) = Read([start |-> start.value, end |-> end.value])
  <2>1. ReadWindow(tokens) =
          IF Splits(tokens, <<"until">>) = {} THEN Amiss("Malformed")
          ELSE IF ~ IsRead(start) THEN start
          ELSE IF ~ IsRead(end) THEN end
          ELSE IF end.value < start.value THEN Amiss("Backwards")
          ELSE Read([start |-> start.value, end |-> end.value])
    BY DEF ReadWindow
  <2> HIDE DEF start, end
  <2> QED
    BY <2>1, ReadOrWrong
<1>2. start.value \in Instant /\ end.value \in Instant
  <2>1. MaxTime \in Instant
    BY MaxTimeAssumption DEF Instant
  <2> QED
    BY <1>1, <2>1, InstantRead, ReadOrWrong
<1> HIDE DEF start, end
<1>3. [start |-> start.value, end |-> end.value] \in Window
  BY <1>1, <1>2, MaxTimeAssumption DEF Window, Instant
<1> QED
  BY <1>1, <1>3, ReadOrWrong

LEMMA OddsRead ==
    ASSUME NEW tokens, IsRead(ReadOdds(tokens))
    PROVE  ReadOdds(tokens).value \in WritableOdds
<1> DEFINE parts == SplitOnce(tokens, <<"in">>)
           n == Max(Digits(parts[1]))
           d == Max(Digits(parts[2]))
<1>1. ReadOdds(tokens) =
        IF \/ Splits(tokens, <<"in">>) = {} \/ Digits(parts[1]) = {} \/ Digits(parts[2]) = {}
        THEN Amiss("Malformed")
        ELSE IF d = 0 THEN Amiss("NoTrials")
        ELSE IF n > d THEN Amiss("TooLikely")
        ELSE Read([numerator |-> n, denominator |-> d])
  BY DEF ReadOdds
<1>2. Digits(parts[1]) # {} /\ Digits(parts[2]) # {}
  BY <1>1, ReadOrWrong
<1>3. n \in Number /\ d \in Number
  BY <1>2, NumberRead
<1> HIDE DEF n, d
<1>4. d # 0 /\ ~ n > d /\ ReadOdds(tokens) = Read([numerator |-> n, denominator |-> d])
  BY <1>1, ReadOrWrong
<1>5. n <= d
  BY <1>3, <1>4 DEF Number
<1> QED
  BY <1>3, <1>4, <1>5, ReadOrWrong DEF WritableOdds

LEMMA NodeRead ==
    ASSUME NEW tokens, ReadNode(tokens) # {}
    PROVE  Max(ReadNode(tokens)) \in Number
BY NumberRead DEF ReadNode

LEMMA FaultRead ==
    ASSUME NEW tokens, IsRead(ReadFault(tokens))
    PROVE  ReadFault(tokens).value \in WritableFault
<1> DEFINE named == SplitOnce(tokens, <<"on">>)
           placed == SplitOnce(named[2], <<"from">>)
           ends == SplitOnce(placed[1], <<"->">>)
           during == ReadWindow(placed[2])
           loses == Opens(named[1], <<"loss">>)
           odds == IF loses THEN ReadOdds(After(named[1], 1)) ELSE Read(NoOdds)
           fault == [kind |-> IF loses THEN "loss" ELSE "partition",
                     from |-> Max(ReadNode(ends[1])), to |-> Max(ReadNode(ends[2])),
                     during |-> during.value, odds |-> odds.value]
<1>1. ReadFault(tokens) =
        IF \/ Splits(tokens, <<"on">>) = {}
           \/ Splits(named[2], <<"from">>) = {}
           \/ Splits(placed[1], <<"->">>) = {}
           \/ ReadNode(ends[1]) = {} \/ ReadNode(ends[2]) = {}
        THEN Amiss("Malformed")
        ELSE IF ~ IsRead(during) THEN during
        ELSE IF named[1] # <<"partition">> /\ ~ loses THEN Amiss("Malformed")
        ELSE IF ~ IsRead(odds) THEN odds
        ELSE Read(fault)
  BY DEF ReadFault
<1>2. \A tokens2 : IsRead(ReadWindow(tokens2)) => ReadWindow(tokens2).value \in Window
  BY WindowRead
<1>3. NoOdds \in WritableOdds
  BY DEF NoOdds, WritableOdds, Number
<1>4. IsRead(odds) => odds.value \in WritableOdds /\ (~ loses => odds.value = NoOdds)
  BY <1>3, OddsRead, ReadOrWrong
<1>5. /\ ReadNode(ends[1]) # {} => Max(ReadNode(ends[1])) \in Number
      /\ ReadNode(ends[2]) # {} => Max(ReadNode(ends[2])) \in Number
  BY NodeRead
<1>6. IsRead(during) => during.value \in Window
  BY <1>2
<1> HIDE DEF named, placed, ends, during, loses, odds
<1>7. /\ ReadNode(ends[1]) # {} /\ ReadNode(ends[2]) # {} /\ IsRead(during) /\ IsRead(odds)
      /\ ReadFault(tokens) = Read(fault)
  <2> HIDE DEF fault
  <2> QED
    BY <1>1, ReadOrWrong
<1>8. fault \in WritableFault
  BY <1>4, <1>5, <1>6, <1>7 DEF WritableFault
<1> HIDE DEF fault
<1> QED
  BY <1>7, <1>8, ReadOrWrong

LEMMA Collected ==
    ASSUME NEW results, NEW first, IsRead(Collect(results, first))
    PROVE  /\ \A i \in DOMAIN results : IsRead(results[i])
           /\ Collect(results, first).value = [i \in DOMAIN results |-> results[i].value]
<1> DEFINE wrong == {i \in DOMAIN results : ~ IsRead(results[i])}
<1>1. Collect(results, first) =
        IF wrong = {} THEN Read([i \in DOMAIN results |-> results[i].value])
        ELSE Wrong(results[Min(wrong)].why, Min(wrong) - 1 + first)
  BY DEF Collect
<1>2. wrong = {}
  BY <1>1, ReadOrWrong
<1> QED
  BY <1>1, <1>2, ReadOrWrong

LEMMA ScheduleRead ==
    ASSUME NEW L, NEW text \in Seq(L), IsRead(ReadSchedule(text))
    PROVE  ReadSchedule(text).value \in Seq(WritableFault)
<1> DEFINE n == Len(text) - 1
           results == [i \in 1 .. n |-> ReadFault(text[i + 1])]
<1>1. text # <<>> /\ ReadSchedule(text) = Collect(results, 2)
  BY ReadOrWrong DEF ReadSchedule
<1>2. n \in Nat
  BY <1>1, EmptySeq, LenProperties
<1>3. /\ \A i \in 1 .. n : IsRead(results[i])
      /\ ReadSchedule(text).value = [i \in 1 .. n |-> results[i].value]
  <2>1. DOMAIN results = 1 .. n
    OBVIOUS
  <2> HIDE DEF results
  <2> QED
    BY <1>1, <2>1, Collected
<1>4. \A i \in 1 .. n : results[i].value \in WritableFault
  BY <1>3, FaultRead
<1> HIDE DEF n, results
<1> QED
  BY <1>2, <1>3, <1>4

LEMMA ReproRead ==
    ASSUME NEW text, IsRead(ReadRepro(text))
    PROVE  /\ ReadRepro(text).value.seed \in Number
           /\ ReadRepro(text).value.system \in Systems
<1> DEFINE header == <<"chronoloop", "repro">>
           named == SplitOnce(After(text[1], 2), <<"seed">>)
           expected == ReadOutcome(text[2])
           nested == ReadSchedule(After(text, 2))
           repro == [system |-> named[1][1], seed |-> Max(Digits(named[2])),
                     faults |-> nested.value, expected |-> expected.value]
<1>1. ReadRepro(text) =
       IF text = <<>> THEN Wrong("MissingHeader", 1)
       ELSE IF \/ ~ Opens(text[1], header)
               \/ Splits(After(text[1], 2), <<"seed">>) = {}
               \/ \A system \in Systems : named[1] # <<system>>
               \/ Digits(named[2]) = {}
       THEN Wrong("BadHeader", 1)
       ELSE IF Len(text) < 2 THEN Wrong("Malformed", 2)
       ELSE IF ~ IsRead(expected) THEN Wrong(expected.why, 2)
       ELSE IF ~ Reproducible(expected.value) THEN Wrong("HeldUp", 2)
       ELSE IF ~ IsRead(nested) THEN Nested(nested)
       ELSE Read(repro)
  BY DEF ReadRepro
<1>2. ~ IsRead(Nested(nested))
  BY ReadOrWrong DEF Nested
<1> HIDE DEF named, expected, nested, header
<1>3. /\ \E system \in Systems : named[1] = <<system>>
      /\ Digits(named[2]) # {} /\ ReadRepro(text) = Read(repro)
  <2> HIDE DEF repro
  <2> QED
    BY <1>1, <1>2, ReadOrWrong
<1>4. repro.seed \in Number /\ repro.system \in Systems
  BY <1>3, NumberRead
<1> HIDE DEF repro
<1> QED
  BY <1>3, <1>4, ReadOrWrong

\* The steps of a trace are counted by its lines.
LEMMA TraceRead ==
    ASSUME NEW L, NEW text \in Seq(L), IsRead(ReadTrace(text))
    PROVE  LET traced == ReadTrace(text).value
           IN /\ traced.seed \in Number
              /\ traced.fork = <<>> \/ Len(traced.fork) = 1
              /\ \E n \in Nat : \E e : traced.steps = [i \in 1 .. n |-> e[i]]
<1> DEFINE heading == Numbered(text[1], Header("trace"))
           forks == Len(text) > 1 /\ IsForkLine(text[2])
           fork == IF forks THEN ReadFork(text[2]) ELSE Read(<<>>)
           first == IF forks THEN 3 ELSE 2
           records == After(text, first - 1)
           steps == ReadSteps(records, first)
           traced == [seed |-> Max(heading), fork |-> IF forks THEN <<fork.value>> ELSE <<>>,
                     steps |-> steps.value]
<1>1. ReadTrace(text) =
        IF text = <<>> THEN Wrong("MissingHeader", 1)
        ELSE IF heading = {} THEN Wrong("BadHeader", 1)
        ELSE IF ~ IsRead(fork) THEN fork
        ELSE IF ~ IsRead(steps) THEN steps
        ELSE Read(traced)
  BY DEF ReadTrace
<1>2. heading # {} /\ text # <<>> /\ IsRead(steps) /\ ReadTrace(text) = Read(traced)
  <2> HIDE DEF heading, fork, steps, traced
  <2> QED
    BY <1>1, ReadOrWrong
<1>3. Max(heading) \in Number
  BY <1>2, NumberRead DEF Numbered
<1>4. \E n \in Nat : DOMAIN records = 1 .. n
  <2>1. Len(text) \in Nat /\ Len(text) > 0
    BY <1>2, EmptySeq, LenProperties
  <2>2. first \in {2, 3} /\ first - 1 <= Len(text)
    BY <2>1
  <2>3. records = SubSeq(text, first, Len(text))
    <3>1. first - 1 + 1 = first
      BY <2>2
    <3> QED
      BY <3>1 DEF After
  <2> HIDE DEF first, records
  <2>4. \A i \in first .. Len(text) : text[i] \in L
    BY <2>1, <2>2, ElementOfSeq
  <2>5. records \in Seq(L)
    BY <2>1, <2>2, <2>3, <2>4, SubSeqProperties
  <2> QED
    BY <2>5, LenProperties
<1>5. PICK n \in Nat : DOMAIN records = 1 .. n
  BY <1>4
<1> DEFINE results == [i \in DOMAIN records |-> ReadNumbered(records[i], i - 1)]
<1>6. steps.value = [i \in DOMAIN records |-> results[i].value]
  <2>1. steps = Collect(results, first)
    BY DEF ReadSteps
  <2>2. DOMAIN results = DOMAIN records
    OBVIOUS
  <2> HIDE DEF results, steps
  <2> QED
    BY <1>2, <2>1, <2>2, Collected
<1> DEFINE e == [i \in DOMAIN records |-> results[i].value]
<1>7. steps.value = [i \in 1 .. n |-> e[i]]
  BY <1>5, <1>6
<1>8. traced.fork = <<>> \/ Len(traced.fork) = 1
  OBVIOUS
<1> HIDE DEF heading, fork, records, results, e, steps
<1>9. /\ traced.seed \in Number
      /\ \E m \in Nat : \E f : traced.steps = [i \in 1 .. m |-> f[i]]
  BY <1>3, <1>5, <1>7
<1> HIDE DEF traced
<1>10. ReadTrace(text).value = traced
  BY <1>2, ReadOrWrong
<1> QED
  BY <1>8, <1>9, <1>10

--------------------------------------------------------------------------------
(* What runs came to, and what the pages say of it. *)

Ending == {Pass, Unrun, Crash} \cup Failure

\* What is remembered of a run is what such a run comes to.
WellKnown(memory) ==
    \A run \in DOMAIN memory :
       /\ run[1] = "exchange" => memory[run] \in Seq(Entry)
       /\ run[1] = "ring" => memory[run] \in Steps
       /\ run[1] \in Systems => memory[run] \in Ending

\* Nothing that was remembered is forgotten or comes out otherwise.
Grown(memory, more) ==
    \A run \in DOMAIN memory : run \in DOMAIN more /\ more[run] = memory[run]

\* A run that may be asked for: a fork once the run it forks from was made.
Askable(memory, run) ==
    \/ run[1] = "exchange"
    \/ run[1] = "ring" /\ (run[3] = <<>> \/ RingOf(run[2], <<>>) \in DOMAIN memory)
    \/ run[1] \in Systems /\ run[2] \in Number \cup 0 .. MaxSeeds - 1

LEMMA SystemsApart == "exchange" \notin Systems /\ "ring" \notin Systems
BY DEF Systems

LEMMA ComesAsItMay ==
    ASSUME NEW memory, WellKnown(memory), NEW run, Askable(memory, run),
           NEW came \in Comes(memory, run)
    PROVE  /\ run[1] = "exchange" => came \in Seq(Entry)
           /\ run[1] = "ring" => came \in Steps
           /\ run[1] \in Systems => came \in Ending
<1>1. CASE run \in DOMAIN memory
  BY <1>1 DEF Comes, WellKnown
<1>2. CASE run \notin DOMAIN memory
  <2>1. came \in MayCome(memory, run)
    BY <1>2 DEF Comes
  <2>2. CASE run[1] = "exchange"
    <3>1. came \in Exchanges
      BY <2>1, <2>2 DEF MayCome
    <3> QED
      BY <2>2, <3>1, SystemsApart, WrittenAssumption
  <2>3. CASE run[1] = "ring"
    <3> DEFINE plain == memory[RingOf(run[2], <<>>)]
    <3>1. /\ run[3] = <<>> => came \in Rings
          /\ run[3] # <<>> => came = plain \/ came \in Rings
      BY <2>1, <2>3 DEF MayCome
    <3>2. run[3] # <<>> => RingOf(run[2], <<>>) \in DOMAIN memory
      BY <2>3, SystemsApart DEF Askable
    <3>3. RingOf(run[2], <<>>)[1] = "ring"
      BY DEF RingOf
    <3>4. run[3] # <<>> => plain \in Steps
      BY <3>2, <3>3 DEF WellKnown
    <3> HIDE DEF plain
    <3> QED
      BY <2>3, <3>1, <3>4, SystemsApart, WrittenAssumption
  <2>4. CASE run[1] \in Systems
    <3>1. run[1] # "exchange" /\ run[1] # "ring"
      BY <2>4, SystemsApart
    <3>2. came \in Endings(run[2])
      BY <2>1, <3>1 DEF MayCome
    <3>3. run[2] \in Number \cup 0 .. MaxSeeds - 1
      BY <3>1 DEF Askable
    <3> QED
      BY <3>1, <3>2, <3>3, WrittenAssumption DEF Ending
  <2> QED
    BY <2>2, <2>3, <2>4 DEF Askable
<1> QED
  BY <1>1, <1>2

LEMMA Learns ==
    ASSUME NEW memory, WellKnown(memory), NEW run, Askable(memory, run),
           NEW came \in Comes(memory, run)
    PROVE  LET more == Knowing(memory, run, came)
           IN WellKnown(more) /\ Grown(memory, more) /\ run \in DOMAIN more /\ more[run] = came
<1> DEFINE more == Knowing(memory, run, came)
<1>1. /\ DOMAIN more = DOMAIN memory \cup {run} /\ more[run] = came
      /\ \A r \in DOMAIN memory : r # run => more[r] = memory[r]
  BY DEF Knowing
<1> HIDE DEF more
<1>2. run \in DOMAIN memory => came = memory[run]
  BY DEF Comes
<1>3. WellKnown(more)
  <2> SUFFICES ASSUME NEW r \in DOMAIN more
               PROVE  /\ r[1] = "exchange" => more[r] \in Seq(Entry)
                      /\ r[1] = "ring" => more[r] \in Steps
                      /\ r[1] \in Systems => more[r] \in Ending
    BY DEF WellKnown
  <2>1. CASE r = run
    BY <1>1, <2>1, ComesAsItMay
  <2>2. CASE r # run
    BY <1>1, <2>2 DEF WellKnown
  <2> QED
    BY <2>1, <2>2
<1>4. Grown(memory, more)
  BY <1>1, <1>2 DEF Grown
<1> QED
  BY <1>1, <1>3, <1>4 DEF more

LEMMA GrowsOn ==
    ASSUME NEW one, NEW two, NEW three, Grown(one, two), Grown(two, three)
    PROVE  Grown(one, three)
BY DEF Grown

\* What a page says came of the run it names, and that it was so.
Told(memory, page) ==
    LET v == page.value IN
    /\ page.form = "history" =>
          ExchangeOf(v.seed) \in DOMAIN memory /\ memory[ExchangeOf(v.seed)] = v.entries
    /\ page.form = "trace" =>
          RingOf(v.seed, v.fork) \in DOMAIN memory /\ memory[RingOf(v.seed, v.fork)] = v.steps
    /\ page.form = "repro" =>
          /\ SystemOf(v.system, v.seed, v.faults) \in DOMAIN memory
          /\ memory[SystemOf(v.system, v.seed, v.faults)] = v.expected

OfItsForm(page) ==
    \/ page.form = "history" /\ page.value \in Recording
    \/ page.form = "trace" /\ page.value \in Trace
    \/ page.form = "repro" /\ page.value \in Repro
    \/ page.form = "faults" /\ page.value \in Seq(WritableFault)

LEMMA StaysTold ==
    ASSUME NEW memory, NEW more, Grown(memory, more), NEW page, Told(memory, page)
    PROVE  Told(more, page)
BY DEF Grown, Told

\* A page in its form is read back as what it was written for.
LEMMA FormReadsBack ==
    ASSUME NEW page, OfItsForm(page)
    PROVE  LET text == WriteForm(page.form, page.value)
           IN /\ text \in Seq(Line)
              /\ page.form = "history" =>
                    page.value \in Recording /\ ReadRecording(text) = Read(page.value)
              /\ page.form = "trace" => page.value \in Trace /\ ReadTrace(text) = Read(page.value)
              /\ page.form = "repro" => page.value \in Repro /\ ReadRepro(text) = Read(page.value)
              /\ page.form = "faults" =>
                    page.value \in Seq(WritableFault) /\ ReadSchedule(text) = Read(page.value)
<1>1. CASE page.form = "history"
  BY <1>1, RecordingReadsBack DEF OfItsForm, WriteForm
<1>2. CASE page.form = "trace"
  BY <1>2, TraceReadsBack DEF OfItsForm, WriteForm
<1>3. CASE page.form = "repro"
  BY <1>3, ReproReadsBack DEF OfItsForm, WriteForm
<1>4. CASE page.form = "faults"
  BY <1>4, ScheduleReadsBack DEF OfItsForm, WriteForm
<1> QED
  BY <1>1, <1>2, <1>3, <1>4 DEF OfItsForm

\* The texts there are, whatever befell them.
Texts == Seq(Seq(Token \cup Garble))

\* Every page is in its form, by this build or an earlier one; what this build wrote tells
\* what a run of it came to.
Kept ==
    /\ files \in [Path -> Texts] /\ DOMAIN meant = Path /\ build \in {0, 1}
    /\ WellKnown(known)
    /\ \A path \in Path :
         meant[path] # Nobody =>
           /\ OfItsForm(meant[path]) /\ meant[path].build \in 0 .. build
           /\ meant[path].build = build => Told(known, meant[path])

LEMMA LinesAreTexts == Seq(Line) \subseteq Texts
<1>1. Token \subseteq Token \cup Garble
  OBVIOUS
<1>2. Line \subseteq Seq(Token \cup Garble)
  BY <1>1, SeqMonotonic DEF Line
<1> QED
  BY <1>2, SeqMonotonic DEF Texts

--------------------------------------------------------------------------------
(* Texts, whatever becomes of them. *)

\* A text with one line in it, or one line more or less, is a text.
LEMMA PartsOfTexts ==
    ASSUME NEW S, NEW s \in Seq(S), NEW n \in Nat, n <= Len(s)
    PROVE  SubSeq(s, 1, n) \in Seq(S) /\ SubSeq(s, n + 1, Len(s)) \in Seq(S)
<1>1. Len(s) \in Nat
  BY LenProperties
<1>2. \A i \in 1 .. n : s[i] \in S
  BY <1>1, ElementOfSeq
<1>3. \A i \in n + 1 .. Len(s) : s[i] \in S
  BY <1>1, ElementOfSeq
<1> QED
  BY <1>1, <1>2, <1>3, SubSeqProperties

LEMMA BeginningsAreTexts == ASSUME NEW text \in Texts PROVE Beginnings(text) \subseteq Texts
<1> DEFINE L == Seq(Token \cup Garble)
<1>1. text \in Seq(L) /\ Len(text) \in Nat /\ Texts = Seq(L)
  BY LenProperties DEF Texts
<1>2. ASSUME NEW n \in 0 .. Len(text) - 1 PROVE SubSeq(text, 1, n) \in Seq(L)
  <2>1. n \in Nat /\ n <= Len(text)
    BY <1>1
  <2> HIDE DEF L
  <2> QED
    BY <1>1, <2>1, PartsOfTexts
<1>3. ASSUME NEW p \in {q \in (1 .. Len(text)) \X (1 .. 12) : q[2] < Len(text[q[1]])}
      PROVE  Append(SubSeq(text, 1, p[1] - 1), SubSeq(text[p[1]], 1, p[2])) \in Seq(L)
  <2> DEFINE line == text[p[1]]
  <2>1. p[1] \in 1 .. Len(text) /\ p[2] \in 1 .. 12 /\ p[2] < Len(line)
    OBVIOUS
  <2>2. line \in L
    <3> HIDE DEF L
    <3> QED
      BY <1>1, <2>1, ElementOfSeq
  <2>3. p[1] - 1 \in Nat /\ p[1] - 1 <= Len(text) /\ p[2] \in Nat
    <3>1. \A m \in Nat : \A i \in 1 .. m : i - 1 \in Nat /\ i - 1 <= m
      OBVIOUS
    <3>2. \A j \in 1 .. 12 : j \in Nat
      OBVIOUS
    <3> HIDE DEF L
    <3> QED
      BY <1>1, <2>1, <3>1, <3>2
  <2>4. Len(line) \in Nat
    BY <2>2, LenProperties
  <2>5. p[2] <= Len(line)
    BY <2>1, <2>3, <2>4
  <2> HIDE DEF line
  <2>6. SubSeq(line, 1, p[2]) \in L
    BY <2>2, <2>3, <2>5, PartsOfTexts
  <2> HIDE DEF L
  <2>7. SubSeq(text, 1, p[1] - 1) \in Seq(L)
    BY <1>1, <2>3, PartsOfTexts
  <2>8. Append(SubSeq(text, 1, p[1] - 1), SubSeq(line, 1, p[2])) \in Seq(L)
    BY <2>6, <2>7, AppendProperties
  <2> QED
    BY <2>8 DEF line
<1> QED
  BY <1>1, <1>2, <1>3 DEF Beginnings

LEMMA HarmedAreTexts == ASSUME NEW text \in Texts PROVE Harmed(text) \subseteq Texts
<1> DEFINE L == Seq(Token \cup Garble)
<1>1. text \in Seq(L) /\ Len(text) \in Nat /\ Texts = Seq(L) /\ DOMAIN text = 1 .. Len(text)
  BY LenProperties DEF Texts
<1>2. ASSUME NEW i \in DOMAIN text
      PROVE  RemoveAt(text, i) \in Seq(L) /\ InsertAt(text, i, text[i]) \in Seq(L)
  <2>1. i - 1 \in Nat /\ i - 1 <= Len(text) /\ i \in Nat /\ i <= Len(text) /\ i - 1 + 1 = i
    BY <1>1
  <2> HIDE DEF L
  <2>2. SubSeq(text, 1, i - 1) \in Seq(L)
    BY <1>1, <2>1, PartsOfTexts
  <2>3. SubSeq(text, i + 1, Len(text)) \in Seq(L)
    BY <1>1, <2>1, PartsOfTexts
  <2>4. SubSeq(text, i, Len(text)) \in Seq(L)
    <3>1. SubSeq(text, (i - 1) + 1, Len(text)) \in Seq(L)
      BY <1>1, <2>1, PartsOfTexts
    <3> QED
      BY <2>1, <3>1
  <2>5. <<text[i]>> \in Seq(L)
    BY <1>1, ElementOfSeq
  <2>6. SubSeq(text, 1, i - 1) \o <<text[i]>> \in Seq(L)
    BY <2>2, <2>5, ConcatProperties
  <2>7. SubSeq(text, 1, i - 1) \o <<text[i]>> \o SubSeq(text, i, Len(text)) \in Seq(L)
    BY <2>4, <2>6, ConcatProperties
  <2>8. SubSeq(text, 1, i - 1) \o SubSeq(text, i + 1, Len(text)) \in Seq(L)
    BY <2>2, <2>3, ConcatProperties
  <2> QED
    BY <2>7, <2>8 DEF RemoveAt, InsertAt
<1>3. ASSUME NEW i \in 1 .. Len(text) - 1
      PROVE  [text EXCEPT ![i] = text[i + 1], ![i + 1] = text[i]] \in Seq(L)
  <2>1. i \in 1 .. Len(text) /\ i + 1 \in 1 .. Len(text)
    BY <1>1
  <2> HIDE DEF L
  <2>2. text[i] \in L /\ text[i + 1] \in L
    BY <1>1, <2>1, ElementOfSeq
  <2>3. [text EXCEPT ![i] = text[i + 1]] \in Seq(L)
    BY <1>1, <2>1, <2>2, ExceptSeq
  <2> DEFINE one == [text EXCEPT ![i] = text[i + 1]]
  <2>4. one \in Seq(L) /\ i + 1 \in 1 .. Len(one)
    BY <1>1, <2>1, <2>2, <2>3, ExceptSeq
  <2> HIDE DEF one
  <2>5. [one EXCEPT ![i + 1] = text[i]] \in Seq(L)
    BY <2>2, <2>4, ExceptSeq
  <2> QED
    BY <2>5 DEF one
<1>4. ASSUME NEW p \in {q \in (1 .. Len(text)) \X (1 .. 12) : q[2] <= Len(text[q[1]])},
             NEW token \in Garble
      PROVE  [text EXCEPT ![p[1]][p[2]] = token] \in Seq(L)
  <2> DEFINE line == text[p[1]]
             harmed == [line EXCEPT ![p[2]] = token]
  <2>1. p[1] \in 1 .. Len(text) /\ p[2] \in 1 .. 12 /\ p[2] <= Len(line)
    OBVIOUS
  <2>2. line \in L
    <3> HIDE DEF L
    <3> QED
      BY <1>1, <2>1, ElementOfSeq
  <2>3. Len(line) \in Nat /\ token \in Token \cup Garble
    BY <2>2, LenProperties
  <2>4. p[2] \in 1 .. Len(line)
    BY <2>1, <2>3
  <2>5. harmed \in L
    BY <2>2, <2>3, <2>4, ExceptSeq
  <2>6. [text EXCEPT ![p[1]][p[2]] = token] = [text EXCEPT ![p[1]] = harmed]
    OBVIOUS
  <2> HIDE DEF harmed, L
  <2>7. [text EXCEPT ![p[1]] = harmed] \in Seq(L)
    BY <1>1, <2>1, <2>5, ExceptSeq
  <2> QED
    BY <2>6, <2>7
<1> DEFINE lost == {RemoveAt(text, i) : i \in DOMAIN text}
           twice == {InsertAt(text, i, text[i]) : i \in DOMAIN text}
           swapped == {[text EXCEPT ![i] = text[i + 1], ![i + 1] = text[i]] :
                         i \in 1 .. Len(text) - 1}
           misspelt == {[text EXCEPT ![p[1]][p[2]] = token] :
                          p \in {q \in (1 .. Len(text)) \X (1 .. 12) : q[2] <= Len(text[q[1]])},
                          token \in Garble}
<1>5. Harmed(text) = lost \cup twice \cup swapped \cup misspelt
  BY DEF Harmed
<1>6. lost \subseteq Seq(L) /\ twice \subseteq Seq(L)
  BY <1>2
<1>7. swapped \subseteq Seq(L)
  BY <1>3
<1>8. misspelt \subseteq Seq(L)
  <2> DEFINE P == {q \in (1 .. Len(text)) \X (1 .. 12) : q[2] <= Len(text[q[1]])}
             T == Seq(L)
             spelt(p, token) == [text EXCEPT ![p[1]][p[2]] = token]
  <2>1. \A p \in P : \A token \in Garble : spelt(p, token) \in T
    BY <1>4
  <2>2. misspelt = {spelt(p, token) : p \in P, token \in Garble}
    OBVIOUS
  <2> HIDE DEF P, T, spelt, misspelt
  <2>3. {spelt(p, token) : p \in P, token \in Garble} \subseteq T
    BY <2>1
  <2> QED
    BY <2>2, <2>3 DEF T
<1> HIDE DEF lost, twice, swapped, misspelt
<1> QED
  BY <1>1, <1>5, <1>6, <1>7, <1>8

--------------------------------------------------------------------------------
(* How commands leave the pages. *)

LEMMA KeptAsItWas ==
    ASSUME Kept, UNCHANGED <<files, meant, build>>, WellKnown(known'), Grown(known, known')
    PROVE  Kept'
<1>1. files' = files /\ meant' = meant /\ build' = build
  OBVIOUS
<1>2. ASSUME NEW path \in Path, meant[path] # Nobody, meant[path].build = build
      PROVE  Told(known', meant[path])
  BY <1>2, StaysTold DEF Kept
<1> QED
  BY <1>1, <1>2 DEF Kept

LEMMA TellsKeeps ==
    ASSUME Kept, UNCHANGED build, WellKnown(known'), Grown(known, known'),
           NEW command, NEW path, NEW result, Tells(command, path, result)
    PROVE  Kept'
BY KeptAsItWas DEF Tells

LEMMA CrashesKeeps ==
    ASSUME Kept, UNCHANGED build, WellKnown(known'), Grown(known, known'),
           NEW command, NEW path, Crashes(command, path)
    PROVE  Kept'
BY KeptAsItWas DEF Crashes

LEMMA PagesArePaths == Pages \subseteq Path /\ "faults" \in Path
BY DEF Path, Pages

\* A page that is written tells what was learnt of the run it names.
LEMMA WritesKeeps ==
    ASSUME Kept, UNCHANGED build, WellKnown(known'), Grown(known, known'),
           NEW command, NEW path, NEW result, NEW form, NEW value, NEW to \in Pages,
           Writes(command, path, result, form, value, to),
           result.is = "good" =>
              OfItsForm(Meant(form, value)) /\ Told(known', Meant(form, value))
    PROVE  Kept'
<1> DEFINE page == Meant(form, value)
<1>1. to \in Path
  BY PagesArePaths
<1>2. /\ files \in [Path -> Texts] /\ DOMAIN meant = Path /\ build \in {0, 1}
      /\ \A other \in Path :
           meant[other] # Nobody =>
             /\ OfItsForm(meant[other]) /\ meant[other].build \in 0 .. build
             /\ meant[other].build = build => Told(known', meant[other])
  BY StaysTold DEF Kept
<1>3. page.build = build /\ page.form = form /\ page.value = value
  BY DEF Meant
<1>4. CASE result.is = "bad"
  <2>1. <<>> \in Texts
    BY DEF Texts
  <2>2. files' = [files EXCEPT ![to] = <<>>] /\ meant' = [meant EXCEPT ![to] = Nobody]
    BY <1>4 DEF Writes
  <2>3. files' \in [Path -> Texts] /\ DOMAIN meant' = Path
    BY <1>2, <2>1, <2>2
  <2>4. \A other \in Path : meant'[other] # Nobody => other # to /\ meant'[other] = meant[other]
    BY <1>1, <1>2, <2>2
  <2> QED
    BY <1>2, <2>3, <2>4 DEF Kept
<1>5. CASE result.is = "good"
  <2> DEFINE text == WriteForm(form, value)
  <2>1. OfItsForm(page) /\ Told(known', page)
    BY <1>5
  <2>2. text \in Texts
    BY <1>3, <2>1, FormReadsBack, LinesAreTexts
  <2>3. files' = files \/ \E t \in Texts : files' = [files EXCEPT ![to] = t]
    <3>1. Beginnings(text) \subseteq Texts
      BY <2>2, BeginningsAreTexts
    <3> QED
      BY <1>5, <2>2, <3>1 DEF Writes
  <2>4. meant' = meant \/ meant' = [meant EXCEPT ![to] = page]
    BY <1>5 DEF Writes
  <2> HIDE DEF page, text
  <2>5. files' \in [Path -> Texts] /\ DOMAIN meant' = Path
    BY <1>2, <2>3, <2>4
  <2>6. \A other \in Path : meant'[other] = meant[other] \/ meant'[other] = page
    BY <1>1, <1>2, <2>4
  <2>7. \A other \in Path :
           meant'[other] # Nobody =>
             /\ OfItsForm(meant'[other]) /\ meant'[other].build \in 0 .. build
             /\ meant'[other].build = build => Told(known', meant'[other])
    BY <1>2, <1>3, <2>1, <2>6
  <2> QED
    BY <1>2, <2>5, <2>7 DEF Kept
<1> QED
  BY <1>4, <1>5 DEF Writes

--------------------------------------------------------------------------------
(* What is answered about a page. *)

\* The answer is good news or an excuse if the page is as it should be.
Fulfilled(command, path, result) ==
    Fits(command, meant[path]) /\ meant[path].build = build /\ Intact(path)
      => result.is = "good" \/ result.why \in Excuses(command)

LEMMA TellsReads ==
    ASSUME NEW command, NEW path, NEW result, Tells(command, path, result), UNCHANGED build,
           Fulfilled(command, path, result)
    PROVE  ReadsBackWhatWasWritten'
<1>1. /\ files' = files /\ meant' = meant /\ build' = build
      /\ said'.command = command /\ said'.on = path /\ said'.result = result
  BY DEF Tells
<1>2. Intact(path)' => Intact(path)
  BY <1>1 DEF Intact
<1> QED
  BY <1>1, <1>2 DEF ReadsBackWhatWasWritten, Fulfilled, Intact

LEMMA WritesReads ==
    ASSUME Kept, NEW command, NEW path \in Path, NEW result, NEW form, NEW value,
           NEW to \in Pages, to # path,
           Writes(command, path, result, form, value, to), UNCHANGED build,
           Fulfilled(command, path, result)
    PROVE  ReadsBackWhatWasWritten'
<1>1. /\ build' = build
      /\ said'.command = command /\ said'.on = path /\ said'.result = result
  BY DEF Writes
<1>2. files'[path] = files[path] /\ meant'[path] = meant[path]
  <2>1. files' = files \/ \E text : files' = [files EXCEPT ![to] = text]
    BY DEF Writes
  <2>2. meant' = meant \/ \E page : meant' = [meant EXCEPT ![to] = page]
    BY DEF Writes
  <2> QED
    BY <2>1, <2>2 DEF Kept
<1> QED
  BY <1>1, <1>2 DEF ReadsBackWhatWasWritten, Fulfilled, Intact

LEMMA OthersRead ==
    ASSUME said'.command \notin Readers \/ said'.exit \in {"none", "panic"}
    PROVE  ReadsBackWhatWasWritten'
BY DEF ReadsBackWhatWasWritten, Answered

LEMMA IntactIsRead ==
    ASSUME Kept, NEW path \in Path, Intact(path)
    PROVE  LET page == meant[path]
           IN /\ page.form = "history" =>
                    page.value \in Recording /\ ReadRecording(files[path]) = Read(page.value)
              /\ page.form = "trace" =>
                    page.value \in Trace /\ ReadTrace(files[path]) = Read(page.value)
              /\ page.form = "repro" =>
                    page.value \in Repro /\ ReadRepro(files[path]) = Read(page.value)
              /\ page.form = "faults" =>
                    /\ page.value \in Seq(WritableFault)
                    /\ ReadSchedule(files[path]) = Read(page.value)
              /\ page.build = build => Told(known, page)
<1>1. meant[path] # Nobody /\ files[path] = WriteForm(meant[path].form, meant[path].value)
  BY DEF Intact
<1>2. OfItsForm(meant[path]) /\ (meant[path].build = build => Told(known, meant[path]))
  BY <1>1 DEF Kept
<1> QED
  BY <1>1, <1>2, FormReadsBack

--------------------------------------------------------------------------------
(* Holding a page to a run. *)

LEMMA NoDivergence ==
    ASSUME NEW records, NEW first
    PROVE  FirstDivergence(records, records, first) = {}
BY DEF FirstDivergence

LEMMA NothingParted ==
    ASSUME NEW S, NEW replayed \in Seq(S), NEW recorded, NEW n \in Nat, NEW e,
           recorded = [i \in 1 .. n |-> e[i]], NEW first,
           FirstDivergence(recorded, replayed, first) = {}
    PROVE  recorded = replayed
<1> DEFINE parted == {i \in DOMAIN recorded \cap DOMAIN replayed : recorded[i] # replayed[i]}
<1>1. parted = {} /\ Len(recorded) = Len(replayed)
  BY DEF FirstDivergence
<1>2. DOMAIN recorded = 1 .. n /\ Len(recorded) = n
  <2>1. recorded \in Seq({e[i] : i \in 1 .. n})
    OBVIOUS
  <2> QED
    BY <2>1
<1>3. DOMAIN replayed = 1 .. n /\ replayed = [i \in 1 .. n |-> replayed[i]]
  <2>1. Len(replayed) = n
    BY <1>1, <1>2
  <2> QED
    BY <2>1
<1>4. \A i \in 1 .. n : recorded[i] = replayed[i]
  BY <1>1, <1>2, <1>3
<1>5. recorded = [i \in 1 .. n |-> recorded[i]]
  BY <1>2
<1> QED
  BY <1>3, <1>4, <1>5

\* The first run of a trace's seed is made before the one it forked into.
LEMMA RunsOfTraces ==
    ASSUME NEW memory, WellKnown(memory), NEW s, NEW fork,
           NEW plain \in Comes(memory, RingOf(s, <<>>)),
           NEW steps \in Comes(Knowing(memory, RingOf(s, <<>>), plain), RingOf(s, fork))
    PROVE  LET more == Knowing(Knowing(memory, RingOf(s, <<>>), plain), RingOf(s, fork), steps)
           IN /\ WellKnown(more) /\ Grown(memory, more) /\ steps \in Steps
              /\ RingOf(s, <<>>) \in DOMAIN more
              /\ RingOf(s, fork) \in DOMAIN memory => steps = memory[RingOf(s, fork)]
<1> DEFINE one == RingOf(s, <<>>)
           two == RingOf(s, fork)
           first == Knowing(memory, one, plain)
           more == Knowing(first, two, steps)
<1>1. /\ one[1] = "ring" /\ one[2] = s /\ one[3] = <<>>
      /\ two[1] = "ring" /\ two[2] = s /\ two[3] = fork
  BY DEF RingOf
<1>2. Askable(memory, one)
  BY <1>1 DEF Askable
<1>3. WellKnown(first) /\ Grown(memory, first) /\ one \in DOMAIN first
  BY <1>2, Learns
<1>4. Askable(first, two)
  BY <1>1, <1>3 DEF Askable
<1> HIDE DEF first
<1>5. WellKnown(more) /\ Grown(first, more)
  BY <1>3, <1>4, Learns DEF first
<1>6. steps \in Steps
  <2>1. steps \in Comes(first, two)
    BY DEF first
  <2> QED
    BY <1>1, <1>3, <1>4, <2>1, ComesAsItMay
<1>7. two \in DOMAIN memory => steps = memory[two]
  <2>1. steps \in Comes(first, two)
    BY DEF first
  <2>2. two \in DOMAIN first => steps = first[two]
    BY <2>1 DEF Comes
  <2> QED
    BY <1>3, <2>2 DEF Grown
<1>8. one \in DOMAIN more
  BY <1>3, <1>5 DEF Grown
<1>9. Grown(memory, more)
  BY <1>3, <1>5, GrowsOn
<1> QED
  BY <1>5, <1>6, <1>7, <1>8, <1>9 DEF first

LEMMA LoadFacts ==
    ASSUME Kept, NEW path \in Path, NEW loaded \in Load(path)
    PROVE  /\ WellKnown(loaded.known) /\ Grown(known, loaded.known)
           /\ loaded.wrong = {} =>
                 /\ loaded.trace.seed \in Number /\ loaded.trace.steps \in Steps
                 /\ loaded.trace.fork = <<>> \/ Len(loaded.trace.fork) = 1
                 /\ RingOf(loaded.trace.seed, <<>>) \in DOMAIN loaded.known
           /\ (/\ Intact(path) /\ meant[path].form = "trace" /\ meant[path].build = build
              => loaded.wrong = {})
<1> DEFINE page == ReadTrace(files[path])
           traced == page.value
<1>0. WellKnown(known) /\ files[path] \in Texts
  BY DEF Kept
<1>1. CASE ~ IsRead(page)
  <2>1. loaded = [trace |-> <<>>, wrong |-> {Complaint(page)}, known |-> known]
    BY <1>1 DEF Load
  <2>2. loaded.wrong # {} /\ loaded.known = known
    BY <2>1
  <2>3. ~ (Intact(path) /\ meant[path].form = "trace")
    BY <1>1, IntactIsRead, ReadOrWrong
  <2> QED
    BY <1>0, <2>2, <2>3 DEF Grown
<1>2. CASE IsRead(page)
  <2>0. PICK plain \in Comes(known, RingOf(traced.seed, <<>>)) :
          \E steps \in Comes(Knowing(known, RingOf(traced.seed, <<>>), plain), Reran(traced)) :
             loaded = [trace |-> traced,
                       wrong |-> FirstDivergence(traced.steps, steps, FirstLine(traced)),
                       known |-> Knowing(Knowing(known, RingOf(traced.seed, <<>>), plain),
                                         Reran(traced), steps)]
    BY <1>2 DEF Load
  <2>1. PICK steps \in Comes(Knowing(known, RingOf(traced.seed, <<>>), plain), Reran(traced)) :
          loaded = [trace |-> traced,
                    wrong |-> FirstDivergence(traced.steps, steps, FirstLine(traced)),
                    known |-> Knowing(Knowing(known, RingOf(traced.seed, <<>>), plain),
                                      Reran(traced), steps)]
    BY <2>0
  <2> HIDE DEF page
  <2>2. /\ loaded.trace = traced
        /\ loaded.wrong = FirstDivergence(traced.steps, steps, FirstLine(traced))
        /\ loaded.known = Knowing(Knowing(known, RingOf(traced.seed, <<>>), plain),
                                  Reran(traced), steps)
    BY <2>1
  <2>3. /\ WellKnown(loaded.known) /\ Grown(known, loaded.known) /\ steps \in Steps
        /\ RingOf(traced.seed, <<>>) \in DOMAIN loaded.known
        /\ Reran(traced) \in DOMAIN known => steps = known[Reran(traced)]
    BY <1>0, <2>2, RunsOfTraces DEF Reran
  <2>4. /\ traced.seed \in Number
        /\ traced.fork = <<>> \/ Len(traced.fork) = 1
        /\ \E n \in Nat : \E e : traced.steps = [i \in 1 .. n |-> e[i]]
    BY <1>0, <1>2, TraceRead DEF Texts, page
  <2>5. ASSUME loaded.wrong = {} PROVE traced.steps = steps
    <3>1. steps \in Seq(TraceStep)
      BY <2>3 DEF Steps
    <3>2. PICK n \in Nat : \E e : traced.steps = [i \in 1 .. n |-> e[i]]
      BY <2>4
    <3>3. PICK e : traced.steps = [i \in 1 .. n |-> e[i]]
      BY <3>2
    <3> DEFINE first == FirstLine(traced)
    <3> HIDE DEF first, traced
    <3>4. FirstDivergence(traced.steps, steps, first) = {}
      BY <2>2, <2>5 DEF first
    <3> QED
      BY <3>1, <3>3, <3>4, NothingParted
  <2>6. ASSUME Intact(path), meant[path].form = "trace", meant[path].build = build
        PROVE  loaded.wrong = {}
    <3>1. page = Read(meant[path].value) /\ Told(known, meant[path])
      BY <2>6, IntactIsRead DEF page
    <3>2. traced = meant[path].value
      BY <3>1, ReadOrWrong
    <3>3. Reran(traced) \in DOMAIN known /\ known[Reran(traced)] = traced.steps
      BY <2>6, <3>1, <3>2 DEF Told, Reran
    <3> QED
      BY <2>2, <2>3, <3>3, NoDivergence
  <2> QED
    BY <2>2, <2>3, <2>4, <2>5, <2>6
<1> QED
  BY <1>1, <1>2

\* What stands in the way of a page is bad news.
LEMMA LoadComplains ==
    ASSUME NEW path, NEW loaded \in Load(path), NEW c \in loaded.wrong
    PROVE  c.is = "bad"
<1>1. \A page : Complaint(page).is = "bad"
  BY GoodAndBad DEF Complaint
<1>2. \A recorded, replayed, first : \A d \in FirstDivergence(recorded, replayed, first) :
         d.is = "bad"
  BY GoodAndBad DEF FirstDivergence, Diverged, DivergedLength
<1>3. \/ \E page : loaded.wrong = {Complaint(page)}
      \/ \E recorded, replayed, first : loaded.wrong = FirstDivergence(recorded, replayed, first)
  BY DEF Load
<1> QED
  BY <1>1, <1>2, <1>3

LEMMA OneComplaint ==
    /\ \A news : Answer(<<{}>>, news) = Good(news) /\ Answer(<<{}, {}>>, news) = Good(news)
    /\ \A c, news : Answer(<<{c}>>, news) = c
<1>1. ASSUME NEW news
      PROVE  Answer(<<{}>>, news) = Good(news) /\ Answer(<<{}, {}>>, news) = Good(news)
  <2>1. \A i \in DOMAIN <<{}>> : <<{}>>[i] = {}
    OBVIOUS
  <2>2. \A i \in DOMAIN <<{}, {}>> : <<{}, {}>>[i] = {}
    OBVIOUS
  <2> QED
    BY <2>1, <2>2 DEF Answer
<1>2. ASSUME NEW c, NEW news PROVE Answer(<<{c}>>, news) = c
  <2> DEFINE complaints == <<{c}>>
             due == {i \in DOMAIN complaints : complaints[i] # {}}
  <2>1. DOMAIN complaints = {1} /\ complaints[1] = {c}
    OBVIOUS
  <2> HIDE DEF complaints
  <2>2. due = {1} /\ ~ \A i \in DOMAIN complaints : complaints[i] = {}
    BY <2>1
  <2>3. Min({1}) = 1
    BY SmallestIs
  <2>4. Answer(complaints, news) = CHOOSE d \in complaints[Min(due)] : TRUE
    BY <2>2 DEF Answer
  <2> HIDE DEF due
  <2>5. Answer(complaints, news) = CHOOSE d \in {c} : TRUE
    BY <2>1, <2>2, <2>3, <2>4
  <2> QED
    BY <2>5 DEF complaints
<1> QED
  BY <1>1, <1>2

--------------------------------------------------------------------------------
(* Command by command. *)

LEMMA AloneBuilds == ASSUME Alone PROVE build' = build
BY DEF Alone, Typed

LEMMA NothingLearnt ==
    ASSUME Kept, known' = known
    PROVE  WellKnown(known') /\ Grown(known, known')
BY DEF Kept, Grown

LEMMA Askables ==
    /\ \A memory, s : Askable(memory, ExchangeOf(s)) /\ ExchangeOf(s)[1] = "exchange"
    /\ \A memory, s : Askable(memory, RingOf(s, <<>>))
    /\ \A memory, s, fork :
          /\ RingOf(s, fork)[1] = "ring" /\ RingOf(s, fork)[3] = fork
          /\ RingOf(s, <<>>) \in DOMAIN memory => Askable(memory, RingOf(s, fork))
    /\ \A memory, schedule : \A system \in Systems : \A s \in Number :
          /\ Askable(memory, SystemOf(system, s, schedule))
          /\ SystemOf(system, s, schedule)[1] = system
BY DEF Askable, ExchangeOf, RingOf, SystemOf

LEMMA ReplayKeeps ==
    ASSUME Kept, NEW path \in Path, Replay(path)
    PROVE  Kept' /\ ReadsBackWhatWasWritten'
<1> DEFINE page == ReadRecording(files[path])
           run == ExchangeOf(page.value.seed)
<1>1. Alone /\ build' = build /\ WellKnown(known)
  BY AloneBuilds DEF Replay, Kept
<1>2. CASE ~ IsRead(page)
  <2>1. Tells("replay", path, Complaint(page)) /\ known' = known
    BY <1>2 DEF Replay
  <2>2. Fulfilled("replay", path, Complaint(page))
    BY <1>2, IntactIsRead, ReadOrWrong DEF Fulfilled, Fits, TraceReaders
  <2> QED
    BY <1>1, <2>1, <2>2, NothingLearnt, TellsKeeps, TellsReads
<1>3. CASE IsRead(page)
  <2>1. PICK entries \in Comes(known, run) :
          LET parted == FirstDivergence(page.value.entries, entries, 2) IN
          /\ known' = Knowing(known, run, entries)
          /\ \E result \in IF parted = {} THEN {Good(<<>>)} ELSE parted :
                Tells("replay", path, result)
    BY <1>3 DEF Replay
  <2> DEFINE parted == FirstDivergence(page.value.entries, entries, 2)
  <2>2. PICK result \in IF parted = {} THEN {Good(<<>>)} ELSE parted :
          Tells("replay", path, result)
    BY <2>1
  <2>3. WellKnown(known') /\ Grown(known, known')
    BY <1>1, <2>1, Askables, Learns
  <2>4. ASSUME Fits("replay", meant[path]), meant[path].build = build, Intact(path)
        PROVE  result.is = "good"
    <3>1. meant[path].form = "history"
      BY <2>4 DEF Fits, TraceReaders
    <3>2. page = Read(meant[path].value) /\ Told(known, meant[path])
      BY <2>4, <3>1, IntactIsRead
    <3>3. run \in DOMAIN known /\ known[run] = page.value.entries
      BY <3>1, <3>2, ReadOrWrong DEF Told
    <3>4. entries = page.value.entries
      BY <2>1, <3>3 DEF Comes
    <3>5. parted = {}
      BY <3>4, NoDivergence
    <3> QED
      BY <2>2, <3>5, GoodAndBad
  <2> QED
    BY <1>1, <2>2, <2>3, <2>4, TellsKeeps, TellsReads DEF Fulfilled
<1> QED
  BY <1>2, <1>3

LEMMA TypedAreNumbers == TypedNumbers \subseteq Number
BY DEF TypedNumbers, Digits

\* A step that a trace has is a state that its run went through.
LEMMA NoneMissing ==
    ASSUME NEW traced, traced.steps \in Steps, NEW n \in Number
    PROVE  /\ Unreached(traced, n) = {} \/ Unreached(traced, n) = {Bad("Unreached", 0)}
           /\ Unreached(traced, n) = {} =>
                 /\ Missing(traced, n) = {} /\ n + 1 \in DOMAIN traced.steps
                 /\ traced.steps[n + 1] \in TraceStep
<1>1. Unreached(traced, n) = {} \/ Unreached(traced, n) = {Bad("Unreached", 0)}
  BY DEF Unreached
<1>2. ASSUME Unreached(traced, n) = {}
      PROVE  /\ Missing(traced, n) = {} /\ n + 1 \in DOMAIN traced.steps
             /\ traced.steps[n + 1] \in TraceStep
  <2>1. n < Len(traced.steps)
    BY <1>2 DEF Unreached
  <2>2. traced.steps \in Seq(TraceStep) /\ Len(traced.steps) \in Nat /\ n \in Nat
    BY LenProperties DEF Steps, Number
  <2>3. n + 1 \in DOMAIN traced.steps
    BY <2>1, <2>2
  <2> QED
    BY <2>2, <2>3 DEF Missing
<1> QED
  BY <1>1, <1>2

LEMMA BadNews == \A why, line : Bad(why, line).why = why
BY DEF Bad

LEMMA InspectKeeps ==
    ASSUME Kept, NEW path \in Path, NEW n \in Number, Inspect(path, n)
    PROVE  Kept' /\ ReadsBackWhatWasWritten'
<1>1. Alone /\ build' = build
  BY AloneBuilds DEF Inspect
<1>2. PICK loaded \in Load(path) :
        /\ known' = loaded.known
        /\ Tells("inspect", path,
                 IF loaded.wrong # {} THEN Answer(<<loaded.wrong>>, <<>>)
                 ELSE IF Unreached(loaded.trace, n) # {}
                 THEN Answer(<<Unreached(loaded.trace, n)>>, <<>>)
                 ELSE Answer(<<Missing(loaded.trace, n)>>,
                             <<<<"step", Written(n)>> \o WriteStep(loaded.trace.steps[n + 1])>>))
  BY DEF Inspect
<1> DEFINE news == <<<<"step", Written(n)>> \o WriteStep(loaded.trace.steps[n + 1])>>
           result == IF loaded.wrong # {} THEN Answer(<<loaded.wrong>>, <<>>)
                     ELSE IF Unreached(loaded.trace, n) # {}
                     THEN Answer(<<Unreached(loaded.trace, n)>>, <<>>)
                     ELSE Answer(<<Missing(loaded.trace, n)>>, news)
<1>3. Tells("inspect", path, result)
  BY <1>2
<1>4. WellKnown(known') /\ Grown(known, known')
  BY <1>2, LoadFacts
<1>5. ASSUME Fits("inspect", meant[path]), meant[path].build = build, Intact(path)
      PROVE  result.is = "good" \/ result.why \in Excuses("inspect")
  <2>1. loaded.wrong = {} /\ loaded.trace.steps \in Steps
    BY <1>5, LoadFacts DEF Fits, TraceReaders
  <2>2. CASE Unreached(loaded.trace, n) # {}
    <3>1. Unreached(loaded.trace, n) = {Bad("Unreached", 0)}
      BY <2>1, <2>2, NoneMissing
    <3>2. result = Bad("Unreached", 0)
      BY <2>1, <2>2, <3>1, OneComplaint
    <3> QED
      BY <3>2, BadNews DEF Excuses, TraceReaders
  <2>3. CASE Unreached(loaded.trace, n) = {}
    <3>1. Missing(loaded.trace, n) = {}
      BY <2>1, <2>3, NoneMissing
    <3>2. result = Answer(<<{}>>, news)
      BY <2>1, <2>3, <3>1
    <3> QED
      BY <3>2, OneComplaint, GoodAndBad
  <2> QED
    BY <2>2, <2>3
<1> HIDE DEF result
<1>6. Fulfilled("inspect", path, result)
  BY <1>5 DEF Fulfilled
<1> QED
  BY <1>1, <1>3, <1>4, <1>6, TellsKeeps, TellsReads

LEMMA DiffKeeps ==
    ASSUME Kept, NEW path \in Path, NEW n \in Number, NEW m \in Number, Diff(path, n, m)
    PROVE  Kept' /\ ReadsBackWhatWasWritten'
<1>1. Alone /\ build' = build
  BY AloneBuilds DEF Diff
<1>2. PICK loaded \in Load(path) :
        LET steps == loaded.trace.steps
            outside == Unreached(loaded.trace, n) \cup Unreached(loaded.trace, m)
        IN  /\ known' = loaded.known
            /\ Tells("diff", path,
                     IF loaded.wrong # {} THEN Answer(<<loaded.wrong>>, <<>>)
                     ELSE IF outside # {} THEN Answer(<<outside>>, <<>>)
                     ELSE Answer(<<Missing(loaded.trace, n), Missing(loaded.trace, m)>>,
                                 IF steps[n + 1].state = steps[m + 1].state
                                 THEN <<<<"nothing", "changed">>>>
                                 ELSE <<<<WriteHash(steps[n + 1].state),
                                          WriteHash(steps[m + 1].state)>>>>))
  BY DEF Diff
<1> DEFINE steps == loaded.trace.steps
           outside == Unreached(loaded.trace, n) \cup Unreached(loaded.trace, m)
           news == IF steps[n + 1].state = steps[m + 1].state
                   THEN <<<<"nothing", "changed">>>>
                   ELSE <<<<WriteHash(steps[n + 1].state), WriteHash(steps[m + 1].state)>>>>
           result == IF loaded.wrong # {} THEN Answer(<<loaded.wrong>>, <<>>)
                     ELSE IF outside # {} THEN Answer(<<outside>>, <<>>)
                     ELSE Answer(<<Missing(loaded.trace, n), Missing(loaded.trace, m)>>, news)
<1>3. Tells("diff", path, result)
  BY <1>2
<1>4. WellKnown(known') /\ Grown(known, known')
  BY <1>2, LoadFacts
<1>5. ASSUME Fits("diff", meant[path]), meant[path].build = build, Intact(path)
      PROVE  result.is = "good" \/ result.why \in Excuses("diff")
  <2>1. loaded.wrong = {} /\ loaded.trace.steps \in Steps
    BY <1>5, LoadFacts DEF Fits, TraceReaders
  <2> HIDE DEF news
  <2>2. CASE outside # {}
    <3>1. outside = {Bad("Unreached", 0)}
      BY <2>1, <2>2, NoneMissing
    <3> HIDE DEF outside
    <3>2. result = Bad("Unreached", 0)
      BY <2>1, <2>2, <3>1, OneComplaint
    <3> QED
      BY <3>2, BadNews DEF Excuses, TraceReaders
  <2>3. CASE outside = {}
    <3>1. Missing(loaded.trace, n) = {} /\ Missing(loaded.trace, m) = {}
      BY <2>1, <2>3, NoneMissing
    <3>2. result = Answer(<<{}, {}>>, news)
      BY <2>1, <2>3, <3>1
    <3> QED
      BY <3>2, OneComplaint, GoodAndBad
  <2> QED
    BY <2>2, <2>3
<1> HIDE DEF result
<1>6. Fulfilled("diff", path, result)
  BY <1>5 DEF Fulfilled
<1> QED
  BY <1>1, <1>3, <1>4, <1>6, TellsKeeps, TellsReads

LEMMA ForkKeeps ==
    ASSUME Kept, NEW path \in Path, NEW n \in Number, NEW s \in Number, NEW to \in Pages,
           Fork(path, n, s, to)
    PROVE  Kept' /\ ReadsBackWhatWasWritten'
<1>1. Alone /\ build' = build /\ to # path
  BY AloneBuilds DEF Fork
<1>2. PICK loaded \in Load(path) :
        IF loaded.wrong # {} \/ Len(loaded.trace.fork) > 0 \/ n >= Len(loaded.trace.steps)
        THEN /\ known' = loaded.known
             /\ Writes("fork", path,
                       IF loaded.wrong # {} THEN Answer(<<loaded.wrong>>, <<>>)
                       ELSE IF Len(loaded.trace.fork) > 0 THEN Bad("AlreadyForked", 0)
                       ELSE Bad("Unreached", 0), "trace", <<>>, to)
        ELSE LET run == RingOf(loaded.trace.seed, <<ForkOf(loaded.trace, n, s)>>) IN
             \E steps \in Comes(loaded.known, run) :
                /\ known' = Knowing(loaded.known, run, steps)
                /\ Writes("fork", path, Good(<<>>), "trace",
                          [seed |-> loaded.trace.seed, fork |-> run[3], steps |-> steps], to)
  BY DEF Fork
<1>3. WellKnown(loaded.known) /\ Grown(known, loaded.known)
  BY LoadFacts
<1> DEFINE traced == loaded.trace
           forked == Len(traced.fork) > 0
<1>4. CASE loaded.wrong # {} \/ forked \/ n >= Len(traced.steps)
  <2> DEFINE result == IF loaded.wrong # {} THEN Answer(<<loaded.wrong>>, <<>>)
                       ELSE IF forked THEN Bad("AlreadyForked", 0) ELSE Bad("Unreached", 0)
  <2>1. known' = loaded.known /\ Writes("fork", path, result, "trace", <<>>, to)
    BY <1>2, <1>4
  <2>2. ASSUME Fits("fork", meant[path]), meant[path].build = build, Intact(path)
        PROVE  result.is = "good" \/ result.why \in Excuses("fork")
    <3>1. loaded.wrong = {}
      BY <2>2, LoadFacts DEF Fits, TraceReaders
    <3>2. result = Bad("AlreadyForked", 0) \/ result = Bad("Unreached", 0)
      BY <3>1
    <3> QED
      BY <3>2, BadNews DEF Excuses, TraceReaders
  <2>3. result.is = "good" => FALSE
    <3>1. CASE loaded.wrong # {}
      <4> DEFINE complaints == <<loaded.wrong>>
                 due == {i \in DOMAIN complaints : complaints[i] # {}}
      <4>1. DOMAIN complaints = {1} /\ complaints[1] = loaded.wrong
        OBVIOUS
      <4> HIDE DEF complaints
      <4>2. due = {1} /\ ~ \A i \in DOMAIN complaints : complaints[i] = {}
        BY <3>1, <4>1
      <4>3. Min({1}) = 1
        BY SmallestIs
      <4>4. Answer(complaints, <<>>) = CHOOSE d \in complaints[Min(due)] : TRUE
        BY <4>2 DEF Answer
      <4>5. Answer(complaints, <<>>) \in loaded.wrong
        <5> HIDE DEF due
        <5> QED
          BY <3>1, <4>1, <4>2, <4>3, <4>4
      <4>6. \A c \in loaded.wrong : c.is = "bad"
        BY LoadComplains
      <4> QED
        BY <3>1, <4>5, <4>6 DEF complaints
    <3>2. CASE loaded.wrong = {}
      BY <3>2, GoodAndBad
    <3> QED
      BY <3>1, <3>2
  <2> HIDE DEF result
  <2>4. Fulfilled("fork", path, result)
    BY <2>2 DEF Fulfilled
  <2> QED
    BY <1>1, <1>3, <2>1, <2>3, <2>4, WritesKeeps, WritesReads
<1>5. CASE ~ (loaded.wrong # {} \/ forked \/ n >= Len(traced.steps))
  <2> DEFINE fork == ForkOf(traced, n, s)
             run == RingOf(traced.seed, <<fork>>)
  <2>1. PICK steps \in Comes(loaded.known, run) :
          /\ known' = Knowing(loaded.known, run, steps)
          /\ Writes("fork", path, Good(<<>>), "trace",
                    [seed |-> traced.seed, fork |-> run[3], steps |-> steps], to)
    BY <1>2, <1>5
  <2> DEFINE value == [seed |-> traced.seed, fork |-> <<fork>>, steps |-> steps]
  <2>2. /\ traced.seed \in Number /\ traced.steps \in Steps
        /\ RingOf(traced.seed, <<>>) \in DOMAIN loaded.known
    BY <1>5, LoadFacts
  <2>3. fork \in [at : Instant, seed : Number]
    <3>1. traced.steps \in Seq(TraceStep) /\ Len(traced.steps) \in Nat /\ n \in Nat
      BY <2>2, LenProperties DEF Steps, Number
    <3>2. n + 1 \in 1 .. Len(traced.steps)
      BY <1>5, <3>1
    <3>3. traced.steps[n + 1] \in TraceStep
      BY <3>1, <3>2, ElementOfSeq
    <3> QED
      BY <3>3 DEF ForkOf, TraceStep
  <2>4. run[1] = "ring" /\ run[3] = <<fork>> /\ Askable(loaded.known, run)
    BY <2>2, Askables
  <2> HIDE DEF fork, run, traced
  <2>5. WellKnown(known') /\ Grown(loaded.known, known') /\ run \in DOMAIN known' /\ known'[run] = steps
    BY <1>3, <2>1, <2>4, Learns
  <2>6. Grown(known, known')
    BY <1>3, <2>5, GrowsOn
  <2>7. steps \in Steps
    BY <1>3, <2>1, <2>4, ComesAsItMay
  <2>8. value \in Trace
    <3>1. <<fork>> \in Seq([at : Instant, seed : Number]) /\ Len(<<fork>>) < 2
      BY <2>3
    <3> QED
      BY <2>2, <2>7, <3>1 DEF Trace
  <2> DEFINE page == Meant("trace", value)
  <2>9. page.form = "trace" /\ page.value = value
    BY DEF Meant
  <2>10. Told(known', page)
    <3>1. RingOf(value.seed, value.fork) = run /\ value.steps = steps
      BY DEF run
    <3> HIDE DEF value, page
    <3> QED
      BY <2>5, <2>9, <3>1 DEF Told
  <2>11. OfItsForm(page)
    BY <2>8, <2>9 DEF OfItsForm
  <2>12. Writes("fork", path, Good(<<>>), "trace", value, to)
    BY <2>1, <2>4
  <2> HIDE DEF value
  <2>13. Fulfilled("fork", path, Good(<<>>))
    BY GoodAndBad DEF Fulfilled
  <2> QED
    BY <1>1, <2>5, <2>6, <2>10, <2>11, <2>12, <2>13, WritesKeeps, WritesReads
<1> QED
  BY <1>4, <1>5

LEMMA RunSeedKeeps ==
    ASSUME Kept, NEW s \in Number, NEW to \in Pages, RunSeed(s, to)
    PROVE  Kept' /\ ReadsBackWhatWasWritten'
<1>1. Alone /\ build' = build /\ WellKnown(known)
  BY AloneBuilds DEF RunSeed, Kept
<1> DEFINE run == ExchangeOf(s)
<1>2. PICK entries \in Comes(known, run) :
        /\ known' = Knowing(known, run, entries)
        /\ Writes("run", to, Good(<<>>), "history", [seed |-> s, entries |-> entries], to)
  BY DEF RunSeed
<1> DEFINE value == [seed |-> s, entries |-> entries]
           page == Meant("history", value)
<1>3. /\ WellKnown(known') /\ Grown(known, known')
      /\ run \in DOMAIN known' /\ known'[run] = entries /\ entries \in Seq(Entry)
  BY <1>1, <1>2, Askables, Learns, ComesAsItMay
<1>4. /\ page.form = "history" /\ page.value = value
      /\ value.seed = s /\ value.entries = entries /\ value \in Recording
  BY <1>3 DEF Meant, Recording
<1>5. Writes("run", to, Good(<<>>), "history", value, to)
  BY <1>2
<1> HIDE DEF value
<1>6. OfItsForm(page) /\ Told(known', page)
  <2> HIDE DEF page
  <2> QED
    BY <1>3, <1>4 DEF OfItsForm, Told
<1>7. said'.command = "run"
  BY <1>5 DEF Writes
<1>8. ReadsBackWhatWasWritten'
  BY <1>7, OthersRead DEF Readers, TraceReaders
<1> QED
  BY <1>1, <1>3, <1>5, <1>6, <1>8, WritesKeeps

LEMMA TraceSeedKeeps ==
    ASSUME Kept, NEW s \in Number, NEW to \in Pages, TraceSeed(s, to)
    PROVE  Kept' /\ ReadsBackWhatWasWritten'
<1>1. Alone /\ build' = build /\ WellKnown(known)
  BY AloneBuilds DEF TraceSeed, Kept
<1> DEFINE run == RingOf(s, <<>>)
<1>2. PICK steps \in Comes(known, run) :
        /\ known' = Knowing(known, run, steps)
        /\ Writes("trace", to, Good(<<>>), "trace",
                  [seed |-> s, fork |-> <<>>, steps |-> steps], to)
  BY DEF TraceSeed
<1> DEFINE value == [seed |-> s, fork |-> <<>>, steps |-> steps]
           page == Meant("trace", value)
<1>3. /\ WellKnown(known') /\ Grown(known, known')
      /\ run \in DOMAIN known' /\ known'[run] = steps /\ steps \in Steps
  BY <1>1, <1>2, Askables, Learns, ComesAsItMay
<1>4. /\ page.form = "trace" /\ page.value = value
      /\ value.seed = s /\ value.fork = <<>> /\ value.steps = steps /\ value \in Trace
  BY <1>3 DEF Meant, Trace
<1>5. Writes("trace", to, Good(<<>>), "trace", value, to)
  BY <1>2
<1> HIDE DEF value
<1>6. OfItsForm(page) /\ Told(known', page)
  <2> HIDE DEF page
  <2> QED
    BY <1>3, <1>4 DEF OfItsForm, Told
<1>7. said'.command = "trace"
  BY <1>5 DEF Writes
<1>8. ReadsBackWhatWasWritten'
  BY <1>7, OthersRead DEF Readers, TraceReaders
<1> QED
  BY <1>1, <1>3, <1>5, <1>6, <1>8, WritesKeeps

\* What a reduction is asked of, what it comes down to, and what it leaves.
LEMMA WritesOrReads ==
    ASSUME Kept, UNCHANGED build, NEW command \in Reducers, NEW path \in Path, NEW result, NEW value,
           NEW to \in Pages, command = "shrink" => to # path,
           Writes(command, path, result, "repro", value, to),
           result.is = "good" \/ result.why \in {"Run", "NothingToReduce"}
    PROVE  ReadsBackWhatWasWritten'
<1>1. CASE command = "shrink"
  <2>1. Fulfilled(command, path, result)
    BY <1>1 DEF Fulfilled, Excuses, TraceReaders
  <2> QED
    BY <1>1, <2>1, WritesReads
<1>2. CASE command = "corner"
  <2>1. said'.command = "corner"
    BY <1>2 DEF Writes
  <2> QED
    BY <2>1, OthersRead DEF Readers, TraceReaders
<1> QED
  BY <1>1, <1>2 DEF Reducers

LEMMA CrashesReads ==
    ASSUME NEW command, NEW path, Crashes(command, path)
    PROVE  ReadsBackWhatWasWritten'
<1>1. said'.exit = "panic"
  BY DEF Crashes
<1> QED
  BY <1>1, OthersRead

LEMMA ReducedKeeps ==
    ASSUME Kept, UNCHANGED build, NEW command \in Reducers, NEW path \in Path,
           NEW system \in Systems, NEW s \in Number, NEW schedule \in Seq(WritableFault),
           NEW to \in Pages, command = "shrink" => to # path,
           Reduced(command, path, system, s, schedule, to)
    PROVE  Kept' /\ ReadsBackWhatWasWritten'
<1> DEFINE whole == SystemOf(system, s, schedule)
<1>1. PICK first \in Comes(known, whole) :
        LET knowing == Knowing(known, whole, first) IN
        \/ /\ first = Crash /\ known' = knowing /\ Crashes(command, path)
        \/ /\ first \in {Unrun, Pass} /\ known' = knowing
           /\ Writes(command, path, Bad(IF first = Unrun THEN "Run" ELSE "NothingToReduce", 0),
                     "repro", <<>>, to)
        \/ /\ first \notin {Crash, Unrun, Pass}
           /\ \E less \in {l \in Smaller \cup {schedule} : NoMore(l, schedule)} :
              \E last \in Comes(knowing, SystemOf(system, s, less)) :
                 /\ known' = Knowing(knowing, SystemOf(system, s, less), last)
                 /\ \/ last = Crash /\ Crashes(command, path)
                    \/ last = Unrun /\ Writes(command, path, Bad("Run", 0), "repro", <<>>, to)
                    \/ /\ last \notin {Crash, Unrun} /\ Reproduces(last, first)
                       /\ LET repro == [system |-> system, seed |-> s, faults |-> less,
                                        expected |-> Expected(first, last)]
                          IN Writes(command, path, Good(<<repro>>), "repro", repro, to)
  BY DEF Reduced
<1> DEFINE knowing == Knowing(known, whole, first)
<1>2. WellKnown(knowing) /\ Grown(known, knowing)
  BY Askables, Learns DEF Kept
<1> HIDE DEF knowing, whole
<1>3. CASE first = Crash /\ known' = knowing /\ Crashes(command, path)
  BY <1>2, <1>3, CrashesKeeps, CrashesReads
<1>4. ASSUME NEW why \in {"Run", "NothingToReduce"}, WellKnown(known'), Grown(known, known'),
             Writes(command, path, Bad(why, 0), "repro", <<>>, to)
      PROVE  Kept' /\ ReadsBackWhatWasWritten'
  <2>1. Bad(why, 0).is = "bad" /\ Bad(why, 0).why = why
    BY DEF Bad
  <2> DEFINE result == Bad(why, 0)
  <2>2. Writes(command, path, result, "repro", <<>>, to)
    BY <1>4
  <2>3. ~ (result.is = "good") /\ result.why \in {"Run", "NothingToReduce"}
    BY <2>1
  <2> HIDE DEF result
  <2> QED
    BY <1>4, <2>2, <2>3, WritesKeeps, WritesOrReads
<1>5. CASE /\ first \in {Unrun, Pass} /\ known' = knowing
           /\ Writes(command, path, Bad(IF first = Unrun THEN "Run" ELSE "NothingToReduce", 0),
                     "repro", <<>>, to)
  <2>1. CASE first = Unrun
    BY <1>2, <1>4, <1>5, <2>1
  <2>2. CASE first # Unrun
    BY <1>2, <1>4, <1>5, <2>2
  <2> QED
    BY <2>1, <2>2
<1>6. ASSUME NEW less \in Smaller \cup {schedule},
             NEW last \in Comes(knowing, SystemOf(system, s, less)),
             known' = Knowing(knowing, SystemOf(system, s, less), last),
             \/ last = Crash /\ Crashes(command, path)
             \/ last = Unrun /\ Writes(command, path, Bad("Run", 0), "repro", <<>>, to)
             \/ /\ last \notin {Crash, Unrun} /\ Reproduces(last, first)
                /\ LET repro == [system |-> system, seed |-> s, faults |-> less,
                                 expected |-> Expected(first, last)]
                   IN Writes(command, path, Good(<<repro>>), "repro", repro, to)
      PROVE  Kept' /\ ReadsBackWhatWasWritten'
  <2> DEFINE run == SystemOf(system, s, less)
  <2>1. less \in Seq(WritableFault)
    BY WrittenAssumption
  <2>2. Askable(knowing, run) /\ run[1] = system
    BY Askables
  <2>3. /\ WellKnown(known') /\ Grown(knowing, known')
        /\ run \in DOMAIN known' /\ known'[run] = last /\ last \in Ending
    <3> HIDE DEF run
    <3>1. last \in Comes(knowing, run) /\ known' = Knowing(knowing, run, last)
      BY <1>6 DEF run
    <3> QED
      BY <1>2, <2>2, <3>1, Learns, ComesAsItMay
  <2>4. Grown(known, known')
    BY <1>2, <2>3, GrowsOn
  <2>5. CASE last = Crash /\ Crashes(command, path)
    BY <2>3, <2>4, <2>5, CrashesKeeps, CrashesReads
  <2>6. CASE last = Unrun /\ Writes(command, path, Bad("Run", 0), "repro", <<>>, to)
    BY <1>4, <2>3, <2>4, <2>6
  <2> DEFINE repro == [system |-> system, seed |-> s, faults |-> less, expected |-> last]
             page == Meant("repro", repro)
  <2>7. CASE /\ last \notin {Crash, Unrun} /\ Reproduces(last, first)
             /\ Writes(command, path, Good(<<repro>>), "repro", repro, to)
    <3>1. last \in Failure
      BY <2>3, <2>7 DEF Ending, Reproduces
    <3>2. /\ repro \in Repro
          /\ SystemOf(repro.system, repro.seed, repro.faults) = run /\ repro.expected = last
      BY <2>1, <3>1 DEF Repro
    <3> HIDE DEF repro, run
    <3>3. page.form = "repro" /\ page.value = repro
      BY DEF Meant
    <3>4. OfItsForm(page)
      BY <3>2, <3>3 DEF OfItsForm
    <3>5. Told(known', page)
      <4> HIDE DEF page
      <4> QED
        BY <2>3, <3>2, <3>3 DEF Told
    <3>6. Good(<<repro>>).is = "good"
      BY GoodAndBad
    <3>7. Kept'
      BY <2>3, <2>4, <2>7, <3>4, <3>5, WritesKeeps
    <3>8. ReadsBackWhatWasWritten'
      BY <2>7, <3>6, WritesOrReads
    <3> QED
      BY <3>7, <3>8
  <2> HIDE DEF page
  <2> QED
    BY <1>6, <2>5, <2>6, <2>7 DEF Expected
<1> QED
  BY <1>1, <1>3, <1>5, <1>6 DEF knowing

LEMMA ShrinkKeeps ==
    ASSUME Kept, NEW s \in Number, NEW path \in Path, NEW to \in Pages, ShrinkFaults(s, path, to)
    PROVE  Kept' /\ ReadsBackWhatWasWritten'
<1> DEFINE page == ReadSchedule(files[path])
<1>1. Alone /\ build' = build /\ to # path
  BY AloneBuilds DEF ShrinkFaults
<1>2. CASE IsRead(page)
  <2>1. Reduced("shrink", path, "quorum", s, page.value, to)
    BY <1>2 DEF ShrinkFaults
  <2>2. page.value \in Seq(WritableFault)
    <3>1. files[path] \in Texts
      BY DEF Kept
    <3> QED
      BY <1>2, <3>1, ScheduleRead DEF Texts
  <2>3. "quorum" \in Systems /\ "shrink" \in Reducers
    BY DEF Systems, Reducers
  <2> HIDE DEF page
  <2> QED
    BY <1>1, <2>1, <2>2, <2>3, ReducedKeeps
<1>3. CASE ~ IsRead(page)
  <2> DEFINE result == Complaint(page)
  <2>1. Writes("shrink", path, result, "repro", <<>>, to) /\ known' = known
    BY <1>3 DEF ShrinkFaults
  <2>2. Fulfilled("shrink", path, result)
    BY <1>3, IntactIsRead, ReadOrWrong DEF Fulfilled, Fits, TraceReaders
  <2>3. ~ (result.is = "good")
    BY GoodAndBad DEF Complaint
  <2> HIDE DEF result
  <2> QED
    BY <1>1, <2>1, <2>2, <2>3, NothingLearnt, WritesKeeps, WritesReads
<1> QED
  BY <1>2, <1>3

LEMMA CornerKeeps ==
    ASSUME Kept, NEW s \in Number, NEW to \in Pages, Corner(s, to)
    PROVE  Kept' /\ ReadsBackWhatWasWritten'
<1>1. Alone /\ build' = build /\ Reduced("corner", to, "reconciler", s, DrawnFor(s), to)
  BY AloneBuilds DEF Corner
<1>2. to \in Path /\ "corner" \in Reducers /\ "reconciler" \in Systems
  BY PagesArePaths DEF Reducers, Systems
<1>3. DrawnFor(s) \in Seq(WritableFault)
  BY WrittenAssumption
<1> QED
  BY <1>1, <1>2, <1>3, ReducedKeeps

--------------------------------------------------------------------------------
(* Verdicts. *)

LEMMA VerdictKeeps ==
    ASSUME Kept, UNCHANGED build, WellKnown(known'), Grown(known, known'),
           NEW command, NEW path, NEW outcome, NEW wanted \in BOOLEAN, NEW otherwise,
           Verdict(command, path, outcome, wanted, otherwise),
           outcome # Crash =>
              Fulfilled(command, path,
                        IF outcome = Unrun THEN Bad("Run", 0)
                        ELSE IF wanted THEN Good(<<>>) ELSE Bad(otherwise, 0))
    PROVE  Kept' /\ ReadsBackWhatWasWritten'
<1> DEFINE result == IF outcome = Unrun THEN Bad("Run", 0)
                     ELSE IF wanted THEN Good(<<>>) ELSE Bad(otherwise, 0)
<1>1. CASE outcome = Crash
  <2>1. Crashes(command, path)
    BY <1>1 DEF Verdict
  <2> QED
    BY <2>1, CrashesKeeps, CrashesReads
<1>2. CASE outcome # Crash
  <2>1. Tells(command, path, result)
    BY <1>2 DEF Verdict
  <2>2. Fulfilled(command, path, result)
    BY <1>2
  <2> HIDE DEF result
  <2> QED
    BY <2>1, <2>2, TellsKeeps, TellsReads
<1> QED
  BY <1>1, <1>2

LEMMA CheckKeeps ==
    ASSUME Kept, NEW s \in Number, NEW path \in Path, Check(s, path)
    PROVE  Kept' /\ ReadsBackWhatWasWritten'
<1> DEFINE page == ReadSchedule(files[path])
           run == SystemOf("quorum", s, page.value)
<1>1. Alone /\ build' = build /\ WellKnown(known)
  BY AloneBuilds DEF Check, Kept
<1>2. CASE ~ IsRead(page)
  <2> DEFINE result == Complaint(page)
  <2>1. Tells("check", path, result) /\ known' = known
    BY <1>2 DEF Check
  <2>2. Fulfilled("check", path, result)
    BY <1>2, IntactIsRead, ReadOrWrong DEF Fulfilled, Fits, TraceReaders
  <2> HIDE DEF result
  <2> QED
    BY <1>1, <2>1, <2>2, NothingLearnt, TellsKeeps, TellsReads
<1>3. CASE IsRead(page)
  <2>1. PICK outcome \in Comes(known, run) :
          /\ known' = Knowing(known, run, outcome)
          /\ Verdict("check", path, outcome, outcome = Pass, "Broke")
    BY <1>3 DEF Check
  <2>2. Askable(known, run)
    <3>1. "quorum" \in Systems
      BY DEF Systems
    <3> QED
      BY <3>1, Askables
  <2> HIDE DEF run
  <2>3. WellKnown(known') /\ Grown(known, known')
    BY <1>1, <2>1, <2>2, Learns
  <2> DEFINE wanted == outcome = Pass
             result == IF outcome = Unrun THEN Bad("Run", 0)
                       ELSE IF wanted THEN Good(<<>>) ELSE Bad("Broke", 0)
  <2>4. Fulfilled("check", path, result)
    <3>1. result = Bad("Run", 0) \/ result = Good(<<>>) \/ result = Bad("Broke", 0)
      OBVIOUS
    <3> HIDE DEF result
    <3> QED
      BY <3>1, GoodAndBad, BadNews DEF Fulfilled, Excuses, TraceReaders
  <2>5. Verdict("check", path, outcome, wanted, "Broke") /\ wanted \in BOOLEAN
    BY <2>1
  <2> HIDE DEF wanted
  <2> QED
    BY <1>1, <2>3, <2>4, <2>5, VerdictKeeps
<1> QED
  BY <1>2, <1>3

\* A failure that is asked for is the one the page was written for.
LEMMA ReproduceKeeps ==
    ASSUME Kept, NEW path \in Path, Reproduce(path)
    PROVE  Kept' /\ ReadsBackWhatWasWritten'
<1> DEFINE page == ReadRepro(files[path])
           repro == page.value
           run == SystemOf(repro.system, repro.seed, repro.faults)
<1>1. Alone /\ build' = build /\ WellKnown(known)
  BY AloneBuilds DEF Reproduce, Kept
<1>2. CASE ~ IsRead(page)
  <2> DEFINE result == Complaint(page)
  <2>1. Tells("reproduce", path, result) /\ known' = known
    BY <1>2 DEF Reproduce
  <2>2. Fulfilled("reproduce", path, result)
    BY <1>2, IntactIsRead, ReadOrWrong DEF Fulfilled, Fits, TraceReaders
  <2> HIDE DEF result
  <2> QED
    BY <1>1, <2>1, <2>2, NothingLearnt, TellsKeeps, TellsReads
<1>3. CASE IsRead(page)
  <2>1. PICK outcome \in Comes(known, run) :
          /\ known' = Knowing(known, run, outcome)
          /\ Verdict("reproduce", path, outcome,
                     outcome \notin {Crash, Unrun} /\ Reproduces(outcome, repro.expected),
                     "NotReproduced")
    BY <1>3 DEF Reproduce
  <2>2. Askable(known, run)
    BY <1>3, ReproRead, Askables
  <2>3. WellKnown(known') /\ Grown(known, known')
    <3> HIDE DEF run
    <3> QED
      BY <1>1, <2>1, <2>2, Learns
  <2> DEFINE wanted == outcome \notin {Crash, Unrun} /\ Reproduces(outcome, repro.expected)
             result == IF outcome = Unrun THEN Bad("Run", 0)
                       ELSE IF wanted THEN Good(<<>>) ELSE Bad("NotReproduced", 0)
  <2>4. ASSUME Fits("reproduce", meant[path]), meant[path].build = build, Intact(path)
        PROVE  result.is = "good"
    <3>1. meant[path].form = "repro"
      BY <2>4 DEF Fits, TraceReaders
    <3>2. /\ page = Read(meant[path].value) /\ meant[path].value \in Repro
          /\ Told(known, meant[path])
      BY <2>4, <3>1, IntactIsRead
    <3>3. repro = meant[path].value
      BY <3>2, ReadOrWrong
    <3>4. run \in DOMAIN known /\ known[run] = repro.expected
      BY <3>1, <3>2, <3>3 DEF Told
    <3>5. outcome = repro.expected /\ repro.expected \in Failure
      BY <2>1, <3>2, <3>3, <3>4 DEF Comes, Repro
    <3>6. Reproduces(outcome, repro.expected)
      BY <3>5, FailureFacts
    <3>7. outcome \notin {Crash, Unrun}
      <4>1. outcome.verdict = "fail" /\ Crash.verdict = "crash" /\ Unrun.verdict = "unrun"
        BY <3>5 DEF Failure, Crash, Unrun
      <4> QED
        BY <4>1
    <3>8. result = Good(<<>>)
      BY <3>6, <3>7
    <3> QED
      BY <3>8, GoodAndBad
  <2>5. Fulfilled("reproduce", path, result)
    <3> HIDE DEF result
    <3> QED
      BY <2>4 DEF Fulfilled
  <2>6. Verdict("reproduce", path, outcome, wanted, "NotReproduced") /\ wanted \in BOOLEAN
    BY <2>1 DEF Reproduces
  <2> HIDE DEF wanted
  <2> QED
    BY <1>1, <2>3, <2>5, <2>6, VerdictKeeps
<1> QED
  BY <1>2, <1>3

--------------------------------------------------------------------------------
(* Sweeps, mishaps, and any run of commands. *)

LEMMA BeginSweepKeeps ==
    ASSUME Kept, NEW command, NEW path, NEW run, NEW system \in Systems, NEW drawn,
           \A s \in 0 .. MaxSeeds - 1 : run[s] = SystemOf(system, s, drawn[s]),
           BeginSweep(command, path, run)
    PROVE  Kept' /\ ReadsBackWhatWasWritten'
<1>1. UNCHANGED <<files, meant, build>> /\ said'.exit = "none"
  BY DEF BeginSweep, Typed
<1>2. PICK count \in 1 .. MaxSeeds :
        \E outcomes : /\ \A s \in 0 .. count - 1 : outcomes[s] \in Comes(known, run[s])
                      /\ known' = [r \in DOMAIN known \cup {run[s] : s \in 0 .. count - 1} |->
                                     IF r \in DOMAIN known THEN known[r] ELSE outcomes[r[2]]]
  BY DEF BeginSweep
<1>3. PICK outcomes : /\ \A s \in 0 .. count - 1 : outcomes[s] \in Comes(known, run[s])
                      /\ known' = [r \in DOMAIN known \cup {run[s] : s \in 0 .. count - 1} |->
                                     IF r \in DOMAIN known THEN known[r] ELSE outcomes[r[2]]]
  BY <1>2
<1>4. ASSUME NEW s \in 0 .. count - 1
      PROVE  /\ run[s][1] = system /\ run[s][2] = s
             /\ Askable(known, run[s]) /\ outcomes[s] \in Ending
  <2>1. s \in 0 .. MaxSeeds - 1
    BY CommandAssumption
  <2>2. run[s][1] = system /\ run[s][2] = s
    BY <2>1 DEF SystemOf
  <2>3. Askable(known, run[s])
    BY <2>1, <2>2 DEF Askable
  <2>4. outcomes[s] \in Comes(known, run[s])
    BY <1>3
  <2> QED
    BY <2>2, <2>3, <2>4, ComesAsItMay DEF Kept
<1>5. /\ DOMAIN known' = DOMAIN known \cup {run[s] : s \in 0 .. count - 1}
      /\ \A r \in DOMAIN known : known'[r] = known[r]
      /\ \A s \in 0 .. count - 1 : run[s] \notin DOMAIN known => known'[run[s]] = outcomes[run[s][2]]
  BY <1>3
<1>6. Grown(known, known')
  BY <1>5 DEF Grown
<1>7. WellKnown(known')
  <2> SUFFICES ASSUME NEW r \in DOMAIN known'
               PROVE  /\ r[1] = "exchange" => known'[r] \in Seq(Entry)
                      /\ r[1] = "ring" => known'[r] \in Steps
                      /\ r[1] \in Systems => known'[r] \in Ending
    BY DEF WellKnown
  <2>1. CASE r \in DOMAIN known
    BY <1>5, <2>1 DEF Kept, WellKnown
  <2>2. CASE r \notin DOMAIN known
    <3>1. PICK s \in 0 .. count - 1 : r = run[s]
      BY <1>5, <2>2
    <3>2. known'[r] = outcomes[s] /\ r[1] = system
      BY <1>4, <1>5, <2>2, <3>1
    <3> QED
      BY <1>4, <3>2, SystemsApart
  <2> QED
    BY <2>1, <2>2
<1> QED
  BY <1>1, <1>6, <1>7, KeptAsItWas, OthersRead

LEMMA SweepsKeep ==
    ASSUME Kept, SweepSeeds \/ HuntSeeds
    PROVE  Kept' /\ ReadsBackWhatWasWritten'
<1>1. "quorum" \in Systems /\ "reconciler" \in Systems
  BY DEF Systems
<1>2. CASE SweepSeeds
  <2> DEFINE schedule == ReadSchedule(files["faults"]).value
             run == [s \in 0 .. MaxSeeds - 1 |-> SystemOf("quorum", s, schedule)]
             drawn == [s \in 0 .. MaxSeeds - 1 |-> schedule]
  <2>1. BeginSweep("sweep", "faults", run)
    BY <1>2 DEF SweepSeeds
  <2>2. \A s \in 0 .. MaxSeeds - 1 : run[s] = SystemOf("quorum", s, drawn[s])
    OBVIOUS
  <2> HIDE DEF run, drawn
  <2> QED
    BY <1>1, <2>1, <2>2, BeginSweepKeeps
<1>3. CASE HuntSeeds
  <2> DEFINE run == [s \in 0 .. MaxSeeds - 1 |-> SystemOf("reconciler", s, DrawnFor(s))]
             drawn == [s \in 0 .. MaxSeeds - 1 |-> DrawnFor(s)]
  <2>1. BeginSweep("hunt", "faults", run)
    BY <1>3 DEF HuntSeeds
  <2>2. \A s \in 0 .. MaxSeeds - 1 : run[s] = SystemOf("reconciler", s, drawn[s])
    OBVIOUS
  <2> HIDE DEF run, drawn
  <2> QED
    BY <1>1, <2>1, <2>2, BeginSweepKeeps
<1> QED
  BY <1>2, <1>3

LEMMA SweepEndsKeeps ==
    ASSUME Kept, Commanding, SweepEnds
    PROVE  Kept' /\ ReadsBackWhatWasWritten'
<1>1. said'.command \notin Readers
  BY SweepEndsWell DEF Sweeps, Readers, TraceReaders
<1>2. UNCHANGED <<files, meant, build, known>>
  BY DEF SweepEnds, Crashes, Tells
<1> QED
  BY <1>1, <1>2, NothingLearnt, KeptAsItWas, OthersRead

LEMMA MistypeKeeps ==
    ASSUME Kept, NEW text, Mistype(text)
    PROVE  Kept' /\ ReadsBackWhatWasWritten'
<1>1. UNCHANGED <<files, meant, build, known>> /\ said'.command = "refused"
  BY AloneBuilds DEF Mistype
<1>2. said'.command \notin Readers
  BY <1>1 DEF Readers, TraceReaders
<1> QED
  BY <1>1, <1>2, NothingLearnt, KeptAsItWas, OthersRead

LEMMA QuietIsNoReader == Quiet.command \notin Readers
BY DEF Quiet, Readers, TraceReaders

\* What another build wrote is not held to this one.
LEMMA RebuildKeeps ==
    ASSUME Kept, Rebuild
    PROVE  Kept' /\ ReadsBackWhatWasWritten'
<1>1. /\ UNCHANGED <<files, meant>> /\ build = 0 /\ build' = 1 /\ known' = <<>> /\ said' = Quiet
  BY DEF Rebuild
<1>2. WellKnown(known')
  <2>1. DOMAIN known' = {}
    BY <1>1
  <2> QED
    BY <2>1 DEF WellKnown
<1>3. ASSUME NEW path \in Path, meant'[path] # Nobody
      PROVE  /\ OfItsForm(meant'[path]) /\ meant'[path].build \in 0 .. build'
             /\ meant'[path].build = build' => Told(known', meant'[path])
  <2>1. OfItsForm(meant[path]) /\ meant[path].build \in 0 .. build
    BY <1>1, <1>3 DEF Kept
  <2> QED
    BY <1>1, <2>1
<1>4. Kept'
  BY <1>1, <1>2, <1>3 DEF Kept
<1> QED
  BY <1>1, <1>4, QuietIsNoReader, OthersRead

LEMMA HarmKeeps ==
    ASSUME Kept, NEW path \in Path, Harm(path)
    PROVE  Kept' /\ ReadsBackWhatWasWritten'
<1>1. /\ UNCHANGED <<meant, known, build>> /\ said' = Quiet
      /\ \E text \in Harmed(files[path]) : files' = [files EXCEPT ![path] = text]
  BY DEF Harm
<1>2. files[path] \in Texts /\ files \in [Path -> Texts]
  BY DEF Kept
<1>3. Harmed(files[path]) \subseteq Texts
  BY <1>2, HarmedAreTexts
<1>4. files' \in [Path -> Texts]
  BY <1>1, <1>2, <1>3
<1>5. Kept'
  BY <1>1, <1>4 DEF Kept
<1> QED
  BY <1>1, <1>5, QuietIsNoReader, OthersRead

LEMMA KeptAtFirst == CommandInit => Kept /\ ReadsBackWhatWasWritten
<1> SUFFICES ASSUME CommandInit PROVE Kept /\ ReadsBackWhatWasWritten
  OBVIOUS
<1>1. PICK schedule \in Asked :
        /\ meant = [path \in Path |->
                      IF path = "faults" THEN [form |-> "faults", value |-> schedule, build |-> 0]
                      ELSE Nobody]
        /\ files = [path \in Path |-> IF path = "faults" THEN WriteSchedule(schedule) ELSE <<>>]
  BY DEF CommandInit
<1>2. known = <<>> /\ build = 0 /\ said = Quiet
  BY DEF CommandInit
<1>3. schedule \in Seq(WritableFault)
  BY WrittenAssumption
<1>4. files \in [Path -> Texts]
  <2>1. WriteSchedule(schedule) \in Texts
    BY <1>3, ScheduleReadsBack, LinesAreTexts
  <2>2. <<>> \in Texts
    BY DEF Texts
  <2> QED
    BY <1>1, <2>1, <2>2
<1>5. WellKnown(known)
  <2>1. DOMAIN known = {}
    BY <1>2
  <2> QED
    BY <2>1 DEF WellKnown
<1>6. ASSUME NEW path \in Path, meant[path] # Nobody
      PROVE  /\ OfItsForm(meant[path]) /\ meant[path].build \in 0 .. build
             /\ Told(known, meant[path])
  <2> DEFINE page == [form |-> "faults", value |-> schedule, build |-> 0]
  <2>1. meant[path] = page
    BY <1>1, <1>6
  <2>2. page.form = "faults" /\ page.value = schedule /\ page.build = 0
    OBVIOUS
  <2> HIDE DEF page
  <2> QED
    BY <1>2, <1>3, <2>1, <2>2 DEF OfItsForm, Told
<1>7. Kept
  BY <1>1, <1>2, <1>4, <1>5, <1>6 DEF Kept
<1>8. ReadsBackWhatWasWritten
  BY <1>2, QuietIsNoReader DEF ReadsBackWhatWasWritten, Answered
<1> QED
  BY <1>7, <1>8

LEMMA AnswersStay ==
    ASSUME ReadsBackWhatWasWritten, UNCHANGED <<files, meant, build, said>>
    PROVE  ReadsBackWhatWasWritten'
BY DEF ReadsBackWhatWasWritten, Answered, Intact, Fits

LEMMA CommandStepReads ==
    Commanding /\ Kept /\ ReadsBackWhatWasWritten /\ [CommandNext]_allVars
      => Kept' /\ ReadsBackWhatWasWritten'
<1> SUFFICES ASSUME Commanding, Kept, ReadsBackWhatWasWritten, [CommandNext]_allVars
             PROVE  Kept' /\ ReadsBackWhatWasWritten'
  OBVIOUS
<1>1. /\ TypedNumbers \subseteq Number /\ SeedsTyped \subseteq Number
      /\ "page" \in Pages /\ "other" \in Pages /\ Pages \subseteq Path /\ "faults" \in Path
  BY TypedAreNumbers, WrittenAssumption, PagesArePaths DEF Pages
<1>2. ASSUME NEW s \in TypedNumbers \cap SeedsTyped,
             \/ RunSeed(s, "page") \/ TraceSeed(s, "page") \/ ShrinkFaults(s, "faults", "page")
             \/ Corner(s, "page")
      PROVE  Kept' /\ ReadsBackWhatWasWritten'
  <2>1. s \in Number
    BY <1>1
  <2> QED
    BY <1>1, <1>2, <2>1, RunSeedKeeps, TraceSeedKeeps, ShrinkKeeps, CornerKeeps
<1>3. ASSUME NEW s \in SeedsTyped, Check(s, "faults")
      PROVE  Kept' /\ ReadsBackWhatWasWritten'
  <2>1. s \in Number
    BY <1>1
  <2> QED
    BY <1>1, <1>3, <2>1, CheckKeeps
<1>4. ASSUME NEW path \in Pages,
             \/ Replay(path) \/ Reproduce(path)
             \/ \E n \in TypedNumbers :
                   \/ Inspect(path, n)
                   \/ \E m \in TypedNumbers : Diff(path, n, m)
                   \/ \E s \in SeedsTyped : Fork(path, n, s, "other")
      PROVE  Kept' /\ ReadsBackWhatWasWritten'
  <2>1. path \in Path
    BY <1>1
  <2>2. ASSUME NEW n \in TypedNumbers,
               \/ Inspect(path, n)
               \/ \E m \in TypedNumbers : Diff(path, n, m)
               \/ \E s \in SeedsTyped : Fork(path, n, s, "other")
        PROVE  Kept' /\ ReadsBackWhatWasWritten'
    <3>1. n \in Number
      BY <1>1
    <3>2. ASSUME NEW m \in TypedNumbers, Diff(path, n, m)
          PROVE  Kept' /\ ReadsBackWhatWasWritten'
      <4>1. m \in Number
        BY <1>1
      <4> QED
        BY <2>1, <3>1, <3>2, <4>1, DiffKeeps
    <3>3. ASSUME NEW s \in SeedsTyped, Fork(path, n, s, "other")
          PROVE  Kept' /\ ReadsBackWhatWasWritten'
      <4>1. s \in Number
        BY <1>1
      <4> QED
        BY <1>1, <2>1, <3>1, <3>3, <4>1, ForkKeeps
    <3> QED
      BY <2>1, <2>2, <3>1, <3>2, <3>3, InspectKeeps
  <2> QED
    BY <1>4, <2>1, <2>2, ReplayKeeps, ReproduceKeeps
<1>5. ASSUME NEW path \in Path, Harm(path) PROVE Kept' /\ ReadsBackWhatWasWritten'
  BY <1>5, HarmKeeps
<1>6. CASE SweepSeeds \/ HuntSeeds
  BY <1>6, SweepsKeep
<1>7. CASE SweepEnds
  BY <1>7, SweepEndsKeeps
<1>8. CASE WhileSweeping \/ UNCHANGED allVars
  <2>1. UNCHANGED <<files, meant, build, said, known>>
    BY <1>8 DEF WhileSweeping, commandVars, allVars
  <2> QED
    BY <2>1, NothingLearnt, KeptAsItWas, AnswersStay
<1>9. ASSUME NEW text, Mistype(text) PROVE Kept' /\ ReadsBackWhatWasWritten'
  BY <1>9, MistypeKeeps
<1>10. CASE Rebuild
  BY <1>10, RebuildKeeps
<1>11. CASE CommandNext
  BY <1>1, <1>2, <1>3, <1>4, <1>5, <1>6, <1>7, <1>8, <1>9, <1>10, <1>11 DEF CommandNext
<1> QED
  BY <1>8, <1>11

\* A page nothing happened to is read back by the program that wrote it, whatever was written
\* and whichever command reads it: a recording replays, a trace is run again to the same steps
\* though it forked, a repro's failure comes back (`replay`, `Loaded::parse`, `reproduced`).
THEOREM PagesReadBack == CommandSpec => []ReadsBackWhatWasWritten
<1>1. CLInv => Commanding
  BY DEF CLInv
<1>2. CLInv /\ Kept /\ ReadsBackWhatWasWritten /\ [CommandNext]_allVars
        => Kept' /\ ReadsBackWhatWasWritten'
  BY <1>1, CommandStepReads
<1> QED
  BY <1>2, CommandsKeep, KeptAtFirst, PTL DEF CommandSpec

--------------------------------------------------------------------------------
(* What was read is as it would be written. *)

LEMMA SpellsItself == ASSUME NEW line PROVE SpellsLine(line, line)
BY DEF SpellsLine

\* What is read as a number is how it is written, but for a zero before it.
SpellsToken(token, written) == token = written \/ (token = "01" /\ written = "1")

LEMMA NumberSpelt ==
    ASSUME NEW token, Digits(<<token>>) # {}
    PROVE  \E n \in Number : /\ Digits(<<token>>) = {n} /\ Max(Digits(<<token>>)) = n
                             /\ SpellsToken(token, Written(n))
<1>1. PICK n \in Digits(<<token>>) : TRUE
  OBVIOUS
<1>2. n \in Number /\ token \in Spellings(n)
  <2>1. n \in Number /\ \E t \in Spellings(n) : <<token>> = <<t>>
    BY <1>1 DEF Digits
  <2> QED
    BY <2>1
<1>3. /\ Written(0) = "0" /\ Written(1) = "1" /\ Written(2) = "2"
      /\ Written(3) = "3" /\ Written(4) = "4" /\ Written(5) = "5"
  BY DEF Written, Numerals
<1>4. ASSUME NEW m \in Digits(<<token>>) PROVE m = n
  <2>1. m \in Number /\ \E t \in Spellings(m) : <<token>> = <<t>>
    BY <1>4 DEF Digits
  <2>2. token \in Spellings(m)
    BY <2>1
  <2>3. m \in {0, 1, 2, 3, 4, 5} /\ n \in {0, 1, 2, 3, 4, 5}
    BY <1>2, <2>1 DEF Number
  <2> QED
    BY <1>2, <1>3, <2>2, <2>3 DEF Spellings
<1>5. Digits(<<token>>) = {n}
  BY <1>1, <1>4
<1>6. SpellsToken(token, Written(n))
  BY <1>2, <1>3 DEF Spellings, SpellsToken
<1> QED
  BY <1>2, <1>5, <1>6, NumberAlone

\* An instant is read from nothing but what it is written as.
LEMMA InstantSpelt ==
    ASSUME NEW tokens, IsRead(ReadInstant(tokens))
    PROVE  /\ ReadInstant(tokens).value \in Instant
           /\ tokens = <<WriteInstant(ReadInstant(tokens).value)>>
<1>1. \E c \in Clocked : tokens = <<c.text>>
  BY ReadOrWrong DEF ReadInstant
<1> DEFINE c == CHOOSE c \in Clocked : tokens = <<c.text>>
<1>2. c \in Clocked /\ tokens = <<c.text>> /\ ReadInstant(tokens) = Timed(c.seconds, c.nanos)
  BY <1>1 DEF ReadInstant
<1> HIDE DEF c
<1>3. /\ Len(c.nanos) = 1 /\ Digits(c.seconds) # {} /\ Digits(c.nanos) # {}
      /\ Timed(c.seconds, c.nanos) = Read(Max(Digits(c.seconds)) * PER_SEC + Max(Digits(c.nanos)))
      /\ ~ Max(Digits(c.seconds)) * PER_SEC + Max(Digits(c.nanos)) > MaxTime
  BY <1>2, ReadOrWrong DEF Timed
<1>4. /\ Written(0) = "0" /\ Written(1) = "1" /\ Written(5) = "5"
      /\ 0 \in Number /\ 1 \in Number /\ 5 \in Number
  BY DEF Written, Numerals, Number
<1>5. /\ Digits(<<"0">>) = {0} /\ Digits(<<"1">>) = {1} /\ Digits(<<"5">>) = {5}
      /\ Max({0}) = 0 /\ Max({1}) = 1 /\ Max({5}) = 5
  BY <1>4, NumberReadsBack, NumberAlone
<1>6. c.text # "+1.1s"
  <2>1. \A n \in Number : "+1" \notin Spellings(n)
    <3> SUFFICES ASSUME NEW n \in Number PROVE "+1" \notin Spellings(n)
      OBVIOUS
    <3>1. n \in {0, 1, 2, 3, 4, 5}
      BY DEF Number
    <3>2. Written(n) \in {"0", "1", "2", "3", "4", "5"}
      BY <3>1 DEF Written, Numerals
    <3> QED
      BY <3>2 DEF Spellings
  <2>2. Digits(<<"+1">>) = {}
    BY <2>1 DEF Digits
  <2>3. c.text = "+1.1s" => c.seconds = <<"+1">>
    BY <1>2 DEF Clocked
  <2> QED
    BY <1>3, <2>2, <2>3
<1>7. c.text # "1.11s"
  <2>1. c.text = "1.11s" => c.nanos = <<"1", "1">>
    BY <1>2 DEF Clocked
  <2> QED
    BY <1>3, <2>1
<1>8. c.text # "5.0s"
  <2>1. c.text = "5.0s" => c.seconds = <<"5">> /\ c.nanos = <<"0">>
    BY <1>2 DEF Clocked
  <2>2. 5 * 2 + 0 > MaxTime
    BY MaxTimeAssumption, WrittenTimesAssumption DEF PER_SEC
  <2> QED
    BY <1>3, <1>5, <2>1, <2>2 DEF PER_SEC
<1>9. \E s \in {0, 1}, n \in {0, 1} :
         c.seconds = <<Written(s)>> /\ c.nanos = <<Written(n)>>
  BY <1>2, <1>4, <1>6, <1>7, <1>8 DEF Clocked
<1>10. PICK s \in {0, 1}, n \in {0, 1} : c.seconds = <<Written(s)>> /\ c.nanos = <<Written(n)>>
  BY <1>9
<1> DEFINE at == s * 2 + n
<1>11. ReadInstant(tokens).value = at
  <2>1. Digits(c.seconds) = {s} /\ Digits(c.nanos) = {n} /\ Max({s}) = s /\ Max({n}) = n
    BY <1>4, <1>5, <1>10
  <2> QED
    BY <1>2, <1>3, <2>1, ReadOrWrong DEF PER_SEC
<1>12. at \div 2 = s /\ at % 2 = n
  OBVIOUS
<1> HIDE DEF at
<1>13. (CHOOSE d \in Clocked : d.seconds = <<Written(s)>> /\ d.nanos = <<Written(n)>>) = c
  <2>1. \A d \in Clocked : d.seconds = c.seconds /\ d.nanos = c.nanos => d = c
    BY <1>2 DEF Clocked
  <2> QED
    BY <1>2, <1>10, <2>1
<1>14. WriteInstant(at) = c.text
  BY <1>12, <1>13 DEF WriteInstant, PER_SEC
<1> QED
  BY <1>2, <1>11, <1>14, InstantRead

LEMMA HashSpelt ==
    ASSUME NEW token, IsRead(ReadHash(token))
    PROVE  WriteHash(ReadHash(token).value) = token
<1>1. \E hash \in DOMAIN HashText : HashText[hash] = token
  BY ReadOrWrong DEF ReadHash
<1> DEFINE h == CHOOSE hash \in DOMAIN HashText : HashText[hash] = token
<1>2. HashText[h] = token /\ ReadHash(token) = Read(h)
  BY <1>1 DEF ReadHash
<1> HIDE DEF h
<1> QED
  BY <1>2, ReadOrWrong DEF WriteHash

--------------------------------------------------------------------------------
(* Pages that are read are as they are written. *)

\* A list is what it begins with and what follows.
LEMMA Rejoined ==
    ASSUME NEW S, NEW s \in Seq(S), NEW n \in Nat, n <= Len(s)
    PROVE  /\ SubSeq(s, 1, n) \in Seq(S) /\ Len(SubSeq(s, 1, n)) = n
           /\ \A i \in 1 .. n : SubSeq(s, 1, n)[i] = s[i]
           /\ After(s, n) \in Seq(S) /\ Len(After(s, n)) = Len(s) - n
           /\ \A i \in 1 .. Len(s) - n : After(s, n)[i] = s[n + i]
           /\ SubSeq(s, 1, n) \o After(s, n) = s
<1>1. Len(s) \in Nat
  BY LenProperties
<1> DEFINE u == SubSeq(s, 1, n)
           v == SubSeq(s, n + 1, Len(s))
<1>2. u \in Seq(S) /\ Len(u) = n /\ \A i \in 1 .. n : u[i] = s[i]
  <2>1. \A i \in 1 .. n : s[i] \in S
    BY <1>1, ElementOfSeq
  <2>2. /\ u \in Seq(S) /\ Len(u) = n
        /\ \A i \in 1 .. n : u[i] = s[1 + i - 1]
    BY <2>1, SubSeqProperties
  <2> HIDE DEF u
  <2>3. \A i \in 1 .. n : 1 + i - 1 = i
    OBVIOUS
  <2> QED
    BY <2>2, <2>3
<1>3. v \in Seq(S) /\ Len(v) = Len(s) - n /\ \A i \in 1 .. Len(s) - n : v[i] = s[n + i]
  <2>1. \A i \in n + 1 .. Len(s) : s[i] \in S
    BY <1>1, ElementOfSeq
  <2>2. /\ v \in Seq(S) /\ Len(v) = Len(s) - n
        /\ \A i \in 1 .. Len(s) - (n + 1) + 1 : v[i] = s[n + 1 + i - 1]
    BY <1>1, <2>1, SubSeqProperties
  <2> HIDE DEF v
  <2>3. \A i \in 1 .. Len(s) - n : n + 1 + i - 1 = n + i /\ i \in 1 .. Len(s) - (n + 1) + 1
    BY <1>1
  <2> QED
    BY <2>2, <2>3
<1> HIDE DEF u, v
<1>4. u \o v = s
  <2>1. Len(s) = Len(u) + Len(v)
    BY <1>1, <1>2, <1>3
  <2>2. \A i \in 1 .. Len(v) : s[Len(u) + i] = v[i]
    BY <1>2, <1>3
  <2> QED
    BY <1>2, <1>3, <2>1, <2>2, Glued
<1> QED
  BY <1>2, <1>3, <1>4 DEF u, v, After

\* What opens a list is the beginning of it.
LEMMA Opened ==
    ASSUME NEW S, NEW s \in Seq(S), NEW T, NEW opening \in Seq(T), Opens(s, opening)
    PROVE  /\ Len(opening) <= Len(s) /\ opening \o After(s, Len(opening)) = s
           /\ \A i \in 1 .. Len(opening) : s[i] = opening[i]
<1> DEFINE n == Len(opening)
<1>1. /\ n \in Nat /\ n <= Len(s) /\ n <= Len(opening)
      /\ SubSeq(opening, 1, n) = SubSeq(s, 1, n)
  BY LenProperties DEF Opens, IsStrictPrefix, IsPrefix
<1>2. SubSeq(opening, 1, n) = opening
  <2> DEFINE u == SubSeq(opening, 1, n)
  <2>1. u \in Seq(T) /\ Len(u) = n /\ \A i \in 1 .. n : u[i] = opening[i]
    BY <1>1, Rejoined
  <2> HIDE DEF u
  <2>2. u = opening
    BY <2>1, SeqEqual
  <2> QED
    BY <2>2 DEF u
<1>3. /\ \A i \in 1 .. n : SubSeq(s, 1, n)[i] = s[i]
      /\ SubSeq(s, 1, n) \o After(s, n) = s
  BY <1>1, Rejoined
<1> QED
  BY <1>1, <1>2, <1>3

LEMMA EntrySpelt ==
    ASSUME NEW S, NEW tokens \in Seq(S), IsRead(ReadEntry(tokens))
    PROVE  WriteEntry(ReadEntry(tokens).value) = tokens
<1> DEFINE at == ReadInstant(SubSeq(tokens, 1, 1))
           entry == [at |-> at.value, message |-> After(tokens, 1)]
<1>1. /\ ~ Len(tokens) < 2 /\ IsRead(at) /\ ReadEntry(tokens) = Read(entry)
  <2>1. ReadEntry(tokens) =
          IF Len(tokens) < 2 THEN Amiss("Malformed")
          ELSE IF ~ IsRead(at) THEN at
          ELSE IF ~ IsEntry(entry) THEN Amiss("Malformed")
          ELSE Read(entry)
    BY DEF ReadEntry
  <2> HIDE DEF at, entry
  <2> QED
    BY <2>1, ReadOrWrong
<1>2. Len(tokens) \in Nat /\ 1 <= Len(tokens)
  BY <1>1, LenProperties
<1>3. SubSeq(tokens, 1, 1) = <<WriteInstant(at.value)>>
  BY <1>1, InstantSpelt
<1> HIDE DEF at
<1>4. SubSeq(tokens, 1, 1) \o After(tokens, 1) = tokens
  BY <1>2, Rejoined
<1>5. ReadEntry(tokens).value = entry
  BY <1>1, ReadOrWrong
<1>6. entry.at = at.value /\ entry.message = After(tokens, 1)
  OBVIOUS
<1> HIDE DEF entry
<1> QED
  BY <1>3, <1>4, <1>5, <1>6 DEF WriteEntry

LEMMA OnlyOne == \A k : k = 1 => 1 \in 1 .. k
OBVIOUS

\* A header of three words, and then a number.
LEMMA HeaderSpelt ==
    ASSUME NEW S, NEW line \in Seq(S), NEW kind, Numbered(line, Header(kind)) # {}
    PROVE  SpellsLine(line, Append(Header(kind), Written(Max(Numbered(line, Header(kind))))))
<1> DEFINE h == Header(kind)
<1>1. h = <<"chronoloop", kind, "seed">>
  BY DEF Header
<1>2. h \in Seq({"chronoloop", kind, "seed"}) /\ Len(h) = 3
  BY <1>1
<1>3. Opens(line, h) /\ Numbered(line, h) = Digits(After(line, 3))
  BY <1>2 DEF Numbered
<1>4. 3 <= Len(line) /\ \A i \in 1 .. 3 : line[i] = h[i]
  <2> DEFINE T == {"chronoloop", kind, "seed"}
  <2> HIDE DEF h, T
  <2>1. h \in Seq(T) /\ Len(h) = 3
    BY <1>2 DEF T
  <2>2. Len(h) <= Len(line) /\ \A i \in 1 .. Len(h) : line[i] = h[i]
    BY <1>3, <2>1, Opened
  <2> QED
    BY <2>1, <2>2
<1>5. 3 \in Nat /\ Len(line) \in Nat /\ Numbered(line, h) # {}
  BY LenProperties
<1>6. PICK token : After(line, 3) = <<token>>
  BY <1>3, <1>5 DEF Digits
<1>7. /\ Len(line) \in Nat /\ Len(After(line, 3)) = Len(line) - 3
      /\ \A i \in 1 .. Len(line) - 3 : After(line, 3)[i] = line[3 + i]
  BY <1>4, <1>5, Rejoined
<1>8. Len(line) = 4 /\ line[4] = token
  <2>1. Len(line) - 3 = 1
    BY <1>6, <1>7
  <2>2. After(line, 3)[1] = line[3 + 1]
    <3>1. 1 \in 1 .. Len(line) - 3
      BY <2>1, OnlyOne
    <3> QED
      BY <1>7, <3>1
  <2> QED
    BY <1>6, <1>7, <2>1, <2>2
<1>9. PICK n \in Number : Max(Numbered(line, h)) = n /\ SpellsToken(token, Written(n))
  <2> HIDE DEF h
  <2> QED
    BY <1>3, <1>5, <1>6, NumberSpelt
<1> DEFINE written == Append(h, Written(n))
<1>10. /\ Len(written) = 4 /\ DOMAIN written = 1 .. 4
       /\ written[1] = h[1] /\ written[2] = h[2] /\ written[3] = h[3] /\ written[4] = Written(n)
  BY <1>1
<1> HIDE DEF h, written
<1>11. ASSUME NEW j \in 1 .. 4 PROVE SpellsToken(line[j], written[j])
  <2>1. CASE j = 4
    BY <1>8, <1>9, <1>10, <2>1
  <2>2. CASE j # 4
    <3>1. j \in 1 .. 3 /\ (j = 1 \/ j = 2 \/ j = 3)
      BY <2>2
    <3> QED
      BY <1>4, <1>10, <3>1 DEF SpellsToken
  <2> QED
    BY <2>1, <2>2
<1>12. SpellsLine(line, written)
  BY <1>8, <1>10, <1>11 DEF SpellsLine, SpellsToken
<1> QED
  BY <1>9, <1>12 DEF h, written

\* A recording that is read is the one its reading is written as.
LEMMA RecordingSpelt ==
    ASSUME NEW S, NEW text \in Seq(Seq(S)), IsRead(ReadRecording(text))
    PROVE  /\ ReadRecording(text).value.seed \in Number
           /\ \E n \in Nat : \E e : ReadRecording(text).value.entries = [i \in 1 .. n |-> e[i]]
           /\ ReadRecording(text).value = [seed |-> ReadRecording(text).value.seed,
                                           entries |-> ReadRecording(text).value.entries]
           /\ Spells(text, WriteRecording(ReadRecording(text).value))
<1> DEFINE heading == Numbered(text[1], Header("history"))
           n == Len(text) - 1
           results == [i \in 1 .. n |-> ReadEntry(text[i + 1])]
           entries == Collect(results, 2)
           value == [seed |-> Max(heading), entries |-> entries.value]
<1>1. text # <<>> /\ heading # {} /\ IsRead(entries) /\ ReadRecording(text) = Read(value)
  <2>1. ReadRecording(text) =
          IF text = <<>> THEN Wrong("MissingHeader", 1)
          ELSE IF heading = {} THEN Wrong("BadHeader", 1)
          ELSE IF IsRead(entries) THEN Read(value) ELSE entries
    BY DEF ReadRecording
  <2> HIDE DEF heading, entries, value
  <2> QED
    BY <2>1, ReadOrWrong
<1>2. n \in Nat /\ Len(text) = 1 + n /\ \A i \in 1 .. n + 1 : text[i] \in Seq(S)
  <2>1. Len(text) \in Nat /\ Len(text) # 0
    BY <1>1, EmptySeq, LenProperties
  <2>2. n \in Nat /\ Len(text) = n + 1
    BY <2>1
  <2> HIDE DEF n
  <2> QED
    BY <2>2, ElementOfSeq
<1> HIDE DEF n
<1>3. DOMAIN results = 1 .. n /\ \A i \in 1 .. n : results[i] = ReadEntry(text[i + 1])
  OBVIOUS
<1> HIDE DEF results
<1>4. /\ \A i \in 1 .. n : IsRead(results[i])
      /\ entries.value = [i \in 1 .. n |-> results[i].value]
  <2>1. IsRead(Collect(results, 2))
    BY <1>1
  <2>2. /\ \A i \in DOMAIN results : IsRead(results[i])
        /\ Collect(results, 2).value = [i \in DOMAIN results |-> results[i].value]
    BY <2>1, Collected
  <2> QED
    BY <1>3, <2>2
<1> HIDE DEF entries
<1>5. ASSUME NEW i \in 1 .. n PROVE WriteEntry(results[i].value) = text[i + 1]
  <2>1. i + 1 \in 1 .. n + 1
    BY <1>2
  <2> QED
    BY <1>2, <1>3, <1>4, <2>1, EntrySpelt
<1>6. SpellsLine(text[1], Append(Header("history"), Written(Max(heading))))
  <2>1. 1 \in 1 .. n + 1
    BY <1>2
  <2> QED
    BY <1>1, <1>2, <2>1, HeaderSpelt
<1>7. Max(heading) \in Number
  BY <1>1, NumberRead DEF Numbered
<1> DEFINE head == Append(Header("history"), Written(Max(heading)))
           lines == [i \in DOMAIN entries.value |-> WriteEntry(entries.value[i])]
<1>8. lines = [i \in 1 .. n |-> text[i + 1]]
  BY <1>4, <1>5
<1>9. WriteRecording(value) = <<head>> \o lines
  BY DEF WriteRecording
<1> HIDE DEF heading, lines, head
<1>10. lines \in Seq(Seq(S)) /\ Len(lines) = n /\ \A i \in 1 .. n : lines[i] = text[i + 1]
  <2>1. \A i \in 1 .. n : i + 1 \in 1 .. n + 1
    BY <1>2
  <2> QED
    BY <1>2, <1>8, <2>1
<1>11. Spells(text, <<head>> \o lines)
  <2> DEFINE L == Seq(S) \cup {head}
             written == <<head>> \o lines
  <2>1. lines \in Seq(L) /\ head \in L
    <3>1. Seq(S) \subseteq L
      OBVIOUS
    <3> QED
      BY <1>10, <3>1, SeqMonotonic
  <2> HIDE DEF L
  <2>2. /\ written[1] = head /\ Len(written) = 1 + Len(lines) /\ written \in Seq(L)
        /\ \A i \in 1 .. Len(lines) : written[i + 1] = lines[i]
    BY <2>1, Headed
  <2> HIDE DEF written
  <2>3. ASSUME NEW i \in 1 .. n + 1 PROVE SpellsLine(text[i], written[i])
    <3>1. CASE i = 1
      BY <1>6, <2>2, <3>1 DEF head
    <3>2. CASE i # 1
      <4>1. i - 1 \in 1 .. n /\ i - 1 + 1 = i
        BY <1>2, <3>2
      <4>2. written[i - 1 + 1] = text[i - 1 + 1]
        BY <1>10, <2>2, <4>1
      <4>3. written[i] = text[i]
        BY <4>1, <4>2
      <4> QED
        BY <4>3, SpellsItself
    <3> QED
      BY <3>1, <3>2
  <2>4. DOMAIN written = 1 .. n + 1 /\ Len(text) = Len(written)
    BY <1>2, <1>10, <2>2
  <2> QED
    BY <2>3, <2>4 DEF Spells, written
<1>12. ReadRecording(text).value = value
  BY <1>1, ReadOrWrong
<1>13. \E m \in Nat : \E e : value.entries = [i \in 1 .. m |-> e[i]]
  <2> DEFINE e == [i \in 1 .. n |-> results[i].value]
  <2>1. value.entries = [i \in 1 .. n |-> e[i]]
    BY <1>4
  <2> HIDE DEF e, value
  <2> QED
    BY <1>2, <2>1
<1>14. value.seed \in Number /\ value = [seed |-> value.seed, entries |-> value.entries]
  BY <1>7
<1> HIDE DEF value
<1> QED
  BY <1>9, <1>11, <1>12, <1>13, <1>14
LEMMA StepSpelt ==
    ASSUME NEW S, NEW tokens \in Seq(S), IsRead(ReadStep(tokens))
    PROVE  WriteStep(ReadStep(tokens).value) = tokens
<1> DEFINE at == ReadInstant(SubSeq(tokens, 1, 1))
           state == ReadHash(tokens[2])
           step == [at |-> at.value, state |-> state.value, message |-> After(tokens, 2)]
<1>1. /\ ~ Len(tokens) < 3 /\ IsRead(at) /\ IsRead(state) /\ ReadStep(tokens) = Read(step)
  <2>1. ReadStep(tokens) =
          IF Len(tokens) < 2 THEN Amiss("Malformed")
          ELSE IF ~ IsRead(at) THEN at
          ELSE IF Len(tokens) < 3 THEN Amiss("Malformed")
          ELSE IF ~ IsRead(state) THEN state
          ELSE IF ~ IsEntry(step) THEN Amiss("Malformed")
          ELSE Read(step)
    BY DEF ReadStep
  <2> HIDE DEF at, state, step
  <2> QED
    BY <2>1, ReadOrWrong
<1>2. Len(tokens) \in Nat /\ 2 <= Len(tokens) /\ 1 <= Len(tokens)
  BY <1>1, LenProperties
<1>3. SubSeq(tokens, 1, 1) = <<WriteInstant(at.value)>>
  BY <1>1, InstantSpelt
<1>4. WriteHash(state.value) = tokens[2]
  BY <1>1, HashSpelt
<1> HIDE DEF at, state
<1>5. tokens[1] = WriteInstant(at.value)
  <2>1. SubSeq(tokens, 1, 1)[1] = tokens[1]
    BY <1>2, Rejoined
  <2> DEFINE w == WriteInstant(at.value)
             u == SubSeq(tokens, 1, 1)
  <2>2. u = <<w>> /\ u[1] = tokens[1]
    BY <1>3, <2>1
  <2> HIDE DEF w, u
  <2>3. tokens[1] = w
    BY <2>2
  <2> QED
    BY <2>3 DEF w
<1>6. /\ SubSeq(tokens, 1, 2) \in Seq(S) /\ Len(SubSeq(tokens, 1, 2)) = 2
      /\ \A i \in 1 .. 2 : SubSeq(tokens, 1, 2)[i] = tokens[i]
      /\ SubSeq(tokens, 1, 2) \o After(tokens, 2) = tokens
  BY <1>2, Rejoined
<1>7. SubSeq(tokens, 1, 2) = <<WriteInstant(at.value), WriteHash(state.value)>>
  <2> DEFINE u == SubSeq(tokens, 1, 2)
  <2>1. u[1] = tokens[1] /\ u[2] = tokens[2]
    BY <1>6
  <2> HIDE DEF u
  <2>2. u \in Seq(S) /\ Len(u) = 2
    BY <1>6 DEF u
  <2>3. u = <<u[1], u[2]>>
    BY <2>2
  <2> QED
    BY <1>4, <1>5, <2>1, <2>3 DEF u
<1>8. ReadStep(tokens).value = step
  BY <1>1, ReadOrWrong
<1>9. step.at = at.value /\ step.state = state.value /\ step.message = After(tokens, 2)
  OBVIOUS
<1> HIDE DEF step
<1> QED
  BY <1>6, <1>7, <1>8, <1>9 DEF WriteStep

\* A step is read where its number stands.
LEMMA NumberedSpelt ==
    ASSUME NEW S, NEW record \in Seq(S), NEW n \in Nat, IsRead(ReadNumbered(record, n))
    PROVE  /\ n \in Number
           /\ SpellsLine(record, <<"step", Written(n)>> \o WriteStep(ReadNumbered(record, n).value))
<1> DEFINE digits == Digits(SubSeq(record, 2, 2))
           rest == After(record, 2)
<1>1. /\ Opens(record, <<"step">>) /\ ~ Len(record) < 3 /\ digits # {} /\ digits = {n}
      /\ IsRead(ReadStep(rest)) /\ ReadNumbered(record, n) = ReadStep(rest)
  <2>1. ReadNumbered(record, n) =
          IF ~ Opens(record, <<"step">>) \/ Len(record) < 3 \/ digits = {} THEN Amiss("Unnumbered")
          ELSE IF digits # {n} THEN Amiss("OutOfSequence")
          ELSE ReadStep(rest)
    BY DEF ReadNumbered
  <2> HIDE DEF digits, rest
  <2> QED
    BY <2>1, ReadOrWrong
<1>2. Len(record) \in Nat /\ 2 <= Len(record) /\ 2 \in 1 .. Len(record)
  BY <1>1, LenProperties
<1>3. record[1] = "step"
  <2> DEFINE opening == <<"step">>
  <2>1. opening \in Seq({"step"}) /\ Len(opening) = 1 /\ opening[1] = "step"
    OBVIOUS
  <2>2. Opens(record, opening)
    BY <1>1
  <2> HIDE DEF opening
  <2>3. \A i \in 1 .. Len(opening) : record[i] = opening[i]
    BY <2>1, <2>2, Opened
  <2> QED
    BY <2>1, <2>3
<1>4. SubSeq(record, 2, 2) = <<record[2]>>
  BY <1>2, OneOf
<1>5. n \in Number /\ SpellsToken(record[2], Written(n))
  BY <1>1, <1>4, NumberSpelt
<1>6. /\ rest \in Seq(S) /\ Len(rest) = Len(record) - 2
      /\ \A i \in 1 .. Len(record) - 2 : rest[i] = record[2 + i]
  BY <1>2, Rejoined
<1> HIDE DEF rest, digits
<1>7. WriteStep(ReadNumbered(record, n).value) = rest
  BY <1>1, <1>6, StepSpelt
<1> DEFINE head == <<"step", Written(n)>>
           line == head \o rest
           T == S \cup {"step", Written(n)}
<1>8. head \in Seq(T) /\ Len(head) = 2 /\ head[1] = "step" /\ head[2] = Written(n)
  OBVIOUS
<1>9. rest \in Seq(T)
  <2>1. S \subseteq T
    OBVIOUS
  <2> HIDE DEF T
  <2> QED
    BY <1>6, <2>1, SeqMonotonic
<1> HIDE DEF T, head
<1>10. /\ line \in Seq(T) /\ Len(line) = 2 + Len(rest)
       /\ \A i \in 1 .. 2 + Len(rest) : line[i] = IF i <= 2 THEN head[i] ELSE rest[i - 2]
  <2> HIDE DEF rest
  <2>1. /\ line \in Seq(T) /\ Len(line) = Len(head) + Len(rest)
        /\ \A i \in 1 .. Len(head) + Len(rest) :
              line[i] = IF i <= Len(head) THEN head[i] ELSE rest[i - Len(head)]
    BY <1>8, <1>9, ConcatProperties
  <2> HIDE DEF line
  <2> QED
    BY <1>8, <2>1
<1> HIDE DEF line
<1>11. Len(line) = Len(record) /\ DOMAIN line = 1 .. Len(record) /\ 2 + Len(rest) = Len(record)
  BY <1>2, <1>6, <1>10
<1>12. ASSUME NEW j \in 1 .. Len(record) PROVE SpellsToken(record[j], line[j])
  <2>1. line[j] = IF j <= 2 THEN head[j] ELSE rest[j - 2]
    BY <1>10, <1>11
  <2>2. CASE j = 1
    BY <1>3, <1>8, <2>1, <2>2 DEF SpellsToken
  <2>3. CASE j = 2
    BY <1>5, <1>8, <2>1, <2>3
  <2>4. CASE j > 2
    <3>1. ~ j <= 2 /\ j - 2 \in 1 .. Len(record) - 2 /\ 2 + (j - 2) = j
      BY <1>2, <2>4
    <3>2. rest[j - 2] = record[2 + (j - 2)]
      BY <1>6, <3>1
    <3> QED
      BY <2>1, <3>1, <3>2 DEF SpellsToken
  <2>5. j = 1 \/ j = 2 \/ j > 2
    BY <1>2
  <2> QED
    BY <2>2, <2>3, <2>4, <2>5
<1>13. SpellsLine(record, line)
  BY <1>11, <1>12 DEF SpellsLine, SpellsToken
<1> QED
  BY <1>5, <1>7, <1>13 DEF line, head

\* The line of a fork that is read has six words, of which two say where and to what.
LEMMA ForkSpelt ==
    ASSUME NEW S, NEW line \in Seq(S), IsForkLine(line), IsRead(ReadFork(line))
    PROVE  /\ ReadFork(line).value \in [at : Instant, seed : Number]
           /\ SpellsLine(line, WriteFork(ReadFork(line).value))
<1> DEFINE rest == After(line, 2)
           mark == <<"to", "seed">>
           parts == SplitOnce(rest, mark)
           i == Min(Splits(rest, mark))
           at == ReadInstant(parts[1])
           digits == Digits(parts[2])
           fork == [at |-> at.value, seed |-> Max(digits)]
<1>1. /\ Splits(rest, mark) # {} /\ IsRead(at) /\ digits # {} /\ ReadFork(line) = Read(fork)
  <2>1. ReadFork(line) =
          IF Splits(rest, mark) # {} /\ IsRead(at) /\ digits # {} THEN Read(fork)
          ELSE Wrong("BadFork", 2)
    BY DEF ReadFork
  <2> HIDE DEF at, digits, fork
  <2> QED
    BY <2>1, ReadOrWrong
<1>2. Len(line) \in Nat /\ 2 <= Len(line) /\ line[1] = "forked" /\ line[2] = "at"
  <2> DEFINE opening == <<"forked", "at">>
  <2>1. /\ opening \in Seq({"forked", "at"}) /\ Len(opening) = 2
        /\ opening[1] = "forked" /\ opening[2] = "at"
    OBVIOUS
  <2>2. Opens(line, opening)
    BY DEF IsForkLine
  <2> HIDE DEF opening
  <2>3. Len(opening) <= Len(line) /\ \A j \in 1 .. Len(opening) : line[j] = opening[j]
    BY <2>1, <2>2, Opened
  <2>4. line[1] = opening[1] /\ line[2] = opening[2]
    BY <2>1, <2>3
  <2> QED
    BY <2>1, <2>3, <2>4, LenProperties
<1>3. /\ rest \in Seq(S) /\ Len(rest) = Len(line) - 2
      /\ \A j \in 1 .. Len(line) - 2 : rest[j] = line[2 + j]
  BY <1>2, Rejoined
<1>4. Len(mark) = 2 /\ mark[1] = "to" /\ mark[2] = "seed"
  OBVIOUS
<1> HIDE DEF rest, mark
<1>5. Len(rest) \in Nat
  BY <1>3, LenProperties
<1>6. i \in 2 .. (Len(rest) - 2) /\ SubSeq(rest, i, i + 1) = mark
  <2>1. Splits(rest, mark) \in SUBSET Nat
    BY <1>4, <1>5 DEF Splits
  <2>2. i \in Splits(rest, mark)
    BY <1>1, <2>1, LeastFacts
  <2> HIDE DEF i
  <2>3. i \in 2 .. (Len(rest) - Len(mark)) /\ SubSeq(rest, i, i + Len(mark) - 1) = mark
    BY <2>2 DEF Splits
  <2>4. i + 2 - 1 = i + 1
    BY <1>5, <2>3
  <2> QED
    BY <1>4, <2>3, <2>4
<1>7. parts = <<SubSeq(rest, 1, i - 1), After(rest, i + 1)>>
  <2>1. i \in Int /\ i + 2 - 1 = i + 1
    <3> HIDE DEF i
    <3> QED
      BY <1>5, <1>6
  <2>2. parts = <<SubSeq(rest, 1, i - 1), After(rest, i + Len(mark) - 1)>>
    BY DEF SplitOnce
  <2> HIDE DEF i, parts
  <2> QED
    BY <1>4, <2>1, <2>2
<1> HIDE DEF i, parts
<1>8. i - 1 \in Nat /\ i - 1 <= Len(rest) /\ i + 1 \in Nat /\ i + 1 <= Len(rest) /\ i \in Nat
  BY <1>5, <1>6
<1>9. /\ Len(SubSeq(rest, 1, i - 1)) = i - 1
      /\ \A j \in 1 .. i - 1 : SubSeq(rest, 1, i - 1)[j] = rest[j]
  BY <1>3, <1>8, Rejoined
<1>10. i = 2 /\ rest[1] = WriteInstant(at.value) /\ at.value \in Instant
  <2>1. parts[1] = <<WriteInstant(at.value)>> /\ at.value \in Instant
    BY <1>1, InstantSpelt
  <2> DEFINE w == WriteInstant(at.value)
  <2> HIDE DEF w, at
  <2>2. SubSeq(rest, 1, i - 1) = <<w>>
    BY <1>7, <2>1 DEF w
  <2>3. i - 1 = 1
    BY <1>9, <2>2
  <2>4. SubSeq(rest, 1, i - 1)[1] = rest[1]
    BY <1>9, <2>3
  <2>5. rest[1] = w
    <3> DEFINE u == SubSeq(rest, 1, i - 1)
    <3>1. u = <<w>> /\ u[1] = rest[1]
      BY <2>2, <2>4
    <3> HIDE DEF u
    <3> QED
      BY <3>1
  <2>6. i = 2
    BY <1>8, <2>3
  <2> QED
    BY <2>1, <2>5, <2>6 DEF w
<1>11. rest[2] = "to" /\ rest[3] = "seed"
  <2>1. SubSeq(rest, 2, 3) = mark /\ 4 <= Len(rest)
    BY <1>5, <1>6, <1>10
  <2>2. \A j \in 2 .. 3 : rest[j] \in S
    BY <1>3, <1>5, <2>1, ElementOfSeq
  <2>3. \A j \in 1 .. 3 - 2 + 1 : SubSeq(rest, 2, 3)[j] = rest[2 + j - 1]
    BY <2>2, SubSeqProperties
  <2>4. SubSeq(rest, 2, 3)[1] = rest[2 + 1 - 1] /\ SubSeq(rest, 2, 3)[2] = rest[2 + 2 - 1]
    BY <2>3
  <2> QED
    BY <1>4, <2>1, <2>4
<1>12. /\ Len(After(rest, 3)) = Len(rest) - 3
       /\ \A j \in 1 .. Len(rest) - 3 : After(rest, 3)[j] = rest[3 + j]
  BY <1>3, <1>8, <1>10, Rejoined
<1>13. PICK token : parts[2] = <<token>>
  BY <1>1 DEF Digits
<1>14. After(rest, 3) = <<token>>
  BY <1>7, <1>10, <1>13
<1>15. Len(rest) = 4 /\ rest[4] = token
  <2>1. Len(rest) - 3 = 1
    BY <1>12, <1>14
  <2>2. 1 \in 1 .. Len(rest) - 3
    BY <2>1, OnlyOne
  <2>3. After(rest, 3)[1] = rest[3 + 1]
    BY <1>12, <2>2
  <2> QED
    BY <1>5, <1>14, <2>1, <2>3
<1>16. PICK n \in Number : Max(digits) = n /\ SpellsToken(token, Written(n))
  BY <1>1, <1>13, NumberSpelt
<1>17. fork = [at |-> at.value, seed |-> n] /\ fork \in [at : Instant, seed : Number]
  BY <1>10, <1>16
<1> DEFINE written == WriteFork(fork)
<1>18. written = <<"forked", "at", WriteInstant(at.value), "to", "seed", Written(n)>>
  BY <1>17 DEF WriteFork
<1>19. /\ Len(written) = 6 /\ DOMAIN written = 1 .. 6
       /\ written[1] = "forked" /\ written[2] = "at" /\ written[3] = WriteInstant(at.value)
       /\ written[4] = "to" /\ written[5] = "seed" /\ written[6] = Written(n)
  BY <1>18
<1> HIDE DEF written, at, digits, fork
<1>20. /\ Len(line) = 6 /\ line[3] = rest[1] /\ line[4] = rest[2]
       /\ line[5] = rest[3] /\ line[6] = rest[4]
  <2>1. Len(line) = 6 /\ Len(line) - 2 = 4
    <3>1. \A k \in Nat : k - 2 = 4 => k = 6
      OBVIOUS
    <3>2. Len(line) - 2 = 4
      BY <1>3, <1>15
    <3> QED
      BY <1>2, <3>1, <3>2
  <2>2. \A j \in 1 .. 4 : rest[j] = line[2 + j]
    BY <1>3, <2>1
  <2>3. /\ rest[1] = line[2 + 1] /\ rest[2] = line[2 + 2]
        /\ rest[3] = line[2 + 3] /\ rest[4] = line[2 + 4]
    BY <2>2
  <2> QED
    BY <2>1, <2>3
<1>21. \A j \in 1 .. 6 : SpellsToken(line[j], written[j])
  <2>1. \A j \in 1 .. 6 : j = 1 \/ j = 2 \/ j = 3 \/ j = 4 \/ j = 5 \/ j = 6
    OBVIOUS
  <2>2. \A j \in {1, 2, 3, 4, 5} : line[j] = written[j]
    BY <1>2, <1>10, <1>11, <1>19, <1>20
  <2>3. SpellsToken(line[6], written[6])
    BY <1>15, <1>16, <1>19, <1>20
  <2> QED
    BY <2>1, <2>2, <2>3 DEF SpellsToken
<1>22. SpellsLine(line, written)
  BY <1>19, <1>20, <1>21 DEF SpellsLine, SpellsToken
<1>23. ReadFork(line).value = fork
  BY <1>1, ReadOrWrong
<1> QED
  BY <1>17, <1>22, <1>23 DEF written
\* Two texts spell what is written, and so do they one after the other.
LEMMA JoinedSpells ==
    ASSUME NEW L, NEW text \in Seq(L), NEW M, NEW heads \in Seq(M), NEW lines \in Seq(M),
           Len(text) = Len(heads) + Len(lines),
           \A i \in 1 .. Len(heads) : SpellsLine(text[i], heads[i]),
           \A i \in 1 .. Len(lines) : SpellsLine(text[Len(heads) + i], lines[i])
    PROVE  Spells(text, heads \o lines)
<1> DEFINE written == heads \o lines
           k == Len(heads)
<1>1. /\ Len(written) = k + Len(lines) /\ written \in Seq(M)
      /\ \A i \in 1 .. k + Len(lines) : written[i] = IF i <= k THEN heads[i] ELSE lines[i - k]
  BY ConcatProperties
<1>2. k \in Nat /\ Len(lines) \in Nat
  BY LenProperties
<1> HIDE DEF written, k
<1>3. ASSUME NEW i \in 1 .. k + Len(lines) PROVE SpellsLine(text[i], written[i])
  <2>1. CASE i <= k
    <3>1. i \in 1 .. k /\ written[i] = heads[i]
      BY <1>1, <1>2, <2>1
    <3> QED
      BY <3>1 DEF k
  <2>2. CASE ~ i <= k
    <3>1. i - k \in 1 .. Len(lines) /\ k + (i - k) = i
      BY <1>2, <2>2
    <3>2. SpellsLine(text[k + (i - k)], lines[i - k])
      BY <3>1 DEF k
    <3> QED
      BY <1>1, <2>2, <3>1, <3>2
  <2> QED
    BY <2>1, <2>2
<1>4. DOMAIN written = 1 .. k + Len(lines)
  BY <1>1, LenProperties
<1> QED
  BY <1>1, <1>3, <1>4 DEF Spells, written, k

LEMMA ListOf ==
    ASSUME NEW M, NEW n \in Nat, NEW f, f = [i \in 1 .. n |-> f[i]], \A i \in 1 .. n : f[i] \in M
    PROVE  f \in Seq(M) /\ Len(f) = n
<1>1. f \in [1 .. n -> M]
  OBVIOUS
<1> QED
  BY <1>1

LEMMA LineAlone ==
    ASSUME NEW M, NEW a \in M
    PROVE  <<a>> \in Seq(M) /\ Len(<<a>>) = 1 /\ <<a>>[1] = a /\ <<a>> \o <<>> = <<a>>
OBVIOUS

LEMMA TwoLines ==
    ASSUME NEW M, NEW a \in M, NEW b \in M
    PROVE  /\ <<a>> \o <<b>> = <<a, b>> /\ <<a, b>> \in Seq(M) /\ Len(<<a, b>>) = 2
           /\ <<a, b>>[1] = a /\ <<a, b>>[2] = b
<1> DEFINE s == <<a>>
           t == <<b>>
           u == <<a, b>>
<1>1. /\ s \in Seq(M) /\ t \in Seq(M) /\ u \in Seq(M) /\ Len(s) = 1 /\ Len(t) = 1 /\ Len(u) = 2
      /\ s[1] = a /\ t[1] = b /\ u[1] = a /\ u[2] = b
  OBVIOUS
<1> HIDE DEF s, t, u
<1>2. /\ Len(u) = Len(s) + Len(t)
      /\ \A i \in 1 .. Len(s) : u[i] = s[i]
      /\ \A i \in 1 .. Len(t) : u[Len(s) + i] = t[i]
  BY <1>1
<1>3. s \o t = u
  BY <1>1, <1>2, Glued
<1> QED
  BY <1>1, <1>3 DEF s, t, u

\* A trace that is read is the one its reading is written as, and every step of it has a line.
LEMMA TraceSpelt ==
    ASSUME NEW S, NEW text \in Seq(Seq(S)), IsRead(ReadTrace(text))
    PROVE  LET traced == ReadTrace(text).value
           IN /\ traced = [seed |-> traced.seed, fork |-> traced.fork, steps |-> traced.steps]
              /\ Spells(text, WriteTrace(traced))
              /\ \A i \in DOMAIN traced.steps : \E line \in Range(text) :
                    SpellsLine(line, <<"step", Written(i - 1)>> \o WriteStep(traced.steps[i]))
<1> DEFINE heading == Numbered(text[1], Header("trace"))
           forks == Len(text) > 1 /\ IsForkLine(text[2])
           fork == IF forks THEN ReadFork(text[2]) ELSE Read(<<>>)
           first == IF forks THEN 3 ELSE 2
           k == first - 1
           records == After(text, k)
           steps == ReadSteps(records, first)
           traced == [seed |-> Max(heading), fork |-> IF forks THEN <<fork.value>> ELSE <<>>,
                     steps |-> steps.value]
<1>1. heading # {} /\ text # <<>> /\ IsRead(fork) /\ IsRead(steps) /\ ReadTrace(text) = Read(traced)
  <2>1. ReadTrace(text) =
          IF text = <<>> THEN Wrong("MissingHeader", 1)
          ELSE IF heading = {} THEN Wrong("BadHeader", 1)
          ELSE IF ~ IsRead(fork) THEN fork
          ELSE IF ~ IsRead(steps) THEN steps
          ELSE Read(traced)
    BY DEF ReadTrace
  <2> HIDE DEF heading, fork, steps, traced
  <2> QED
    BY <2>1, ReadOrWrong
<1>2. Len(text) \in Nat /\ Len(text) > 0 /\ \A i \in 1 .. Len(text) : text[i] \in Seq(S)
  BY <1>1, EmptySeq, LenProperties, ElementOfSeq
<1>3. k \in Nat /\ k <= Len(text) /\ k = (IF forks THEN 2 ELSE 1)
  BY <1>2
<1> DEFINE n == Len(text) - k
<1>4. /\ n \in Nat /\ records \in Seq(Seq(S)) /\ DOMAIN records = 1 .. n
      /\ \A i \in 1 .. n : records[i] = text[k + i] /\ k + i \in 1 .. Len(text)
  <2> HIDE DEF first
  <2> HIDE DEF k
  <2>1. n \in Nat /\ \A i \in 1 .. n : k + i \in 1 .. Len(text)
    BY <1>2, <1>3
  <2>2. text \in Seq(Seq(S)) /\ k \in Nat /\ k <= Len(text)
    BY <1>3
  <2>3. /\ After(text, k) \in Seq(Seq(S)) /\ Len(After(text, k)) = Len(text) - k
        /\ \A i \in 1 .. Len(text) - k : After(text, k)[i] = text[k + i]
    BY ONLY <2>2, Rejoined
  <2>4. records \in Seq(Seq(S)) /\ Len(records) = n /\ \A i \in 1 .. n : records[i] = text[k + i]
    BY ONLY <2>3
  <2> QED
    BY <2>1, <2>4, LenProperties
<1> DEFINE results == [i \in DOMAIN records |-> ReadNumbered(records[i], i - 1)]
<1>5. /\ \A i \in 1 .. n : IsRead(results[i])
      /\ steps.value = [i \in 1 .. n |-> results[i].value]
  <2>1. steps = Collect(results, first)
    BY DEF ReadSteps
  <2>2. DOMAIN results = 1 .. n
    BY <1>4
  <2> HIDE DEF results, steps, n
  <2>3. IsRead(Collect(results, first))
    BY <1>1, <2>1
  <2>4. /\ \A i \in DOMAIN results : IsRead(results[i])
        /\ Collect(results, first).value = [i \in DOMAIN results |-> results[i].value]
    BY <2>3, Collected
  <2> QED
    BY <2>1, <2>2, <2>4
<1>6. \A i \in 1 .. n : results[i] = ReadNumbered(records[i], i - 1)
  BY <1>4
<1> HIDE DEF results, steps, n
<1>7. ASSUME NEW i \in 1 .. n
      PROVE  SpellsLine(records[i], <<"step", Written(i - 1)>> \o WriteStep(results[i].value))
  <2>1. i - 1 \in Nat
    BY <1>4
  <2>2. IsRead(ReadNumbered(records[i], i - 1)) /\ results[i] = ReadNumbered(records[i], i - 1)
    BY <1>5, <1>6
  <2>3. records[i] \in Seq(S)
    BY <1>2, <1>4
  <2> HIDE DEF records
  <2> QED
    BY <2>1, <2>2, <2>3, NumberedSpelt
<1> HIDE DEF records
<1> DEFINE head == Append(Header("trace"), Written(Max(heading)))
<1>8. SpellsLine(text[1], head)
  <2>1. 1 \in 1 .. Len(text)
    BY <1>2
  <2> QED
    BY <1>1, <1>2, <2>1, HeaderSpelt
<1> DEFINE marks == [i \in DOMAIN traced.fork |-> WriteFork(traced.fork[i])]
           lines == [i \in DOMAIN traced.steps |->
                       <<"step", Written(i - 1)>> \o WriteStep(traced.steps[i])]
           heads == <<head>> \o marks
           M == {head, WriteFork(fork.value)} \cup {lines[i] : i \in 1 .. n}
<1>9. WriteTrace(traced) = heads \o lines
  BY DEF WriteTrace
<1>10. /\ lines \in Seq(M) /\ Len(lines) = n
       /\ \A i \in 1 .. n :
             lines[i] = <<"step", Written(i - 1)>> \o WriteStep(results[i].value)
  <2>1. DOMAIN traced.steps = 1 .. n /\ \A i \in 1 .. n : traced.steps[i] = results[i].value
    BY <1>5
  <2>2. DOMAIN lines = 1 .. n /\ lines = [i \in 1 .. n |-> lines[i]]
    BY <2>1
  <2>3. \A i \in 1 .. n :
             lines[i] = <<"step", Written(i - 1)>> \o WriteStep(results[i].value)
    BY <2>1
  <2>4. \A i \in 1 .. n : lines[i] \in M
    OBVIOUS
  <2>5. n \in Nat
    BY <1>4
  <2> HIDE DEF lines, M
  <2>6. lines \in Seq(M) /\ Len(lines) = n
    BY <2>2, <2>4, <2>5, ListOf
  <2> QED
    BY <2>3, <2>6
<1>11. /\ heads \in Seq(M) /\ Len(heads) = k
       /\ \A i \in 1 .. k : SpellsLine(text[i], heads[i])
  <2>1. head \in M /\ WriteFork(fork.value) \in M
    OBVIOUS
  <2> HIDE DEF M, head
  <2>2. CASE forks
    <3>1. marks = <<WriteFork(fork.value)>>
      BY <2>2
    <3>2. SpellsLine(text[2], WriteFork(fork.value))
      <4>1. fork = ReadFork(text[2]) /\ IsForkLine(text[2]) /\ 2 \in 1 .. Len(text)
        BY <1>2, <2>2
      <4> HIDE DEF fork
      <4> QED
        BY <1>1, <1>2, <4>1, ForkSpelt
    <3> DEFINE mark == WriteFork(fork.value)
    <3> HIDE DEF mark
    <3>3. heads = <<head, mark>>
      <4>1. <<head>> \o <<mark>> = <<head, mark>>
        BY <2>1, TwoLines DEF mark
      <4> QED
        BY <3>1, <4>1 DEF mark
    <3>4. /\ heads \in Seq(M) /\ Len(heads) = 2 /\ heads[1] = head /\ heads[2] = mark
      <4>1. mark \in M
        BY <2>1 DEF mark
      <4> HIDE DEF heads
      <4> QED
        BY <2>1, <3>3, <4>1, TwoLines
    <3> HIDE DEF heads
    <3>5. k = 2
      BY <1>3, <2>2
    <3>6. \A i \in 1 .. 2 : i = 1 \/ i = 2
      OBVIOUS
    <3> QED
      BY <1>8, <3>2, <3>4, <3>5, <3>6 DEF mark
  <2>3. CASE ~ forks
    <3>1. marks = <<>>
      BY <2>3
    <3>2. heads = <<head>>
      <4>1. <<head>> \o <<>> = <<head>>
        BY <2>1, LineAlone
      <4> QED
        BY <3>1, <4>1
    <3>3. heads \in Seq(M) /\ Len(heads) = 1 /\ heads[1] = head
      <4> HIDE DEF heads
      <4> QED
        BY <2>1, <3>2, LineAlone
    <3> HIDE DEF heads
    <3>4. k = 1
      BY <1>3, <2>3
    <3>5. \A i \in 1 .. 1 : i = 1
      OBVIOUS
    <3> QED
      BY <1>8, <3>3, <3>4, <3>5
  <2> QED
    BY <2>2, <2>3
<1>12. \A i \in 1 .. n : traced.steps[i] = results[i].value
  BY <1>5
<1>13. DOMAIN traced.steps = 1 .. n
  BY <1>5
<1>14. traced = [seed |-> traced.seed, fork |-> traced.fork, steps |-> traced.steps]
  OBVIOUS
<1> HIDE DEF heads, lines, M, first, traced
<1>15. Spells(text, heads \o lines)
  <2>1. Len(text) = Len(heads) + Len(lines)
    <3> HIDE DEF k
    <3> QED
      BY <1>2, <1>3, <1>10, <1>11 DEF n
  <2>2. \A i \in 1 .. Len(lines) : SpellsLine(text[Len(heads) + i], lines[i])
    <3> HIDE DEF k
    <3> QED
      BY <1>4, <1>7, <1>10, <1>11
  <2> QED
    BY <1>10, <1>11, <2>1, <2>2, JoinedSpells
<1>16. ASSUME NEW i \in 1 .. n
       PROVE  \E line \in Range(text) :
                 SpellsLine(line, <<"step", Written(i - 1)>> \o WriteStep(traced.steps[i]))
  <2>1. records[i] = text[k + i] /\ k + i \in DOMAIN text
    BY <1>4, LenProperties
  <2>2. records[i] \in Range(text)
    BY <2>1 DEF Range
  <2> QED
    BY <1>7, <1>12, <2>2
<1>17. ReadTrace(text).value = traced
  BY <1>1, ReadOrWrong
<1> QED
  BY <1>9, <1>13, <1>14, <1>15, <1>16, <1>17

--------------------------------------------------------------------------------
(* A good answer is about the page. *)

\* A text is one this program would write of a run it remembers.
OfARecording(memory, text) ==
    \E s \in Number :
       /\ ExchangeOf(s) \in DOMAIN memory
       /\ Spells(text, WriteRecording([seed |-> s, entries |-> memory[ExchangeOf(s)]]))

OfATrace(memory, text) ==
    \E run \in DOMAIN memory :
       /\ run[1] = "ring"
       /\ Spells(text, WriteTrace([seed |-> run[2], fork |-> run[3], steps |-> memory[run]]))

HasLine(text, written) == \E line \in Range(text) : SpellsLine(line, written)

LEMMA StaysATrace ==
    ASSUME NEW memory, NEW more, Grown(memory, more), NEW text, OfATrace(memory, text)
    PROVE  OfATrace(more, text)
BY DEF Grown, OfATrace

\* What is good to say of what was read is so.
AnswersRight(command, text, result) ==
    result.is = "good" =>
      /\ command = "replay" => OfARecording(known', text)
      /\ command \in TraceReaders => OfATrace(known', text)
      /\ command = "inspect" => HasLine(text, result.news[1])

LEMMA RightIsOfThePage ==
    ASSUME NEW command, NEW path, NEW result, AnswersRight(command, files[path], result),
           said'.command = command, said'.on = path, said'.result = result,
           files'[path] = files[path]
    PROVE  AnswersAreOfThePage'
BY DEF AnswersRight, AnswersAreOfThePage, AnsweredWell, Answered, OfARecording, OfATrace, HasLine

LEMMA OthersAnswer ==
    ASSUME said'.command \in {"run", "trace", "shrink", "corner", "check", "reproduce", "sweep",
                              "hunt", "refused", "none"}
    PROVE  AnswersAreOfThePage'
BY DEF AnswersAreOfThePage, AnsweredWell, Answered, TraceReaders

LEMMA TellsRight ==
    ASSUME NEW command, NEW path, NEW result, Tells(command, path, result),
           AnswersRight(command, files[path], result)
    PROVE  AnswersAreOfThePage'
<1>1. /\ files' = files
      /\ said'.command = command /\ said'.on = path /\ said'.result = result
  BY DEF Tells
<1> QED
  BY <1>1, RightIsOfThePage

LEMMA SaysItsName ==
    ASSUME NEW command, NEW path, NEW result, NEW form, NEW value, NEW to,
           \/ Tells(command, path, result) \/ Crashes(command, path)
           \/ Writes(command, path, result, form, value, to)
    PROVE  said'.command = command
BY DEF Tells, Crashes, Writes

LEMMA WritesRight ==
    ASSUME NEW command, NEW path, NEW result, NEW form, NEW value, NEW to, to # path,
           files \in [Path -> Texts], path \in Path,
           Writes(command, path, result, form, value, to),
           AnswersRight(command, files[path], result)
    PROVE  AnswersAreOfThePage'
<1>1. said'.command = command /\ said'.on = path /\ said'.result = result
  BY DEF Writes
<1>2. files'[path] = files[path]
  <2>1. files' = files \/ \E text : files' = [files EXCEPT ![to] = text]
    BY DEF Writes
  <2> QED
    BY <2>1
<1> QED
  BY <1>1, <1>2, RightIsOfThePage

LEMMA ReplayAnswers ==
    ASSUME Kept, NEW path \in Path, Replay(path)
    PROVE  AnswersAreOfThePage'
<1> DEFINE page == ReadRecording(files[path])
           run == ExchangeOf(page.value.seed)
<1>1. CASE ~ IsRead(page)
  <2>1. Tells("replay", path, Complaint(page))
    BY <1>1 DEF Replay
  <2>2. AnswersRight("replay", files[path], Complaint(page))
    BY GoodAndBad DEF Complaint, AnswersRight
  <2> QED
    BY <2>1, <2>2, TellsRight
<1>2. CASE IsRead(page)
  <2>1. PICK entries \in Comes(known, run) :
          LET parted == FirstDivergence(page.value.entries, entries, 2) IN
          /\ known' = Knowing(known, run, entries)
          /\ \E result \in IF parted = {} THEN {Good(<<>>)} ELSE parted :
                Tells("replay", path, result)
    BY <1>2 DEF Replay
  <2> DEFINE parted == FirstDivergence(page.value.entries, entries, 2)
  <2>2. PICK result \in IF parted = {} THEN {Good(<<>>)} ELSE parted :
          Tells("replay", path, result)
    BY <2>1
  <2>3. /\ run \in DOMAIN known' /\ known'[run] = entries /\ entries \in Seq(Entry)
    BY <2>1, Askables, Learns, ComesAsItMay DEF Kept
  <2>4. \A d \in parted : d.is = "bad"
    BY GoodAndBad DEF FirstDivergence, Diverged, DivergedLength
  <2>5. ASSUME result.is = "good" PROVE OfARecording(known', files[path])
    <3>1. parted = {}
      BY <2>2, <2>4, <2>5
    <3>2. files[path] \in Seq(Seq(Token \cup Garble))
      BY DEF Kept, Texts
    <3>3. /\ page.value.seed \in Number
          /\ \E n \in Nat : \E e : page.value.entries = [i \in 1 .. n |-> e[i]]
          /\ page.value = [seed |-> page.value.seed, entries |-> page.value.entries]
          /\ Spells(files[path], WriteRecording(page.value))
      BY <1>2, <3>2, RecordingSpelt
    <3> DEFINE value == page.value
    <3> HIDE DEF page
    <3>4. PICK n \in Nat : \E e : value.entries = [i \in 1 .. n |-> e[i]]
      BY <3>3
    <3>5. PICK e : value.entries = [i \in 1 .. n |-> e[i]]
      BY <3>4
    <3>6. value.entries = entries
      <4> HIDE DEF value
      <4>1. FirstDivergence(value.entries, entries, 2) = {}
        BY <3>1 DEF value
      <4> QED
        BY <2>3, <3>5, <4>1, NothingParted
    <3>7. value = [seed |-> value.seed, entries |-> known'[ExchangeOf(value.seed)]]
      BY <2>3, <3>3, <3>6
    <3> HIDE DEF value
    <3>8. ExchangeOf(value.seed) \in DOMAIN known'
      BY <2>3 DEF value
    <3>9. value.seed \in Number /\ Spells(files[path], WriteRecording(value))
      BY <3>3 DEF value
    <3> QED
      BY <3>7, <3>8, <3>9 DEF OfARecording
  <2>6. "replay" \notin TraceReaders
    BY DEF TraceReaders
  <2>7. AnswersRight("replay", files[path], result)
    BY <2>5, <2>6 DEF AnswersRight
  <2> QED
    BY <2>2, <2>7, TellsRight
<1> QED
  BY <1>1, <1>2

\* A trace that is run again to the same steps is what is written of that run.
LEMMA LoadedIsATrace ==
    ASSUME Kept, NEW path \in Path, NEW loaded \in Load(path), loaded.wrong = {}
    PROVE  /\ OfATrace(loaded.known, files[path])
           /\ \A i \in DOMAIN loaded.trace.steps :
                 HasLine(files[path], <<"step", Written(i - 1)>> \o WriteStep(loaded.trace.steps[i]))
<1> DEFINE page == ReadTrace(files[path])
           traced == page.value
<1>0. WellKnown(known) /\ files[path] \in Seq(Seq(Token \cup Garble))
  BY DEF Kept, Texts
<1>1. IsRead(page)
  <2> SUFFICES ASSUME ~ IsRead(page) PROVE FALSE
    OBVIOUS
  <2>1. loaded = [trace |-> <<>>, wrong |-> {Complaint(page)}, known |-> known]
    BY DEF Load
  <2> QED
    BY <2>1
<1>2. PICK plain \in Comes(known, RingOf(traced.seed, <<>>)) :
        \E steps \in Comes(Knowing(known, RingOf(traced.seed, <<>>), plain), Reran(traced)) :
           loaded = [trace |-> traced,
                     wrong |-> FirstDivergence(traced.steps, steps, FirstLine(traced)),
                     known |-> Knowing(Knowing(known, RingOf(traced.seed, <<>>), plain),
                                       Reran(traced), steps)]
  BY <1>1 DEF Load
<1>3. PICK steps \in Comes(Knowing(known, RingOf(traced.seed, <<>>), plain), Reran(traced)) :
        loaded = [trace |-> traced,
                  wrong |-> FirstDivergence(traced.steps, steps, FirstLine(traced)),
                  known |-> Knowing(Knowing(known, RingOf(traced.seed, <<>>), plain),
                                    Reran(traced), steps)]
  BY <1>2
<1>4. /\ \E n \in Nat : \E e : traced.steps = [i \in 1 .. n |-> e[i]]
      /\ traced = [seed |-> traced.seed, fork |-> traced.fork, steps |-> traced.steps]
      /\ Spells(files[path], WriteTrace(traced))
      /\ \A i \in DOMAIN traced.steps : \E line \in Range(files[path]) :
            SpellsLine(line, <<"step", Written(i - 1)>> \o WriteStep(traced.steps[i]))
  <2>1. \E n \in Nat : \E e : traced.steps = [i \in 1 .. n |-> e[i]]
    BY <1>0, <1>1, TraceRead
  <2> QED
    BY <1>0, <1>1, <2>1, TraceSpelt
<1> HIDE DEF page
<1>5. /\ loaded.trace = traced
      /\ loaded.wrong = FirstDivergence(traced.steps, steps, FirstLine(traced))
      /\ loaded.known = Knowing(Knowing(known, RingOf(traced.seed, <<>>), plain),
                                Reran(traced), steps)
  BY <1>3
<1>6. steps \in Seq(TraceStep)
  <2>1. steps \in Steps
    BY <1>0, RunsOfTraces DEF Reran
  <2> QED
    BY <2>1 DEF Steps
<1>7. traced.steps = steps
  <2>1. PICK n \in Nat : \E e : traced.steps = [i \in 1 .. n |-> e[i]]
    BY <1>4
  <2>2. PICK e : traced.steps = [i \in 1 .. n |-> e[i]]
    BY <2>1
  <2> DEFINE first == FirstLine(traced)
  <2> HIDE DEF first, traced
  <2>3. FirstDivergence(traced.steps, steps, first) = {}
    BY <1>5 DEF first
  <2> QED
    BY <1>6, <2>2, <2>3, NothingParted
<1> DEFINE run == Reran(traced)
<1>8. run \in DOMAIN loaded.known /\ loaded.known[run] = steps
  <2>1. \A memory, r, came : r \in DOMAIN Knowing(memory, r, came) /\ Knowing(memory, r, came)[r] = came
    BY DEF Knowing
  <2> QED
    BY <1>5, <2>1
<1>9. run[1] = "ring" /\ run[2] = traced.seed /\ run[3] = traced.fork
  BY DEF Reran, RingOf
<1> HIDE DEF run, traced
<1>10. traced = [seed |-> run[2], fork |-> run[3], steps |-> loaded.known[run]]
  BY <1>4, <1>7, <1>8, <1>9
<1>11. OfATrace(loaded.known, files[path])
  BY <1>4, <1>8, <1>9, <1>10 DEF OfATrace
<1> QED
  BY <1>4, <1>5, <1>11 DEF HasLine

\* A complaint that is made is one of those there are.
LEMMA AnswerComplains ==
    ASSUME NEW c, c # {}, NEW news
    PROVE  Answer(<<c>>, news) \in c
<1> DEFINE complaints == <<c>>
           due == {i \in DOMAIN complaints : complaints[i] # {}}
<1>1. DOMAIN complaints = {1} /\ complaints[1] = c
  OBVIOUS
<1> HIDE DEF complaints
<1>2. due = {1} /\ ~ \A i \in DOMAIN complaints : complaints[i] = {}
  BY <1>1
<1>3. Min({1}) = 1
  BY SmallestIs
<1>4. Answer(complaints, news) = CHOOSE d \in complaints[Min(due)] : TRUE
  BY <1>2 DEF Answer
<1>5. Answer(complaints, news) \in c
  <2> HIDE DEF due
  <2> QED
    BY <1>1, <1>2, <1>3, <1>4
<1> QED
  BY <1>5 DEF complaints

\* Nothing good is said of a trace that could not be had.
LEMMA NothingGood ==
    ASSUME NEW path, NEW loaded \in Load(path), loaded.wrong # {}, NEW news
    PROVE  Answer(<<loaded.wrong>>, news).is # "good"
<1>1. Answer(<<loaded.wrong>>, news) \in loaded.wrong
  BY AnswerComplains
<1> QED
  BY <1>1, LoadComplains

LEMMA InspectAnswers ==
    ASSUME Kept, NEW path \in Path, NEW n \in Number, Inspect(path, n)
    PROVE  AnswersAreOfThePage'
<1>1. PICK loaded \in Load(path) :
        /\ known' = loaded.known
        /\ Tells("inspect", path,
                 IF loaded.wrong # {} THEN Answer(<<loaded.wrong>>, <<>>)
                 ELSE IF Unreached(loaded.trace, n) # {}
                 THEN Answer(<<Unreached(loaded.trace, n)>>, <<>>)
                 ELSE Answer(<<Missing(loaded.trace, n)>>,
                             <<<<"step", Written(n)>> \o WriteStep(loaded.trace.steps[n + 1])>>))
  BY DEF Inspect
<1> DEFINE traced == loaded.trace
           written == <<"step", Written(n)>> \o WriteStep(traced.steps[n + 1])
           result == IF loaded.wrong # {} THEN Answer(<<loaded.wrong>>, <<>>)
                     ELSE IF Unreached(traced, n) # {} THEN Answer(<<Unreached(traced, n)>>, <<>>)
                     ELSE Answer(<<Missing(traced, n)>>, <<written>>)
<1>2. Tells("inspect", path, result)
  BY <1>1
<1>3. ASSUME result.is = "good"
      PROVE  OfATrace(known', files[path]) /\ HasLine(files[path], result.news[1])
  <2>1. loaded.wrong = {}
    BY <1>3, NothingGood
  <2>2. OfATrace(known', files[path])
    BY <1>1, <2>1, LoadedIsATrace
  <2>3. traced.steps \in Steps
    BY <2>1, LoadFacts
  <2> HIDE DEF written
  <2>4. Unreached(traced, n) = {}
    <3> SUFFICES ASSUME Unreached(traced, n) # {} PROVE FALSE
      OBVIOUS
    <3>1. Unreached(traced, n) = {Bad("Unreached", 0)}
      BY <2>3, NoneMissing
    <3>2. result = Bad("Unreached", 0)
      BY <2>1, <3>1, OneComplaint
    <3> QED
      BY <1>3, <3>2, GoodAndBad
  <2>5. Missing(traced, n) = {} /\ n + 1 \in DOMAIN traced.steps
    BY <2>3, <2>4, NoneMissing
  <2>6. result = Good(<<written>>)
    BY <2>1, <2>4, <2>5, OneComplaint
  <2>7. HasLine(files[path], written)
    <3>1. PICK k : k = n + 1 /\ k - 1 = n
      BY DEF Number
    <3>2. k \in DOMAIN traced.steps
      BY <2>5, <3>1
    <3>3. HasLine(files[path], <<"step", Written(k - 1)>> \o WriteStep(traced.steps[k]))
      BY <2>1, <3>2, LoadedIsATrace
    <3> QED
      BY <3>1, <3>3 DEF written
  <2>8. result.news[1] = written
    BY <2>6, GoodAndBad
  <2> QED
    BY <2>2, <2>7, <2>8
<1> HIDE DEF result
<1>4. AnswersRight("inspect", files[path], result)
  BY <1>3 DEF AnswersRight
<1> QED
  BY <1>2, <1>4, TellsRight

LEMMA DiffAnswers ==
    ASSUME Kept, NEW path \in Path, NEW n, NEW m, Diff(path, n, m)
    PROVE  AnswersAreOfThePage'
<1>1. PICK loaded \in Load(path) :
        /\ known' = loaded.known
        /\ \E result :
              /\ loaded.wrong # {} => result = Answer(<<loaded.wrong>>, <<>>)
              /\ Tells("diff", path, result)
  BY DEF Diff
<1>2. PICK result : /\ loaded.wrong # {} => result = Answer(<<loaded.wrong>>, <<>>)
                    /\ Tells("diff", path, result)
  BY <1>1
<1>3. ASSUME result.is = "good" PROVE OfATrace(known', files[path])
  BY <1>1, <1>2, <1>3, NothingGood, LoadedIsATrace
<1>4. AnswersRight("diff", files[path], result)
  BY <1>3 DEF AnswersRight
<1> QED
  BY <1>2, <1>4, TellsRight

LEMMA ForkAnswers ==
    ASSUME Kept, NEW path \in Path, NEW n, NEW s, NEW to, Fork(path, n, s, to)
    PROVE  AnswersAreOfThePage'
<1>1. to # path /\ files \in [Path -> Texts] /\ WellKnown(known)
  BY DEF Fork, Kept
<1>2. PICK loaded \in Load(path) :
        IF loaded.wrong # {} \/ Len(loaded.trace.fork) > 0 \/ n >= Len(loaded.trace.steps)
        THEN /\ known' = loaded.known
             /\ Writes("fork", path,
                       IF loaded.wrong # {} THEN Answer(<<loaded.wrong>>, <<>>)
                       ELSE IF Len(loaded.trace.fork) > 0 THEN Bad("AlreadyForked", 0)
                       ELSE Bad("Unreached", 0), "trace", <<>>, to)
        ELSE LET run == RingOf(loaded.trace.seed, <<ForkOf(loaded.trace, n, s)>>) IN
             \E steps \in Comes(loaded.known, run) :
                /\ known' = Knowing(loaded.known, run, steps)
                /\ Writes("fork", path, Good(<<>>), "trace",
                          [seed |-> loaded.trace.seed, fork |-> run[3], steps |-> steps], to)
  BY DEF Fork
<1> DEFINE forked == Len(loaded.trace.fork) > 0
           reached == ~ n >= Len(loaded.trace.steps)
<1>3. CASE loaded.wrong # {} \/ forked \/ ~ reached
  <2> DEFINE result == IF loaded.wrong # {} THEN Answer(<<loaded.wrong>>, <<>>)
                       ELSE IF forked THEN Bad("AlreadyForked", 0) ELSE Bad("Unreached", 0)
  <2>1. Writes("fork", path, result, "trace", <<>>, to)
    BY <1>2, <1>3
  <2>2. result.is # "good"
    <3>1. CASE loaded.wrong # {}
      BY <3>1, NothingGood
    <3>2. CASE loaded.wrong = {}
      BY <3>2, GoodAndBad
    <3> QED
      BY <3>1, <3>2
  <2> HIDE DEF result
  <2>3. AnswersRight("fork", files[path], result)
    BY <2>2 DEF AnswersRight
  <2> QED
    BY <1>1, <2>1, <2>3, WritesRight
<1>4. CASE ~ (loaded.wrong # {} \/ forked \/ ~ reached)
  <2> DEFINE run == RingOf(loaded.trace.seed, <<ForkOf(loaded.trace, n, s)>>)
  <2>1. PICK steps \in Comes(loaded.known, run) :
          /\ known' = Knowing(loaded.known, run, steps)
          /\ Writes("fork", path, Good(<<>>), "trace",
                    [seed |-> loaded.trace.seed, fork |-> run[3], steps |-> steps], to)
    BY <1>2, <1>4
  <2>2. WellKnown(loaded.known) /\ RingOf(loaded.trace.seed, <<>>) \in DOMAIN loaded.known
    BY <1>4, LoadFacts
  <2>3. Askable(loaded.known, run)
    BY <2>2, Askables
  <2> DEFINE value == [seed |-> loaded.trace.seed, fork |-> run[3], steps |-> steps]
  <2> HIDE DEF run, value
  <2>4. Grown(loaded.known, known')
    BY <2>1, <2>2, <2>3, Learns
  <2>5. OfATrace(loaded.known, files[path])
    BY <1>4, LoadedIsATrace
  <2>6. OfATrace(known', files[path])
    BY <2>4, <2>5, StaysATrace
  <2>7. AnswersRight("fork", files[path], Good(<<>>))
    BY <2>6 DEF AnswersRight
  <2>8. Writes("fork", path, Good(<<>>), "trace", value, to)
    BY <2>1 DEF value
  <2> QED
    BY <1>1, <2>7, <2>8, WritesRight
<1> QED
  BY <1>3, <1>4

--------------------------------------------------------------------------------
(* The commands that say nothing of a recording or a trace, and any run of them all. *)

LEMMA ReducedSays ==
    ASSUME NEW command, NEW path, NEW system, NEW s, NEW schedule, NEW to,
           Reduced(command, path, system, s, schedule, to)
    PROVE  said'.command = command
<1>1. \/ Crashes(command, path)
      \/ \E result, form, value : Writes(command, path, result, form, value, to)
  BY DEF Reduced
<1> QED
  BY <1>1, SaysItsName

LEMMA VerdictSays ==
    ASSUME NEW command, NEW path, NEW outcome, NEW wanted, NEW otherwise,
           Verdict(command, path, outcome, wanted, otherwise)
    PROVE  said'.command = command
<1>1. Crashes(command, path) \/ \E result : Tells(command, path, result)
  BY DEF Verdict
<1> QED
  BY <1>1, SaysItsName

LEMMA MakersAnswer ==
    ASSUME NEW s, NEW path, NEW to,
           \/ RunSeed(s, to) \/ TraceSeed(s, to) \/ ShrinkFaults(s, path, to) \/ Corner(s, to)
           \/ Check(s, path) \/ Reproduce(path)
    PROVE  AnswersAreOfThePage'
<1>1. CASE RunSeed(s, to)
  <2>1. \E result, form, value : Writes("run", to, result, form, value, to)
    BY <1>1 DEF RunSeed
  <2> QED
    BY <2>1, SaysItsName, OthersAnswer
<1>2. CASE TraceSeed(s, to)
  <2>1. \E result, form, value : Writes("trace", to, result, form, value, to)
    BY <1>2 DEF TraceSeed
  <2> QED
    BY <2>1, SaysItsName, OthersAnswer
<1>3. CASE ShrinkFaults(s, path, to)
  <2>1. \/ \E schedule : Reduced("shrink", path, "quorum", s, schedule, to)
        \/ \E result, form, value : Writes("shrink", path, result, form, value, to)
    BY <1>3 DEF ShrinkFaults
  <2> QED
    BY <2>1, SaysItsName, ReducedSays, OthersAnswer
<1>4. CASE Corner(s, to)
  <2>1. Reduced("corner", to, "reconciler", s, DrawnFor(s), to)
    BY <1>4 DEF Corner
  <2> QED
    BY <2>1, ReducedSays, OthersAnswer
<1>5. CASE Check(s, path)
  <2>1. \/ \E result : Tells("check", path, result)
        \/ \E outcome, wanted, otherwise : Verdict("check", path, outcome, wanted, otherwise)
    BY <1>5 DEF Check
  <2> QED
    BY <2>1, SaysItsName, VerdictSays, OthersAnswer
<1>6. CASE Reproduce(path)
  <2>1. \/ \E result : Tells("reproduce", path, result)
        \/ \E outcome, wanted, otherwise : Verdict("reproduce", path, outcome, wanted, otherwise)
    BY <1>6 DEF Reproduce
  <2> QED
    BY <2>1, SaysItsName, VerdictSays, OthersAnswer
<1> QED
  BY <1>1, <1>2, <1>3, <1>4, <1>5, <1>6

LEMMA SweepsAnswer ==
    ASSUME Commanding,
           SweepSeeds \/ HuntSeeds \/ SweepEnds \/ (\E text : Mistype(text)) \/ Rebuild
             \/ \E path \in Path : Harm(path)
    PROVE  AnswersAreOfThePage'
<1>1. CASE SweepSeeds
  <2>1. said'.command = "sweep"
    BY <1>1 DEF SweepSeeds, BeginSweep
  <2> QED
    BY <2>1, OthersAnswer
<1>2. CASE HuntSeeds
  <2>1. said'.command = "hunt"
    BY <1>2 DEF HuntSeeds, BeginSweep
  <2> QED
    BY <2>1, OthersAnswer
<1>3. CASE SweepEnds
  <2>1. said'.command \in {"sweep", "hunt"}
    BY <1>3, SweepEndsWell DEF Sweeps
  <2> QED
    BY <2>1, OthersAnswer
<1>4. CASE \E text : Mistype(text)
  <2>1. said'.command = "refused"
    BY <1>4 DEF Mistype
  <2> QED
    BY <2>1, OthersAnswer
<1>5. CASE Rebuild \/ \E path \in Path : Harm(path)
  <2>1. said'.command = "none"
    BY <1>5 DEF Rebuild, Harm, Quiet
  <2> QED
    BY <2>1, OthersAnswer
<1> QED
  BY <1>1, <1>2, <1>3, <1>4, <1>5

LEMMA CommandStepAnswers ==
    Commanding /\ Kept /\ AnswersAreOfThePage /\ [CommandNext]_allVars => AnswersAreOfThePage'
<1> SUFFICES ASSUME Commanding, Kept, AnswersAreOfThePage, [CommandNext]_allVars
             PROVE  AnswersAreOfThePage'
  OBVIOUS
<1>1. TypedNumbers \subseteq Number /\ Pages \subseteq Path /\ "faults" \in Path
      /\ "page" \in Path /\ "other" \in Path
  BY TypedAreNumbers, PagesArePaths DEF Pages
<1>2. CASE WhileSweeping \/ UNCHANGED allVars
  <2>1. UNCHANGED <<files, said, known>>
    BY <1>2 DEF WhileSweeping, commandVars, allVars
  <2> QED
    BY <2>1 DEF AnswersAreOfThePage, AnsweredWell, Answered
<1>3. ASSUME NEW path \in Pages, NEW n \in TypedNumbers,
             \/ Inspect(path, n)
             \/ \E m \in TypedNumbers : Diff(path, n, m)
             \/ \E s \in SeedsTyped : Fork(path, n, s, "other")
      PROVE  AnswersAreOfThePage'
  <2>1. path \in Path /\ n \in Number
    BY <1>1
  <2> QED
    BY <1>3, <2>1, InspectAnswers, DiffAnswers, ForkAnswers
<1>4. ASSUME NEW path \in Pages, Replay(path) PROVE AnswersAreOfThePage'
  <2>1. path \in Path
    BY <1>1
  <2> QED
    BY <1>4, <2>1, ReplayAnswers
<1>5. CASE SweepSeeds \/ HuntSeeds \/ SweepEnds \/ (\E text \in Typable : Mistype(text)) \/ Rebuild
             \/ Harm("faults") \/ Harm("page") \/ Harm("other")
  BY <1>1, <1>5, SweepsAnswer
<1>6. ASSUME NEW s,
             \/ RunSeed(s, "page") \/ TraceSeed(s, "page") \/ ShrinkFaults(s, "faults", "page")
             \/ Corner(s, "page") \/ Check(s, "faults")
      PROVE  AnswersAreOfThePage'
  BY <1>6, MakersAnswer
<1>7. ASSUME NEW path, Reproduce(path) PROVE AnswersAreOfThePage'
  BY <1>7, MakersAnswer
<1>8. CASE CommandNext
  BY <1>2, <1>3, <1>4, <1>5, <1>6, <1>7, <1>8 DEF CommandNext
<1> QED
  BY <1>2, <1>8

\* A good answer about a recording or a trace is about a page this very program would write of
\* a run it made, token for token but for zeros before a number, whatever befell the file and
\* whatever was built since (`first_divergence`, `Loaded::parse`, and the readers of the two
\* forms): what they let through is what the writers write.
THEOREM AnswersAreTrue == CommandSpec => []AnswersAreOfThePage
<1>1. CLInv => Commanding
  BY DEF CLInv
<1>2. CommandInit => AnswersAreOfThePage
  BY DEF CommandInit, AnswersAreOfThePage, AnsweredWell, Answered, Quiet, TraceReaders
<1>3. CLInv /\ Kept /\ ReadsBackWhatWasWritten /\ AnswersAreOfThePage /\ [CommandNext]_allVars
        => Kept' /\ ReadsBackWhatWasWritten' /\ AnswersAreOfThePage'
  BY <1>1, CommandStepReads, CommandStepAnswers
<1> QED
  BY <1>2, <1>3, CommandsKeep, KeptAtFirst, PTL DEF CommandSpec

--------------------------------------------------------------------------------
(* The checking of a trace. *)

\* When the promise an invariant failed at step n runs out.
Due(i, n) == trace[n].at + Kinds[i].within

InOrder == \A m, n \in DOMAIN trace : m <= n => trace[m].at <= trace[n].at

\* Nothing has been broken, and the last state is a good one.
Untroubled(i) ==
    /\ Unkept(i) = {}
    /\ trace # <<>> => i \in trace[Len(trace)].good

\* The stretch that opened at step n is the only one, it is still open and not too long yet.
Open(i, n) ==
    /\ Kinds[i].kind = "liveness"
    /\ Unkept(i) = {n}
    /\ i \notin trace[Len(trace)].good
    /\ trace[Len(trace)].at <= Due(i, n)

\* Step n broke the promise before any other did, and nothing later can mend that.
Settled(i, n) ==
    /\ n \in Unkept(i) /\ \A m \in Unkept(i) : n <= m
    /\ Kinds[i].kind = "liveness" => trace[Len(trace)].at > Due(i, n)

\* A watch says what the steps read so far come to.
Stands(i) ==
    \/ watches[i] = Holding /\ Untroubled(i)
    \/ \E n \in DOMAIN trace :
          /\ watches[i] = Down(CheckedAdd(trace[n].at, Kinds[i].within))
          /\ Open(i, n)
    \/ \E n \in DOMAIN trace : watches[i] = BrokenAt(Standing(i, n)) /\ Settled(i, n)

Judged ==
    /\ trace \in Seq(Step) /\ InOrder
    /\ \A i \in Invariant : Stands(i)
    /\ ReportsEveryFirstBreach

--------------------------------------------------------------------------------
(* The operators the model is built from. *)

LEMMA KindFacts ==
    ASSUME NEW i \in Invariant
    PROVE  /\ Kinds[i].kind = "safety" \/ Kinds[i].kind = "liveness"
           /\ Kinds[i].kind = "liveness" => Kinds[i].within \in Nat
<1>1. Kinds[i] \in Kind
  BY InvariantsAssumption DEF Invariant
<1> QED
  BY <1>1 DEF Kind

LEMMA StepFacts ==
    ASSUME NEW step \in Step
    PROVE  step.at \in Nat /\ step.at <= MaxTime
BY MaxTimeAssumption DEF Step, Instant

\* The instant and the numbers of the steps read so far.
LEMMA ReadFacts ==
    ASSUME trace \in Seq(Step)
    PROVE  /\ Len(trace) \in Nat /\ DOMAIN trace = 1 .. Len(trace)
           /\ trace # <<>> => Len(trace) \in DOMAIN trace
           /\ trace = <<>> => Len(trace) = 0
           /\ \A n \in DOMAIN trace : trace[n].at \in Nat /\ trace[n].at <= MaxTime
<1>1. Len(trace) \in Nat /\ DOMAIN trace = 1 .. Len(trace)
  OBVIOUS
<1>2. (trace # <<>> => Len(trace) \in DOMAIN trace) /\ (trace = <<>> => Len(trace) = 0)
  OBVIOUS
<1>3. ASSUME NEW n \in DOMAIN trace PROVE trace[n].at \in Nat /\ trace[n].at <= MaxTime
  <2>1. trace[n] \in Step
    OBVIOUS
  <2> QED
    BY <2>1, StepFacts
<1> QED
  BY <1>1, <1>2, <1>3

LEMMA GreatestIs ==
    ASSUME NEW S \in SUBSET Nat, NEW n \in S, \A m \in S : m <= n
    PROVE  Max(S) = n
<1>1. \E x \in S : \A y \in S : x >= y
  OBVIOUS
<1>2. Max(S) \in S /\ \A y \in S : Max(S) >= y
  BY <1>1 DEF Max
<1>3. Max(S) >= n /\ n >= Max(S) /\ Max(S) \in Nat /\ n \in Nat
  BY <1>2
<1> QED
  BY <1>3

\* A deadline that is not there lies past the end of time.
LEMMA PassedIsDue ==
    ASSUME NEW i, NEW from \in Nat, NEW within \in Nat, NEW at \in Nat, at <= MaxTime,
           NEW watch, watch = Down(CheckedAdd(from, within))
    PROVE  Passed(watch, at) <=> at > from + within
<1>1. watch.is = "down" /\ watch.deadline = CheckedAdd(from, within)
  BY DEF Down
<1>2. from + within \in Nat /\ (from + within \in Instant <=> from + within <= MaxTime)
  BY MaxTimeAssumption DEF Instant
<1>3. MaxTime \in Nat
  BY MaxTimeAssumption
<1>4. CASE from + within <= MaxTime
  <2>1. watch.deadline = {from + within}
    BY <1>1, <1>2, <1>4 DEF CheckedAdd
  <2> QED
    BY <1>1, <2>1 DEF Passed
<1>5. CASE ~ (from + within <= MaxTime)
  <2>1. watch.deadline = {}
    BY <1>1, <1>2, <1>5 DEF CheckedAdd
  <2>2. ~ (at > from + within)
    BY <1>2, <1>3, <1>5
  <2> QED
    BY <1>1, <2>1, <2>2 DEF Passed
<1> QED
  BY <1>4, <1>5

\* What a watch is at.
LEMMA WatchFacts ==
    ASSUME NEW watch
    PROVE  /\ watch = Holding => watch.is = "holding"
           /\ \A d : watch = Down(d) => watch.is = "down" /\ watch.deadline = d
           /\ \A s : watch = BrokenAt(s) => watch.is = "broken" /\ watch.step = s
BY DEF Holding, Down, BrokenAt

--------------------------------------------------------------------------------
(* One more step. *)

\* A step is appended to a trace in the order of its steps.
LEMMA TraceGrows ==
    ASSUME trace \in Seq(Step), InOrder, NEW step \in Step, trace' = Append(trace, step),
           trace # <<>> => step.at >= Last(trace).at
    PROVE  /\ trace' \in Seq(Step) /\ InOrder'
           /\ Len(trace') = Len(trace) + 1 /\ DOMAIN trace' = 1 .. Len(trace) + 1
           /\ trace'[Len(trace')] = step /\ trace' # <<>>
           /\ \A n \in DOMAIN trace : trace'[n] = trace[n] /\ trace[n].at <= step.at
<1>1. /\ trace' \in Seq(Step)
      /\ Len(trace') = Len(trace) + 1 /\ DOMAIN trace' = 1 .. Len(trace) + 1
      /\ trace'[Len(trace')] = step /\ trace' # <<>>
  OBVIOUS
<1>2. ASSUME NEW n \in DOMAIN trace PROVE trace'[n] = trace[n]
  OBVIOUS
<1>3. ASSUME NEW n \in DOMAIN trace PROVE trace[n].at <= step.at
  <2>1. trace # <<>> /\ Len(trace) \in DOMAIN trace /\ n <= Len(trace)
    OBVIOUS
  <2>2. Last(trace) = trace[Len(trace)]
    BY DEF Last
  <2>3. trace[n].at <= trace[Len(trace)].at /\ trace[Len(trace)].at <= step.at
    BY <2>1, <2>2, StepFacts, ReadFacts DEF InOrder
  <2> QED
    BY <2>1, <2>3, StepFacts, ReadFacts
<1>4. ASSUME NEW m \in DOMAIN trace', NEW n \in DOMAIN trace', m <= n
      PROVE  trace'[m].at <= trace'[n].at
  <2>1. step.at <= step.at
    BY StepFacts
  <2>2. CASE m \in DOMAIN trace /\ n \in DOMAIN trace
    BY <1>2, <1>4, <2>2 DEF InOrder
  <2>3. CASE m \in DOMAIN trace /\ n = Len(trace')
    BY <1>1, <1>2, <1>3, <2>3
  <2>4. CASE m = Len(trace') /\ n = Len(trace')
    BY <1>1, <2>1, <2>4
  <2>5. (m \in DOMAIN trace \/ m = Len(trace')) /\ (n \in DOMAIN trace \/ n = Len(trace'))
    BY <1>1, ReadFacts
  <2>6. ~ (m = Len(trace') /\ n \in DOMAIN trace)
    BY <1>1, <1>4, ReadFacts
  <2> QED
    BY <2>2, <2>3, <2>4, <2>5, <2>6
<1>5. InOrder'
  BY <1>4 DEF InOrder
<1> QED
  BY <1>1, <1>2, <1>3, <1>5

\* What becomes of the promises made so far, and what the new step adds.
LEMMA UnkeptGrows ==
    ASSUME trace \in Seq(Step), InOrder, NEW step \in Step, trace' = Append(trace, step),
           trace # <<>> => step.at >= Last(trace).at,
           NEW i \in Invariant
    PROVE  /\ Unkept(i)' \subseteq DOMAIN trace \cup {Len(trace')}
           /\ \A n \in DOMAIN trace :
                 n \in Unkept(i)' <=>
                    /\ n \in Unkept(i)
                    /\ Kinds[i].kind = "safety" \/ ~ (i \in step.good /\ step.at <= Due(i, n))
           /\ Len(trace') \in Unkept(i)' <=>
                 /\ i \notin step.good
                 /\ \/ Kinds[i].kind = "safety" \/ trace = <<>>
                    \/ i \in trace[Len(trace)].good
<1> DEFINE len == Len(trace)
<1>1. /\ len \in Nat /\ DOMAIN trace = 1 .. len
      /\ Len(trace') = len + 1 /\ DOMAIN trace' = 1 .. len + 1 /\ trace'[len + 1] = step
      /\ \A n \in 1 .. len : trace'[n] = trace[n]
      /\ trace = <<>> <=> len = 0
  BY TraceGrows, ReadFacts
<1> HIDE DEF len
<1>2. Unkept(i)' = {n \in DOMAIN trace' :
         IF Kinds[i].kind = "safety" THEN i \notin trace'[n].good
         ELSE /\ i \notin trace'[n].good /\ (n > 1 => i \in trace'[n - 1].good)
              /\ ~ \E m \in n + 1 .. Len(trace') :
                      /\ i \in trace'[m].good
                      /\ trace'[m].at <= trace'[n].at + Kinds[i].within}
  BY DEF Unkept, Opening, HoldsAgainBy
<1>3. Unkept(i) = {n \in DOMAIN trace :
         IF Kinds[i].kind = "safety" THEN i \notin trace[n].good
         ELSE /\ i \notin trace[n].good /\ (n > 1 => i \in trace[n - 1].good)
              /\ ~ \E m \in n + 1 .. Len(trace) :
                      /\ i \in trace[m].good
                      /\ trace[m].at <= trace[n].at + Kinds[i].within}
  BY DEF Unkept, Opening, HoldsAgainBy
<1>4. Unkept(i)' \subseteq DOMAIN trace \cup {Len(trace')}
  <2>1. Unkept(i)' \subseteq 1 .. len + 1
    BY <1>1, <1>2
  <2> QED
    BY <1>1, <2>1
<1>5. ASSUME NEW n \in DOMAIN trace
      PROVE  n \in Unkept(i)' <=>
                /\ n \in Unkept(i)
                /\ Kinds[i].kind = "safety" \/ ~ (i \in step.good /\ step.at <= Due(i, n))
  <2>1. n \in 1 .. len /\ n \in 1 .. len + 1 /\ trace'[n] = trace[n]
    BY <1>1
  <2>2. CASE Kinds[i].kind = "safety"
    BY <1>1, <1>2, <1>3, <2>1, <2>2
  <2>3. CASE Kinds[i].kind # "safety"
    <3>1. n > 1 => trace'[n - 1] = trace[n - 1]
      <4>1. n > 1 => n - 1 \in 1 .. len
        BY <1>1, <2>1
      <4> QED
        BY <1>1, <4>1
    <3>2. ASSUME NEW bound
          PROVE  (\E m \in n + 1 .. len + 1 : i \in trace'[m].good /\ trace'[m].at <= bound) <=>
                    \/ \E m \in n + 1 .. len : i \in trace[m].good /\ trace[m].at <= bound
                    \/ i \in step.good /\ step.at <= bound
      <4>1. \A m \in n + 1 .. len + 1 : m \in n + 1 .. len \/ m = len + 1
        BY <1>1, <2>1
      <4>2. /\ \A m \in n + 1 .. len : m \in n + 1 .. len + 1 /\ m \in 1 .. len
            /\ len + 1 \in n + 1 .. len + 1
        BY <1>1, <2>1
      <4>3. \A m \in n + 1 .. len : trace'[m] = trace[m]
        BY <1>1, <4>2
      <4> QED
        BY <1>1, <4>1, <4>2, <4>3
    <3>3. (\E m \in n + 1 .. Len(trace') :
              i \in trace'[m].good /\ trace'[m].at <= trace'[n].at + Kinds[i].within) <=>
             \/ \E m \in n + 1 .. Len(trace) :
                   i \in trace[m].good /\ trace[m].at <= trace[n].at + Kinds[i].within
             \/ i \in step.good /\ step.at <= trace[n].at + Kinds[i].within
      BY <1>1, <2>1, <3>2 DEF len
    <3>4. n \in DOMAIN trace'
      BY <1>1, <2>1
    <3> QED
      BY <1>2, <1>3, <2>1, <2>3, <3>1, <3>3, <3>4 DEF Due
  <2> QED
    BY <2>2, <2>3
<1>6. Len(trace') \in Unkept(i)' <=>
         /\ i \notin step.good
         /\ Kinds[i].kind = "safety" \/ trace = <<>> \/ i \in trace[Len(trace)].good
  <2>1. len + 1 \in DOMAIN trace' /\ (len + 1) + 1 .. len + 1 = {} /\ (len + 1) - 1 = len
    BY <1>1
  <2>2. len + 1 > 1 <=> trace # <<>>
    BY <1>1
  <2>3. trace # <<>> => trace'[len] = trace[len]
    BY <1>1
  <2>4. len + 1 \in Unkept(i)' <=>
           IF Kinds[i].kind = "safety" THEN i \notin step.good
           ELSE i \notin step.good /\ (trace # <<>> => i \in trace[len].good)
    BY <1>1, <1>2, <2>1, <2>2, <2>3
  <2> QED
    BY <1>1, <2>4 DEF len
<1> QED
  BY <1>4, <1>5, <1>6

\* The broken invariant of a settled breach is reported where it was before.
LEMMA StandsAsBefore ==
    ASSUME trace \in Seq(Step), InOrder, NEW step \in Step, trace' = Append(trace, step),
           trace # <<>> => step.at >= Last(trace).at,
           NEW i \in Invariant, NEW n \in DOMAIN trace, Settled(i, n)
    PROVE  Settled(i, n)' /\ Standing(i, n)' = Standing(i, n)
<1>1. /\ Len(trace) \in Nat /\ DOMAIN trace = 1 .. Len(trace)
      /\ Len(trace') = Len(trace) + 1 /\ DOMAIN trace' = 1 .. Len(trace) + 1
      /\ trace'[Len(trace')] = step
      /\ \A m \in DOMAIN trace : trace'[m] = trace[m] /\ trace[m].at <= step.at
  BY TraceGrows, ReadFacts
<1>2. n \in Unkept(i) /\ \A m \in Unkept(i) : n <= m
  BY DEF Settled
<1>3. Kinds[i].kind = "liveness" => step.at > Due(i, n)
  <2> SUFFICES ASSUME Kinds[i].kind = "liveness" PROVE step.at > Due(i, n)
    OBVIOUS
  <2>1. trace[Len(trace)].at > Due(i, n) /\ Len(trace) \in DOMAIN trace
    BY <1>1 DEF Settled
  <2>2. /\ trace[Len(trace)].at <= step.at /\ trace[Len(trace)].at \in Nat /\ step.at \in Nat
        /\ Kinds[i].within \in Nat /\ trace[n].at \in Nat
    BY <1>1, <2>1, ReadFacts, StepFacts, KindFacts
  <2> QED
    BY <2>1, <2>2 DEF Due
<1>4. Kinds[i].kind = "safety" \/ ~ (step.at <= Due(i, n))
  <2>1. step.at \in Nat /\ trace[n].at \in Nat
    BY ReadFacts, StepFacts
  <2> QED
    BY <1>3, <2>1, KindFacts DEF Due
<1>5. n \in Unkept(i)'
  BY <1>2, <1>4, UnkeptGrows
<1>6. ASSUME NEW m \in Unkept(i)' PROVE n <= m
  <2>1. m \in DOMAIN trace \/ m = Len(trace) + 1
    BY <1>1, UnkeptGrows
  <2>2. CASE m \in DOMAIN trace
    <3>1. m \in Unkept(i)
      BY <2>2, UnkeptGrows
    <3> QED
      BY <1>2, <3>1
  <2>3. CASE m = Len(trace) + 1
    BY <1>1, <2>3
  <2> QED
    BY <2>1, <2>2, <2>3
<1>7. Due(i, n)' = Due(i, n)
  BY <1>1 DEF Due
<1>8. Settled(i, n)'
  <2>1. Kinds[i].kind = "liveness" => trace'[Len(trace')].at > Due(i, n)'
    BY <1>1, <1>3, <1>7
  <2> QED
    BY <1>5, <1>6, <2>1 DEF Settled
<1>9. Standing(i, n)' = Standing(i, n)
  <2>1. CASE Kinds[i].kind = "safety"
    BY <2>1 DEF Standing
  <2>2. CASE Kinds[i].kind # "safety"
    <3>1. ~ (step.at <= trace[n].at + Kinds[i].within)
      BY <1>4, <2>2 DEF Due
    <3>2. {m \in DOMAIN trace' : trace'[m].at <= trace'[n].at + Kinds[i].within}
            = {m \in DOMAIN trace : trace[m].at <= trace[n].at + Kinds[i].within}
      <4>1. \A m \in DOMAIN trace' : m \in DOMAIN trace \/ m = Len(trace')
        BY <1>1
      <4>2. DOMAIN trace \subseteq DOMAIN trace' /\ trace'[n] = trace[n]
        BY <1>1
      <4> QED
        BY <1>1, <3>1, <4>1, <4>2
    <3> QED
      BY <2>2, <3>2 DEF Standing
  <2> QED
    BY <2>1, <2>2
<1> QED
  BY <1>8, <1>9

\* Where each watch stands after a step that is read.
LEMMA LookStands ==
    ASSUME Judged, NEW step \in Step, trace' = Append(trace, step),
           trace # <<>> => step.at >= Last(trace).at,
           NEW i \in Invariant, watches'[i] = Stepped(i, watches[i], Len(trace'), step)
    PROVE  Stands(i)'
<1> DEFINE len == Len(trace) watch == watches[i] late == Kinds[i].within
<1>1. trace \in Seq(Step) /\ InOrder /\ Stands(i)
  BY DEF Judged
<1>2. /\ len \in Nat /\ DOMAIN trace = 1 .. len
      /\ Len(trace') = len + 1 /\ DOMAIN trace' = 1 .. len + 1 /\ trace' # <<>>
      /\ trace'[Len(trace')] = step
      /\ \A m \in DOMAIN trace : trace'[m] = trace[m] /\ trace[m].at <= step.at
      /\ trace # <<>> <=> len # 0
  BY <1>1, TraceGrows, ReadFacts
<1>3. step.at \in Nat /\ step.at <= MaxTime
  BY StepFacts
<1>4. /\ Unkept(i)' \subseteq DOMAIN trace \cup {Len(trace')}
      /\ \A n \in DOMAIN trace :
            n \in Unkept(i)' <=>
               /\ n \in Unkept(i)
               /\ Kinds[i].kind = "safety" \/ ~ (i \in step.good /\ step.at <= Due(i, n))
      /\ Len(trace') \in Unkept(i)' <=>
            /\ i \notin step.good
            /\ Kinds[i].kind = "safety" \/ trace = <<>> \/ i \in trace[Len(trace)].good
  BY <1>1, UnkeptGrows
<1>5. Kinds[i].kind = "safety" \/ Kinds[i].kind = "liveness"
  BY KindFacts
<1>6. ASSUME watch = Holding, Untroubled(i) PROVE Stands(i)'
  <2>1. Unkept(i) = {} /\ (trace # <<>> => i \in trace[Len(trace)].good) /\ watch.is = "holding"
    BY <1>6, WatchFacts DEF Untroubled
  <2>2. ~ Passed(watch, step.at) /\ watch.is # "broken"
    BY <2>1 DEF Passed
  <2>3. CASE i \in step.good
    <3>1. watches'[i] = Holding
      BY <2>2, <2>3 DEF Stepped
    <3>2. Unkept(i)' = {}
      BY <1>2, <1>4, <2>1, <2>3
    <3> QED
      BY <1>2, <2>3, <3>1, <3>2 DEF Stands, Untroubled
  <2>4. CASE i \notin step.good
    <3>1. watches'[i] = Failing(i, watch, Len(trace'), step.at)
      BY <2>2, <2>4 DEF Stepped
    <3>2. Unkept(i)' = {Len(trace')}
      BY <1>2, <1>4, <2>1, <2>4
    <3>a. PICK last \in Nat : last = Len(trace')
      BY <1>2
    <3>3. last \in DOMAIN trace' /\ Unkept(i)' = {last} /\ trace'[last] = step
      BY <1>2, <3>2, <3>a
    <3>4. CASE Kinds[i].kind = "safety"
      <4>1. watches'[i] = BrokenAt(last)
        BY <3>1, <3>a, <3>4 DEF Failing
      <4>2. Standing(i, last)' = last
        BY <3>4 DEF Standing
      <4>3. last \in Unkept(i)' /\ \A m \in Unkept(i)' : last <= m
        BY <3>3
      <4>4. Settled(i, last)'
        BY <3>4, <4>3 DEF Settled
      <4> QED
        BY <3>3, <4>1, <4>2, <4>4 DEF Stands
    <3>5. CASE Kinds[i].kind = "liveness"
      <4>1. watches'[i] = Down(CheckedAdd(step.at, late))
        BY <2>1, <3>1, <3>5 DEF Failing
      <4>2. trace'[Len(trace')].at <= Due(i, last)'
        BY <1>2, <1>3, <3>3, <3>5, KindFacts DEF Due
      <4>3. Open(i, last)'
        BY <1>2, <2>4, <3>3, <3>5, <4>2 DEF Open
      <4> QED
        BY <1>2, <3>3, <4>1, <4>3 DEF Stands
    <3> QED
      BY <1>5, <3>4, <3>5
  <2> QED
    BY <2>3, <2>4
<1>7. ASSUME NEW n \in DOMAIN trace, watch = Down(CheckedAdd(trace[n].at, late)), Open(i, n)
      PROVE  Stands(i)'
  <2>1. /\ watch.is = "down" /\ Kinds[i].kind = "liveness" /\ Unkept(i) = {n}
        /\ i \notin trace[Len(trace)].good /\ trace[Len(trace)].at <= Due(i, n)
    BY <1>7, WatchFacts DEF Open
  <2>2. /\ late \in Nat /\ trace[n].at \in Nat /\ Due(i, n) = trace[n].at + late
        /\ Due(i, n) \in Nat /\ trace # <<>> /\ n \in Nat /\ n <= len
    BY <1>1, <1>2, <2>1, KindFacts, ReadFacts DEF Due
  <2>3. Passed(watch, step.at) <=> step.at > Due(i, n)
    BY <1>3, <1>7, <2>2, PassedIsDue
  <2>4. Due(i, n)' = Due(i, n) /\ n \in DOMAIN trace' /\ trace'[n] = trace[n]
    BY <1>2 DEF Due
  <2>5. CASE Passed(watch, step.at)
    <3>1. step.at > Due(i, n) /\ ~ (step.at <= Due(i, n))
      BY <1>3, <2>2, <2>3, <2>5
    <3>2. watches'[i] = BrokenAt(Len(trace') - 1)
      BY <2>1, <2>5 DEF Stepped, Overdue
    <3>3. n \in Unkept(i)'
      BY <1>4, <2>1, <3>1
    <3>4. \A m \in Unkept(i)' : n <= m
      BY <1>2, <1>4, <2>1, <2>2
    <3>5. Settled(i, n)'
      BY <1>2, <2>4, <3>1, <3>3, <3>4 DEF Settled
    <3> DEFINE S == {m \in DOMAIN trace' : trace'[m].at <= trace'[n].at + late}
    <3>6. Standing(i, n)' = Max(S)
      BY <2>1 DEF Standing
    <3>7. len \in S /\ S \in SUBSET Nat /\ \A m \in S : m <= len
      <4>1. len \in DOMAIN trace /\ len \in DOMAIN trace'
        BY <1>2, <2>2
      <4>2. trace'[len] = trace[len] /\ trace[len].at <= trace'[n].at + late
        BY <1>2, <2>1, <2>2, <2>4, <4>1
      <4>3. Len(trace') \notin S
        BY <1>2, <2>2, <2>4, <3>1
      <4>4. \A m \in DOMAIN trace' : m \in Nat /\ (m <= len \/ m = Len(trace'))
        BY <1>2
      <4> QED
        BY <4>1, <4>2, <4>3, <4>4
    <3>8. Max(S) = len
      <4> HIDE DEF S
      <4> QED
        BY <3>7, GreatestIs
    <3>9. watches'[i] = BrokenAt(Standing(i, n)')
      <4>1. Len(trace') - 1 = len
        BY <1>2
      <4>2. watches'[i] = BrokenAt(len)
        BY <3>2, <4>1, Zenon
      <4>3. Standing(i, n)' = len
        BY <3>6, <3>8
      <4> QED
        BY <4>2, <4>3, Zenon
    <3> QED
      BY <2>4, <3>5, <3>9 DEF Stands
  <2>6. CASE ~ Passed(watch, step.at) /\ i \in step.good
    <3>1. step.at <= Due(i, n)
      BY <1>3, <2>2, <2>3, <2>6
    <3>2. watches'[i] = Holding
      BY <2>1, <2>6 DEF Stepped
    <3>3. Unkept(i)' = {}
      BY <1>4, <2>1, <2>6, <3>1
    <3> QED
      BY <1>2, <2>6, <3>2, <3>3 DEF Stands, Untroubled
  <2>7. CASE ~ Passed(watch, step.at) /\ i \notin step.good
    <3>1. step.at <= Due(i, n)
      BY <1>3, <2>2, <2>3, <2>7
    <3>2. watches'[i] = watch
      BY <2>1, <2>7 DEF Stepped, Failing
    <3>3. Unkept(i)' = {n}
      BY <1>4, <2>1, <2>2, <2>7
    <3>4. Open(i, n)'
      BY <1>2, <2>1, <2>4, <2>7, <3>1, <3>3 DEF Open
    <3> QED
      BY <1>7, <2>4, <3>2, <3>4 DEF Stands
  <2> QED
    BY <2>5, <2>6, <2>7
<1>8. ASSUME NEW n \in DOMAIN trace, watch = BrokenAt(Standing(i, n)), Settled(i, n)
      PROVE  Stands(i)'
  <2>1. watch.is = "broken"
    BY <1>8, WatchFacts
  <2>2. watches'[i] = watch
    BY <2>1 DEF Stepped
  <2>3. Settled(i, n)' /\ Standing(i, n)' = Standing(i, n)
    BY <1>1, <1>8, StandsAsBefore
  <2>4. n \in DOMAIN trace'
    BY <1>2
  <2> QED
    BY <1>8, <2>2, <2>3, <2>4 DEF Stands
<1> QED
  BY <1>1, <1>6, <1>7, <1>8 DEF Stands

--------------------------------------------------------------------------------
(* The end of the trace. *)

\* What an invariant is reported at, and which invariants are.
LEMMA BreachStands ==
    ASSUME Judged, NEW i \in Invariant
    PROVE  /\ watches[i] # Holding <=> Unkept(i) # {}
           /\ Unkept(i) # {} => Breach(i) = Standing(i, Min(Unkept(i)))
<1>1. trace \in Seq(Step) /\ InOrder /\ Stands(i)
  BY DEF Judged
<1>2. /\ Len(trace) \in Nat /\ DOMAIN trace = 1 .. Len(trace)
      /\ \A n \in DOMAIN trace : trace[n].at \in Nat
      /\ Unkept(i) \in SUBSET Nat
  BY <1>1, ReadFacts DEF Unkept
<1>3. CASE watches[i] = Holding /\ Untroubled(i)
  BY <1>3 DEF Untroubled
<1>4. ASSUME NEW n \in DOMAIN trace, Open(i, n),
             watches[i] = Down(CheckedAdd(trace[n].at, Kinds[i].within))
      PROVE  /\ watches[i] # Holding /\ Unkept(i) # {}
             /\ Breach(i) = Standing(i, Min(Unkept(i)))
  <2>1. /\ watches[i].is = "down" /\ Unkept(i) = {n} /\ Kinds[i].kind = "liveness"
        /\ trace[Len(trace)].at <= trace[n].at + Kinds[i].within
    BY <1>4, WatchFacts DEF Open, Due
  <2>2. Min(Unkept(i)) = n
    <3>1. n \in Nat /\ n \in Unkept(i) /\ \A m \in Unkept(i) : n <= m
      BY <1>2, <2>1
    <3> QED
      BY <1>2, <3>1, SmallestIs
  <2>3. Breach(i) = Len(trace)
    BY <2>1 DEF Breach
  <2> DEFINE S == {m \in DOMAIN trace : trace[m].at <= trace[n].at + Kinds[i].within}
  <2>4. Len(trace) \in S /\ S \in SUBSET Nat /\ \A m \in S : m <= Len(trace)
    BY <1>2, <2>1
  <2>5. Max(S) = Len(trace)
    <3> HIDE DEF S
    <3> QED
      BY <2>4, GreatestIs
  <2>6. Standing(i, n) = Max(S)
    BY <2>1 DEF Standing
  <2>7. watches[i] # Holding
    BY <2>1, WatchFacts
  <2> QED
    BY <2>1, <2>2, <2>3, <2>5, <2>6, <2>7, Zenon
<1>5. ASSUME NEW n \in DOMAIN trace, watches[i] = BrokenAt(Standing(i, n)), Settled(i, n)
      PROVE  /\ watches[i] # Holding /\ Unkept(i) # {}
             /\ Breach(i) = Standing(i, Min(Unkept(i)))
  <2>1. watches[i].is = "broken" /\ watches[i].step = Standing(i, n)
    BY <1>5, WatchFacts
  <2>2. n \in Unkept(i) /\ \A m \in Unkept(i) : n <= m
    BY <1>5 DEF Settled
  <2>3. Min(Unkept(i)) = n
    BY <1>2, <2>2, SmallestIs
  <2>4. Breach(i) = Standing(i, n)
    BY <2>1 DEF Breach
  <2>5. watches[i] # Holding
    BY <2>1, WatchFacts
  <2> QED
    BY <2>2, <2>3, <2>4, <2>5, Zenon
<1> QED
  BY <1>1, <1>3, <1>4, <1>5 DEF Stands

\* The breaches are finitely many, and so the sequence made of them has all of them.
LEMMA ReportHasAll ==
    ASSUME NEW list \in SetToSeqs(Breaches)
    PROVE  ToSet(list) = Breaches
<1> DEFINE Broken == {j \in Invariant : watches[j] # Holding}
           record == [i \in Broken |-> [invariant |-> i, step |-> Breach(i)]]
           D == 1 .. Cardinality(Breaches)
<1>1. IsFiniteSet(Broken)
  <2>1. Len(Kinds) \in Nat /\ Invariant = 1 .. Len(Kinds)
    BY InvariantsAssumption DEF Invariant
  <2>2. IsFiniteSet(Invariant)
    BY <2>1, FS_Interval
  <2> QED
    BY <2>2, FS_Subset
<1>2. record \in Surjection(Broken, Breaches)
  <2>1. Breaches = {record[i] : i \in Broken}
    BY DEF Breaches
  <2>2. record \in [Broken -> Breaches]
    BY <2>1
  <2> HIDE DEF record
  <2> QED
    BY <2>1, <2>2 DEF Surjection
<1>3. IsFiniteSet(Breaches)
  BY <1>1, <1>2, FS_Surjection
<1>4. Cardinality(Breaches) \in Nat
  BY <1>3, FS_CardinalityType
<1>5. IsFiniteSet(D) /\ Cardinality(D) = Cardinality(Breaches)
  BY <1>4, FS_Interval
<1>6. list \in [D -> Breaches] /\ \A k, l \in D : k # l => list[k] # list[l]
  BY DEF SetToSeqs
<1> HIDE DEF D
<1>7. list \in Injection(D, Breaches)
  BY <1>6 DEF Injection, IsInjective
<1>8. list \in Surjection(D, Breaches)
  BY <1>3, <1>5, <1>7, FS_Injection
<1> QED
  BY <1>6, <1>8 DEF Surjection, ToSet

\* What a check that comes to its end reports.
LEMMA FinishReports == ASSUME Judged, Finish PROVE ReportsEveryFirstBreach'
<1>1. PICK list \in SetToSeqs(Breaches) : Sorted(list) /\ broken' = list
  BY DEF Finish
<1>2. UNCHANGED <<trace, watches>>
  BY DEF Finish
<1>3. ToSet(broken') = Breaches
  BY <1>1, ReportHasAll
<1>4. Breaches = {[invariant |-> i, step |-> Standing(i, Min(Unkept(i)))] :
                     i \in {j \in Invariant : Unkept(j) # {}}}
  BY BreachStands DEF Breaches
<1>5. {[invariant |-> i, step |-> Standing(i, Min(Unkept(i)))] :
          i \in {j \in Invariant : Unkept(j) # {}}}'
        = {[invariant |-> i, step |-> Standing(i, Min(Unkept(i)))] :
              i \in {j \in Invariant : Unkept(j) # {}}}
  BY <1>2 DEF Unkept, Standing, Opening, HoldsAgainBy
<1>6. \A k \in 2 .. Len(broken') :
         \/ broken'[k - 1].step < broken'[k].step
         \/ /\ broken'[k - 1].step = broken'[k].step
            /\ broken'[k - 1].invariant < broken'[k].invariant
  BY <1>1 DEF Sorted, Earlier
<1> QED
  BY <1>3, <1>4, <1>5, <1>6 DEF ReportsEveryFirstBreach

--------------------------------------------------------------------------------
(* The whole check. *)

LEMMA InitStands == CheckingInit => Judged
<1> SUFFICES ASSUME CheckingInit PROVE Judged
  OBVIOUS
<1>1. trace = <<>> /\ trace \in Seq(Step) /\ DOMAIN trace = {} /\ status = "checking"
  BY DEF CheckingInit
<1>2. ASSUME NEW i \in Invariant PROVE Stands(i)
  <2>1. watches[i] = Holding
    BY DEF CheckingInit
  <2>2. Unkept(i) = {}
    BY <1>1 DEF Unkept
  <2> QED
    BY <1>1, <2>1, <2>2 DEF Stands, Untroubled
<1> QED
  BY <1>1, <1>2 DEF Judged, InOrder, ReportsEveryFirstBreach

\* Where nothing is read, the watches stand as they did.
LEMMA StandsStill == ASSUME Judged, UNCHANGED <<trace, watches>>
                     PROVE  trace' \in Seq(Step) /\ InOrder' /\ \A i \in Invariant : Stands(i)'
<1>1. trace \in Seq(Step) /\ InOrder /\ \A i \in Invariant : Stands(i)
  BY DEF Judged
<1>2. InOrder'
  BY <1>1 DEF InOrder
<1>3. ASSUME NEW i \in Invariant PROVE Stands(i)'
  <2>1. Unkept(i)' = Unkept(i)
    BY DEF Unkept, Opening, HoldsAgainBy
  <2>2. Untroubled(i)' = Untroubled(i)
    BY <2>1 DEF Untroubled
  <2>3. ASSUME NEW n PROVE /\ Open(i, n)' = Open(i, n) /\ Settled(i, n)' = Settled(i, n)
                           /\ Standing(i, n)' = Standing(i, n)
    BY <2>1 DEF Open, Settled, Standing, Due
  <2> QED
    BY <1>1, <2>2, <2>3 DEF Stands
<1> QED
  BY <1>1, <1>2, <1>3

LEMMA StepStands == Judged /\ [CheckingNext]_checkingVars => Judged'
<1> SUFFICES ASSUME Judged, [CheckingNext]_checkingVars PROVE Judged'
  OBVIOUS
<1>1. CASE Look
  <2>1. PICK step \in Step :
           /\ trace # <<>> => step.at >= Last(trace).at
           /\ trace' = Append(trace, step)
           /\ watches' = [i \in Invariant |-> Stepped(i, watches[i], Len(trace'), step)]
    BY <1>1 DEF Look
  <2>2. trace' \in Seq(Step) /\ InOrder'
    BY <2>1, TraceGrows DEF Judged
  <2>3. ASSUME NEW i \in Invariant PROVE Stands(i)'
    <3>1. watches'[i] = Stepped(i, watches[i], Len(trace'), step)
      BY <2>1
    <3> QED
      BY <2>1, <3>1, LookStands
  <2>4. ReportsEveryFirstBreach'
    BY <1>1 DEF Look, ReportsEveryFirstBreach
  <2> QED
    BY <2>2, <2>3, <2>4 DEF Judged
<1>2. CASE Unreadable
  <2>1. ReportsEveryFirstBreach'
    BY <1>2 DEF Unreadable, ReportsEveryFirstBreach
  <2> QED
    BY <1>2, <2>1, StandsStill DEF Judged, Unreadable
<1>3. CASE Finish
  BY <1>3, StandsStill, FinishReports DEF Judged, Finish
<1>4. CASE UNCHANGED checkingVars
  <2>1. UNCHANGED <<trace, watches, status, broken>>
    BY <1>4 DEF checkingVars
  <2>2. ReportsEveryFirstBreach' = ReportsEveryFirstBreach
    <3>1. \A i \in Invariant : Unkept(i)' = Unkept(i)
      BY <2>1 DEF Unkept, Opening, HoldsAgainBy
    <3>2. \A i \in Invariant : \A n : Standing(i, n)' = Standing(i, n)
      BY <2>1 DEF Standing
    <3> QED
      BY <2>1, <3>1, <3>2 DEF ReportsEveryFirstBreach
  <2> QED
    BY <2>1, <2>2, StandsStill DEF Judged
<1> QED
  BY <1>1, <1>2, <1>3, <1>4 DEF CheckingNext

\* A check that comes to the end of a trace reports exactly the invariants whose promise
\* was broken in it, each at the step whose state stood when the promise it broke first ran
\* out, in the order of the steps and then of the slice (`check`).
THEOREM FirstBreachesAreReported == CheckingSpec => []ReportsEveryFirstBreach
<1>1. Judged => ReportsEveryFirstBreach
  BY DEF Judged
<1> QED
  BY <1>1, InitStands, StepStands, PTL DEF CheckingSpec
================================================================================
