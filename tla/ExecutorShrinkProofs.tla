------------------------- MODULE ExecutorShrinkProofs -------------------------
(***************************************************************************)
(* Proofs about what runs a schedule and what reduces one that fails.      *)
(*                                                                         *)
(* The executor: for every number of tasks and sleeps, every set of        *)
(* durations and every horizon of virtual time.                            *)
(*                                                                         *)
(* The reduction of shrink.rs keeps what Reducing.tla promises, offers     *)
(* only what is less, and ends with what cannot be made less by one: for   *)
(* any schedules, any reasons to fail and whatever the candidates do.      *)
(***************************************************************************)
EXTENDS Executor, Shrink, WellFoundedInduction, TLAPS

--------------------------------------------------------------------------------
(* The executor. *)

\* Tasks not spawned yet are nowhere, and those that finished are no longer
\* among the loop's tasks.
Roll ==
    /\ tasks \cup Roster(spawned) \subseteq Unfinished
    /\ tasks \cap Roster(spawned) = {}
    /\ finished \subseteq Known /\ output \subseteq finished
    /\ ready \subseteq Known
    /\ polling # NoTask => polling \in tasks
    /\ \A u \in Task : waiting[u] # NoTask => waiting[u] \in Known
    /\ \A u \in Task \ Known : holder[u] = NoTask /\ waiting[u] = NoTask /\ await[u] = "none"

\* A sleep is awaited exactly where an `.await` says so, and belongs to an
\* unfinished task.
SleepsHeld ==
    \A t \in Task :
       /\ deadline[Awaited(t)] # NoTime <=> await[t] \in {"sleep", "timeout"}
       /\ deadline[Awaited(t)] # NoTime => t \in Unfinished
       /\ deadline[Kept(t)] # NoTime => t \in Unfinished

\* A registered timer is for the deadline of the sleep that holds it.
TimersAim ==
    \A w \in Wait : timer[w] # NoEvent => deadline[w] # NoTime /\ timer[w].at = deadline[w]

\* Every timer in the queue is one a sleep holds, and wakes a task there is.
TimersOwned ==
    \A e \in queue : e.waker \in Known /\ \E w \in Wait : timer[w] = e

\* A task joins only through a handle it holds; a handle of a finished task
\* still has the output; a registered waker has a handle behind it.
HandlesHeld ==
    /\ \A t \in Task : await[t] \in {"join", "timeout"} =>
          target[t] \in Known /\ holder[target[t]] = t
    /\ \A u \in Task : holder[u] # NoTask /\ u \in finished => u \in output
    /\ \A u \in Task : waiting[u] # NoTask => holder[u] # NoTask /\ u \notin finished

IInv ==
    /\ TypeOK
    /\ Roll
    /\ SleepsHeld
    /\ TimersAim
    /\ TimersOwned
    /\ HandlesHeld
    /\ NeverBackwards

--------------------------------------------------------------------------------
(* Facts about the roster of spawned tasks and about the constants. *)

\* Nothing filed, nobody in the roster.
LEMMA RosterEmpty == Roster(<<>>) = {}
BY DEF Roster

\* Filing one more task adds it to the roster and nobody else.
LEMMA RosterAppend ==
    ASSUME NEW S, NEW s \in Seq(S), NEW x \in S
    PROVE  /\ Append(s, x) \in Seq(S)
           /\ Roster(Append(s, x)) = Roster(s) \cup {x}
<1>1. Append(s, x) \in Seq(S) /\ Len(Append(s, x)) = Len(s) + 1
  OBVIOUS
<1>2. \A i \in 1 .. Len(s) : Append(s, x)[i] = s[i]
  OBVIOUS
<1>3. Append(s, x)[Len(s) + 1] = x
  OBVIOUS
<1>4. DOMAIN s = 1 .. Len(s) /\ Len(s) \in Nat /\ DOMAIN Append(s, x) = 1 .. (Len(s) + 1)
  BY <1>1
<1> QED
  BY <1>1, <1>2, <1>3, <1>4 DEF Roster

\* A roster is made of what was filed.
LEMMA RosterType ==
    ASSUME NEW S, NEW s \in Seq(S)
    PROVE  Roster(s) \subseteq S
BY DEF Roster

\* The two waits of a task are its own and different ones.
LEMMA WaitFacts ==
    /\ \A t \in Task : Awaited(t) \in Wait /\ Kept(t) \in Wait
    /\ \A w \in Wait : \E t \in Task : w = Awaited(t) \/ w = Kept(t)
    /\ \A t, u : Awaited(t) # Kept(u)
    /\ \A t, u : Awaited(t) = Awaited(u) => t = u
    /\ \A t, u : Kept(t) = Kept(u) => t = u
BY DEF Wait, Awaited, Kept

\* What is not there is not a task, an instant or an event.
LEMMA TaskFacts ==
    /\ Task \subseteq Nat /\ NoTask \notin Task
    /\ NoTime \notin Instant /\ NoEvent \notin Event
BY ExecutorAssumption, MaxTimeAssumption DEF Task, Instant, Event

--------------------------------------------------------------------------------
(* Every step preserves the invariant. *)

\* The identifiers given out so far are those of tasks.
LEMMA KnownTasks == TypeOK => Known \subseteq Task
BY ExecutorAssumption DEF TypeOK, Known, Task

\* A new sleep has an instant for a deadline and no timer.
LEMMA NewSleepTypes ==
    ASSUME TypeOK, NEW w \in Wait, NEW d \in Durations, NewSleep(w, d)
    PROVE  /\ deadline' \in [Wait -> Instant \cup {NoTime}]
           /\ timer' \in [Wait -> Event \cup {NoEvent}]
           /\ sleeps' \in 0 .. MaxSleeps
<1>1. now \in Nat /\ d \in Nat /\ MaxTime \in Nat
  BY ExecutorAssumption, MaxTimeAssumption DEF TypeOK, Instant
<1>2. SaturatingAdd(now, d) \in Instant
  BY <1>1 DEF SaturatingAdd, Instant
<1>3. deadline' \in [Wait -> Instant \cup {NoTime}] /\ timer' \in [Wait -> Event \cup {NoEvent}]
  BY <1>2 DEF TypeOK, NewSleep
<1>4. sleeps' \in 0 .. MaxSleeps
  BY ExecutorAssumption DEF TypeOK, NewSleep
<1> QED
  BY <1>3, <1>4

\* Wherever a task comes to stand is a place there is.
LEMMA StandAtTypes ==
    ASSUME TypeOK, NEW t \in Task, NEW kind \in Kinds, NEW u \in Task \cup {NoTask},
           StandAt(t, kind, u)
    PROVE  /\ await' \in [Task -> Kinds] /\ target' \in [Task -> Task \cup {NoTask}]
           /\ await'[t] = kind /\ target'[t] = u
           /\ \A v \in Task : v # t => await'[v] = await[v] /\ target'[v] = target[v]
BY DEF TypeOK, StandAt

\* What taking an output and registering a waker do to the handles.
LEMMA JoinTypes ==
    ASSUME TypeOK, NEW u \in Task, NEW t \in Task, TakeOutput(u) \/ RegisterJoin(u, t)
    PROVE  /\ holder' \in [Task -> Task \cup {NoTask}] /\ waiting' \in [Task -> Task \cup {NoTask}]
           /\ output' \subseteq Task /\ finished' = finished
           /\ \A v \in Task : v # u => holder'[v] = holder[v] /\ waiting'[v] = waiting[v]
           /\ TakeOutput(u) => holder'[u] = NoTask /\ waiting'[u] = NoTask
           /\ RegisterJoin(u, t) => holder'[u] = holder[u] /\ waiting'[u] = t
BY DEF TypeOK, TakeOutput, RegisterJoin

\* The loop takes the next ready task.
LEMMA TakeKeeps == ASSUME IInv, Take PROVE IInv'
<1> USE TaskFacts, WaitFacts, RosterEmpty
<1>0. Roster(spawned) \subseteq Task /\ <<>> \in Seq(Task)
  BY RosterType DEF IInv, TypeOK
<1>a. /\ tasks' = Adopted /\ spawned' = <<>> /\ ready' \subseteq ready
      /\ polling' \in Adopted \cup {NoTask}
      /\ UNCHANGED <<now, nextId, status, awaitVars, sleepVars, joinVars>>
  BY DEF Take
<1>b. Adopted \subseteq Task
  BY <1>0 DEF IInv, TypeOK, Adopted
<1>1. TypeOK'
  BY <1>0, <1>a, <1>b DEF IInv, TypeOK, awaitVars, sleepVars, joinVars
<1>2. Roll'
  BY <1>0 DEF IInv, TypeOK, Roll, Take, Between, Adopted, awaitVars, sleepVars,
         joinVars, Unfinished, Known
<1>3. SleepsHeld'
  BY DEF IInv, SleepsHeld, Take, awaitVars, sleepVars, joinVars, Unfinished, Known
<1>4. TimersAim'
  BY DEF IInv, TimersAim, Take, sleepVars
<1>5. TimersOwned'
  BY DEF IInv, TimersOwned, Take, sleepVars, Known
<1>6. HandlesHeld'
  BY DEF IInv, HandlesHeld, Take, awaitVars, joinVars, Known
<1>7. NeverBackwards'
  BY DEF IInv, NeverBackwards, Take, sleepVars
<1> QED
  BY <1>1, <1>2, <1>3, <1>4, <1>5, <1>6, <1>7 DEF IInv

\* `run` returns: no task is left.
LEMMA ReturnKeeps == ASSUME IInv, Return PROVE IInv'
<1> USE TaskFacts, WaitFacts, RosterEmpty
<1>0. Roster(spawned) \subseteq Task /\ <<>> \in Seq(Task)
  BY RosterType DEF IInv, TypeOK
<1>1. TypeOK'
  BY <1>0 DEF IInv, TypeOK, awaitVars, Return, Quiet, Between, Adopted, sleepVars,
         joinVars
<1>2. Roll'
  BY <1>0 DEF IInv, TypeOK, Roll, awaitVars, Return, Quiet, Between, Adopted,
         sleepVars, joinVars, Unfinished, Known
<1>3. SleepsHeld'
  BY <1>0 DEF IInv, TypeOK, Roll, SleepsHeld, awaitVars, Return, Quiet, Between,
         Adopted, sleepVars, joinVars, Unfinished, Known
<1>4. TimersAim'
  BY <1>0 DEF IInv, TypeOK, SleepsHeld, TimersAim, awaitVars, Return, Quiet, Between,
         Adopted, sleepVars, joinVars, Wait
<1>5. TimersOwned'
  BY <1>0 DEF IInv, TypeOK, Roll, SleepsHeld, TimersAim, TimersOwned, awaitVars,
         Return, Quiet, Between, Adopted, sleepVars, joinVars, Event, Known,
         Unfinished
<1>6. HandlesHeld'
  BY <1>0 DEF IInv, TypeOK, Roll, HandlesHeld, awaitVars, Return, Quiet, Between,
         Adopted, sleepVars, joinVars, Known, Unfinished
<1>7. NeverBackwards'
  BY <1>0 DEF IInv, TypeOK, TimersAim, NeverBackwards, awaitVars, Return, Quiet,
         Between, Adopted, sleepVars, joinVars, Event, Instant
<1> QED
  BY <1>1, <1>2, <1>3, <1>4, <1>5, <1>6, <1>7 DEF IInv

\* `run` stalls: tasks are left and no event is.
LEMMA StallKeeps == ASSUME IInv, Stall PROVE IInv'
<1> USE TaskFacts, WaitFacts, RosterEmpty
<1>0. Roster(spawned) \subseteq Task /\ <<>> \in Seq(Task)
  BY RosterType DEF IInv, TypeOK
<1>1. TypeOK'
  BY <1>0 DEF IInv, TypeOK, awaitVars, Stall, Quiet, Between, Adopted, sleepVars,
         joinVars
<1>2. Roll'
  BY <1>0 DEF IInv, TypeOK, Roll, awaitVars, Stall, Quiet, Between, Adopted,
         sleepVars, joinVars, Unfinished, Known
<1>3. SleepsHeld'
  BY <1>0 DEF IInv, TypeOK, Roll, SleepsHeld, awaitVars, Stall, Quiet, Between,
         Adopted, sleepVars, joinVars, Unfinished, Known
<1>4. TimersAim'
  BY <1>0 DEF IInv, TypeOK, SleepsHeld, TimersAim, awaitVars, Stall, Quiet, Between,
         Adopted, sleepVars, joinVars, Wait
<1>5. TimersOwned'
  BY <1>0 DEF IInv, TypeOK, Roll, SleepsHeld, TimersAim, TimersOwned, awaitVars,
         Stall, Quiet, Between, Adopted, sleepVars, joinVars, Event, Known,
         Unfinished
<1>6. HandlesHeld'
  BY <1>0 DEF IInv, TypeOK, Roll, HandlesHeld, awaitVars, Stall, Quiet, Between,
         Adopted, sleepVars, joinVars, Known, Unfinished
<1>7. NeverBackwards'
  BY <1>0 DEF IInv, TypeOK, TimersAim, NeverBackwards, awaitVars, Stall, Quiet,
         Between, Adopted, sleepVars, joinVars, Event, Instant
<1> QED
  BY <1>1, <1>2, <1>3, <1>4, <1>5, <1>6, <1>7 DEF IInv

\* A task comes to the `.await` of a new sleep.
LEMMA AwaitSleepKeeps ==
    ASSUME IInv, NEW t \in Task, NEW d \in Durations, AwaitSleep(t, d)
    PROVE  IInv'
<1> USE TaskFacts, WaitFacts, RosterEmpty
<1>0. Roster(spawned) \subseteq Task /\ <<>> \in Seq(Task)
  BY RosterType DEF IInv, TypeOK
<1>1. TypeOK'
  <2>1. NewSleep(Awaited(t), d) /\ StandAt(t, "sleep", NoTask) /\ "sleep" \in Kinds
    BY DEF AwaitSleep, Kinds
  <2>2. UNCHANGED <<loopVars, queue, nextSeq, nextId, ready, joinVars>>
    BY DEF AwaitSleep
  <2> QED
    BY <2>1, <2>2, NewSleepTypes, StandAtTypes DEF IInv, TypeOK, loopVars, joinVars
<1>2. Roll'
  BY <1>0, ExecutorAssumption, MaxTimeAssumption DEF IInv, TypeOK, Roll, AwaitSleep,
     NewSleep, StandAt, Kinds, Running,
         Polled, awaitVars, loopVars, sleepVars, joinVars, SaturatingAdd,
         Instant, Unfinished, Known
<1>3. SleepsHeld'
  BY <1>0, ExecutorAssumption, MaxTimeAssumption DEF IInv, TypeOK, Roll, SleepsHeld,
     AwaitSleep, NewSleep, StandAt, Kinds,
         Running, Polled, awaitVars, loopVars, sleepVars, joinVars,
         SaturatingAdd, Instant, Unfinished, Known
<1>4. TimersAim'
  BY <1>0, ExecutorAssumption, MaxTimeAssumption DEF IInv, TypeOK, SleepsHeld,
     TimersAim, AwaitSleep, NewSleep, StandAt,
         Kinds, Running, Polled, awaitVars, loopVars, sleepVars, joinVars,
         SaturatingAdd, Instant, Wait
<1>5. TimersOwned'
  BY <1>0, ExecutorAssumption, MaxTimeAssumption DEF IInv, TypeOK, Roll, SleepsHeld,
     TimersAim, TimersOwned, AwaitSleep,
         NewSleep, StandAt, Kinds, Running, Polled, awaitVars, loopVars,
         sleepVars, joinVars, SaturatingAdd, Instant, Event, Known, Unfinished
<1>6. HandlesHeld'
  BY <1>0, ExecutorAssumption, MaxTimeAssumption DEF IInv, TypeOK, Roll, HandlesHeld,
     AwaitSleep, NewSleep, StandAt, Kinds,
         Running, Polled, awaitVars, loopVars, sleepVars, joinVars,
         SaturatingAdd, Instant, Known, Unfinished
<1>7. NeverBackwards'
  BY <1>0, ExecutorAssumption, MaxTimeAssumption DEF IInv, TypeOK, TimersAim,
     NeverBackwards, AwaitSleep, NewSleep, StandAt,
         Kinds, Running, Polled, awaitVars, loopVars, sleepVars, joinVars,
         SaturatingAdd, Instant, Event
<1> QED
  BY <1>1, <1>2, <1>3, <1>4, <1>5, <1>6, <1>7 DEF IInv

\* A task comes to the `.await` of a new timeout around a handle it holds.
LEMMA AwaitTimeoutKeeps ==
    ASSUME IInv, NEW t \in Task, NEW u \in Task, NEW d \in Durations, AwaitTimeout(t, u, d)
    PROVE  IInv'
<1> USE TaskFacts, WaitFacts, RosterEmpty
<1>0. Roster(spawned) \subseteq Task /\ <<>> \in Seq(Task)
  BY RosterType DEF IInv, TypeOK
<1>1. TypeOK'
  <2>1. NewSleep(Awaited(t), d) /\ StandAt(t, "timeout", u) /\ "timeout" \in Kinds
    BY DEF AwaitTimeout, Kinds
  <2>2. UNCHANGED <<loopVars, queue, nextSeq, nextId, ready, joinVars>>
    BY DEF AwaitTimeout
  <2> QED
    BY <2>1, <2>2, NewSleepTypes, StandAtTypes DEF IInv, TypeOK, loopVars, joinVars
<1>2. Roll'
  BY <1>0, ExecutorAssumption, MaxTimeAssumption DEF IInv, TypeOK, Roll,
     AwaitTimeout, NewSleep, Holds, StandAt, Kinds,
         Running, Polled, awaitVars, loopVars, sleepVars, joinVars,
         SaturatingAdd, Instant, Unfinished, Known
<1>3. SleepsHeld'
  <2>1. /\ Polled(t) /\ deadline' = [deadline EXCEPT ![Awaited(t)] = SaturatingAdd(now, d)]
        /\ UNCHANGED <<nextId, finished>>
    BY DEF AwaitTimeout, NewSleep, Running, joinVars
  <2>2. t \in Unfinished /\ Unfinished' = Unfinished
    BY <2>1 DEF IInv, Roll, Polled, Unfinished, Known
  <2>3. SaturatingAdd(now, d) # NoTime
    BY ExecutorAssumption, MaxTimeAssumption DEF IInv, TypeOK, SaturatingAdd, Instant
  <2>4. /\ await'[t] = "timeout" /\ deadline'[Awaited(t)] # NoTime
        /\ \A v \in Task : v # t => await'[v] = await[v]
    BY <2>1, <2>3 DEF AwaitTimeout, StandAt, IInv, TypeOK
  <2>5. \A w \in Wait : w # Awaited(t) => deadline'[w] = deadline[w]
    BY <2>1 DEF IInv, TypeOK
  <2> QED
    BY <2>2, <2>4, <2>5 DEF IInv, SleepsHeld
<1>4. TimersAim'
  BY <1>0, ExecutorAssumption, MaxTimeAssumption DEF IInv, TypeOK, SleepsHeld,
     TimersAim, AwaitTimeout, NewSleep, Holds,
         StandAt, Kinds, Running, Polled, awaitVars, loopVars, sleepVars,
         joinVars, SaturatingAdd, Instant, Wait
<1>5. TimersOwned'
  BY <1>0, ExecutorAssumption, MaxTimeAssumption DEF IInv, TypeOK, Roll, SleepsHeld,
     TimersAim, TimersOwned, AwaitTimeout,
         NewSleep, Holds, StandAt, Kinds, Running, Polled, awaitVars, loopVars,
         sleepVars, joinVars, SaturatingAdd, Instant, Event, Known, Unfinished
<1>6. HandlesHeld'
  BY <1>0, ExecutorAssumption, MaxTimeAssumption DEF IInv, TypeOK, Roll, HandlesHeld,
     AwaitTimeout, NewSleep, Holds, StandAt,
         Kinds, Running, Polled, awaitVars, loopVars, sleepVars, joinVars,
         SaturatingAdd, Instant, Known, Unfinished
<1>7. NeverBackwards'
  BY <1>0, ExecutorAssumption, MaxTimeAssumption DEF IInv, TypeOK, TimersAim,
     NeverBackwards, AwaitTimeout, NewSleep, Holds,
         StandAt, Kinds, Running, Polled, awaitVars, loopVars, sleepVars,
         joinVars, SaturatingAdd, Instant, Event
<1> QED
  BY <1>1, <1>2, <1>3, <1>4, <1>5, <1>6, <1>7 DEF IInv

\* A task comes to the `.await` of the sleep it kept, which changes its place only.
LEMMA AwaitKeptKeeps == ASSUME IInv, NEW t \in Task, AwaitKept(t) PROVE IInv'
<1> USE TaskFacts, WaitFacts, RosterEmpty
<1>0. Roster(spawned) \subseteq Task /\ <<>> \in Seq(Task)
  BY RosterType DEF IInv, TypeOK
<1>1. TypeOK'
  BY <1>0 DEF IInv, TypeOK, AwaitKept, StandAt, Kinds, Running, Polled, awaitVars,
         loopVars, sleepVars, joinVars
<1>2. Roll'
  BY <1>0 DEF IInv, TypeOK, Roll, AwaitKept, StandAt, Kinds, Running, Polled,
         awaitVars, loopVars, sleepVars, joinVars, Unfinished, Known
<1>3. SleepsHeld'
  BY <1>0 DEF IInv, TypeOK, Roll, SleepsHeld, AwaitKept, StandAt, Kinds, Running,
         Polled, awaitVars, loopVars, sleepVars, joinVars, Unfinished, Known
<1>4. TimersAim'
  BY <1>0 DEF IInv, TypeOK, SleepsHeld, TimersAim, AwaitKept, StandAt, Kinds, Running,
         Polled, awaitVars, loopVars, sleepVars, joinVars, Wait
<1>5. TimersOwned'
  <2> SUFFICES ASSUME NEW e \in queue
               PROVE  e.waker \in Known' /\ \E v \in Wait : timer'[v] = e
    BY DEF AwaitKept, TimersOwned
  <2>1. PICK w \in Wait : timer[w] = e /\ e.waker \in Known /\ e # NoEvent
    BY DEF IInv, TypeOK, TimersOwned
  <2>2. w # Awaited(t)
    BY <2>1 DEF IInv, SleepsHeld, TimersAim, AwaitKept, Running
  <2>3. timer'[Awaited(t)] = timer[Kept(t)]
    BY DEF IInv, TypeOK, AwaitKept
  <2>4. w # Kept(t) => timer'[w] = timer[w]
    BY <2>2 DEF IInv, TypeOK, AwaitKept
  <2> QED
    BY <2>1, <2>2, <2>3, <2>4 DEF AwaitKept, Known
<1>6. HandlesHeld'
  BY <1>0 DEF IInv, TypeOK, Roll, HandlesHeld, AwaitKept, StandAt, Kinds, Running,
         Polled, awaitVars, loopVars, sleepVars, joinVars, Known, Unfinished
<1>7. NeverBackwards'
  BY <1>0 DEF IInv, TypeOK, TimersAim, NeverBackwards, AwaitKept, StandAt, Kinds,
         Running, Polled, awaitVars, loopVars, sleepVars, joinVars, Event, Instant
<1> QED
  BY <1>1, <1>2, <1>3, <1>4, <1>5, <1>6, <1>7 DEF IInv

\* A task comes to the `.await` of a handle.
LEMMA AwaitJoinKeeps ==
    ASSUME IInv, NEW t \in Task, NEW u \in Task, AwaitJoin(t, u)
    PROVE  IInv'
<1> USE TaskFacts, WaitFacts, RosterEmpty
<1>0. Roster(spawned) \subseteq Task /\ <<>> \in Seq(Task)
  BY RosterType DEF IInv, TypeOK
<1>1. TypeOK'
  BY <1>0 DEF IInv, TypeOK, AwaitJoin, Holds, StandAt, Kinds, Running, Polled,
         awaitVars, loopVars, sleepVars, joinVars
<1>2. Roll'
  BY <1>0 DEF IInv, TypeOK, Roll, AwaitJoin, Holds, StandAt, Kinds, Running, Polled,
         awaitVars, loopVars, sleepVars, joinVars, Unfinished, Known
<1>3. SleepsHeld'
  BY <1>0 DEF IInv, TypeOK, Roll, SleepsHeld, AwaitJoin, Holds, StandAt, Kinds,
         Running, Polled, awaitVars, loopVars, sleepVars, joinVars, Unfinished,
         Known
<1>4. TimersAim'
  BY <1>0 DEF IInv, TypeOK, SleepsHeld, TimersAim, AwaitJoin, Holds, StandAt, Kinds,
         Running, Polled, awaitVars, loopVars, sleepVars, joinVars, Wait
<1>5. TimersOwned'
  BY <1>0 DEF IInv, TypeOK, Roll, SleepsHeld, TimersAim, TimersOwned, AwaitJoin,
         Holds, StandAt, Kinds, Running, Polled, awaitVars, loopVars, sleepVars,
         joinVars, Event, Known, Unfinished
<1>6. HandlesHeld'
  BY <1>0 DEF IInv, TypeOK, Roll, HandlesHeld, AwaitJoin, Holds, StandAt, Kinds,
         Running, Polled, awaitVars, loopVars, sleepVars, joinVars, Known,
         Unfinished
<1>7. NeverBackwards'
  BY <1>0 DEF IInv, TypeOK, TimersAim, NeverBackwards, AwaitJoin, Holds, StandAt,
         Kinds, Running, Polled, awaitVars, loopVars, sleepVars, joinVars, Event,
         Instant
<1> QED
  BY <1>1, <1>2, <1>3, <1>4, <1>5, <1>6, <1>7 DEF IInv

\* A task comes to an `.await` that never completes.
LEMMA ParkKeeps == ASSUME IInv, NEW t \in Task, Park(t) PROVE IInv'
<1> USE TaskFacts, WaitFacts, RosterEmpty
<1>0. Roster(spawned) \subseteq Task /\ <<>> \in Seq(Task)
  BY RosterType DEF IInv, TypeOK
<1>1. TypeOK'
  BY <1>0 DEF IInv, TypeOK, Park, StandAt, Kinds, Running, Polled, awaitVars,
         loopVars, sleepVars, joinVars
<1>2. Roll'
  BY <1>0 DEF IInv, TypeOK, Roll, Park, StandAt, Kinds, Running, Polled, awaitVars,
         loopVars, sleepVars, joinVars, Unfinished, Known
<1>3. SleepsHeld'
  BY <1>0 DEF IInv, TypeOK, Roll, SleepsHeld, Park, StandAt, Kinds, Running, Polled,
         awaitVars, loopVars, sleepVars, joinVars, Unfinished, Known
<1>4. TimersAim'
  BY <1>0 DEF IInv, TypeOK, SleepsHeld, TimersAim, Park, StandAt, Kinds, Running,
         Polled, awaitVars, loopVars, sleepVars, joinVars, Wait
<1>5. TimersOwned'
  BY <1>0 DEF IInv, TypeOK, Roll, SleepsHeld, TimersAim, TimersOwned, Park, StandAt,
         Kinds, Running, Polled, awaitVars, loopVars, sleepVars, joinVars, Event,
         Known, Unfinished
<1>6. HandlesHeld'
  BY <1>0 DEF IInv, TypeOK, Roll, HandlesHeld, Park, StandAt, Kinds, Running, Polled,
         awaitVars, loopVars, sleepVars, joinVars, Known, Unfinished
<1>7. NeverBackwards'
  BY <1>0 DEF IInv, TypeOK, TimersAim, NeverBackwards, Park, StandAt, Kinds, Running,
         Polled, awaitVars, loopVars, sleepVars, joinVars, Event, Instant
<1> QED
  BY <1>1, <1>2, <1>3, <1>4, <1>5, <1>6, <1>7 DEF IInv

\* A task drops a handle: `Drop` of JoinHandle.
LEMMA DetachKeeps ==
    ASSUME IInv, NEW t \in Task, NEW u \in Task, Detach(t, u)
    PROVE  IInv'
<1> USE TaskFacts, WaitFacts, RosterEmpty
<1>0. Roster(spawned) \subseteq Task /\ <<>> \in Seq(Task)
  BY RosterType DEF IInv, TypeOK
<1>a. /\ u \in Known /\ holder[u] = t /\ await[t] = "none"
      /\ \A v \in Task : await[v] \in {"join", "timeout"} => target[v] # u
  BY DEF IInv, HandlesHeld, Detach, Running, Holds
<1>1. TypeOK'
  BY <1>0, <1>a DEF IInv, TypeOK, Detach, DropHandles, Holds, StandAt, Running, Polled,
         awaitVars, loopVars, sleepVars, joinVars
<1>2. Roll'
  BY <1>0, <1>a DEF IInv, TypeOK, Roll, Detach, DropHandles, Holds, StandAt, Running,
         Polled, awaitVars, loopVars, sleepVars, joinVars, Unfinished, Known
<1>3. SleepsHeld'
  BY <1>0, <1>a DEF IInv, TypeOK, Roll, SleepsHeld, Detach, DropHandles, Holds, StandAt,
         Running, Polled, awaitVars, loopVars, sleepVars, joinVars, Unfinished,
         Known
<1>4. TimersAim'
  BY <1>0, <1>a DEF IInv, TypeOK, SleepsHeld, TimersAim, Detach, DropHandles, Holds,
         StandAt, Running, Polled, awaitVars, loopVars, sleepVars, joinVars, Wait
<1>5. TimersOwned'
  BY <1>0, <1>a DEF IInv, TypeOK, Roll, SleepsHeld, TimersAim, TimersOwned, Detach,
         DropHandles, Holds, StandAt, Running, Polled, awaitVars, loopVars,
         sleepVars, joinVars, Event, Known, Unfinished
<1>6. HandlesHeld'
  <2>1. \A v \in Task : v # u => holder'[v] = holder[v] /\ waiting'[v] = waiting[v]
    BY DEF Detach, DropHandles
  <2>2. holder'[u] = NoTask /\ waiting'[u] = NoTask
    BY DEF Detach, DropHandles
  <2>3. UNCHANGED <<await, target, finished, output, nextId>>
    BY DEF Detach, DropHandles, awaitVars
  <2> QED
    BY <1>a, <2>1, <2>2, <2>3, KnownTasks DEF IInv, HandlesHeld, Known
<1>7. NeverBackwards'
  BY <1>0, <1>a DEF IInv, TypeOK, TimersAim, NeverBackwards, Detach, DropHandles, Holds,
         StandAt, Running, Polled, awaitVars, loopVars, sleepVars, joinVars,
         Event, Instant
<1> QED
  BY <1>1, <1>2, <1>3, <1>4, <1>5, <1>6, <1>7 DEF IInv

\* A task drops the sleep it kept: `Drop` of Sleep.
LEMMA DropKeptKeeps == ASSUME IInv, NEW t \in Task, DropKept(t) PROVE IInv'
<1> USE TaskFacts, WaitFacts, RosterEmpty
<1>0. Roster(spawned) \subseteq Task /\ <<>> \in Seq(Task)
  BY RosterType DEF IInv, TypeOK
<1>1. TypeOK'
  BY <1>0 DEF IInv, TypeOK, DropKept, DropSleeps, Disarmed, StandAt, Running, Polled,
         awaitVars, loopVars, sleepVars, joinVars
<1>2. Roll'
  BY <1>0 DEF IInv, TypeOK, Roll, DropKept, DropSleeps, Disarmed, StandAt, Running,
         Polled, awaitVars, loopVars, sleepVars, joinVars, Unfinished, Known
<1>3. SleepsHeld'
  BY <1>0 DEF IInv, TypeOK, Roll, SleepsHeld, DropKept, DropSleeps, Disarmed, StandAt,
         Running, Polled, awaitVars, loopVars, sleepVars, joinVars, Unfinished,
         Known
<1>4. TimersAim'
  BY <1>0 DEF IInv, TypeOK, SleepsHeld, TimersAim, DropKept, DropSleeps, Disarmed,
         StandAt, Running, Polled, awaitVars, loopVars, sleepVars, joinVars, Wait
<1>5. TimersOwned'
  BY <1>0 DEF IInv, TypeOK, Roll, SleepsHeld, TimersAim, TimersOwned, DropKept,
         DropSleeps, Disarmed, StandAt, Running, Polled, awaitVars, loopVars,
         sleepVars, joinVars, Event, Known, Unfinished
<1>6. HandlesHeld'
  BY <1>0 DEF IInv, TypeOK, Roll, HandlesHeld, DropKept, DropSleeps, Disarmed,
         StandAt, Running, Polled, awaitVars, loopVars, sleepVars, joinVars,
         Known, Unfinished
<1>7. NeverBackwards'
  BY <1>0 DEF IInv, TypeOK, TimersAim, NeverBackwards, DropKept, DropSleeps, Disarmed,
         StandAt, Running, Polled, awaitVars, loopVars, sleepVars, joinVars,
         Event, Instant
<1> QED
  BY <1>1, <1>2, <1>3, <1>4, <1>5, <1>6, <1>7 DEF IInv

\* A task polls a handle once and keeps it.
LEMMA LookAtJoinKeeps ==
    ASSUME IInv, NEW t \in Task, NEW u \in Task, LookAtJoin(t, u)
    PROVE  IInv'
<1> USE TaskFacts, WaitFacts, RosterEmpty
<1>0. Roster(spawned) \subseteq Task /\ <<>> \in Seq(Task)
  BY RosterType DEF IInv, TypeOK
<1>1. TypeOK'
  BY <1>0 DEF IInv, TypeOK, LookAtJoin, RegisterJoin, Holds, Running, Polled,
         awaitVars, loopVars, sleepVars, joinVars
<1>2. Roll'
  BY <1>0 DEF IInv, TypeOK, Roll, LookAtJoin, RegisterJoin, Holds, Running, Polled,
         awaitVars, loopVars, sleepVars, joinVars, Unfinished, Known
<1>3. SleepsHeld'
  BY <1>0 DEF IInv, TypeOK, Roll, SleepsHeld, LookAtJoin, RegisterJoin, Holds,
         Running, Polled, awaitVars, loopVars, sleepVars, joinVars, Unfinished,
         Known
<1>4. TimersAim'
  BY <1>0 DEF IInv, TypeOK, SleepsHeld, TimersAim, LookAtJoin, RegisterJoin, Holds,
         Running, Polled, awaitVars, loopVars, sleepVars, joinVars, Wait
<1>5. TimersOwned'
  BY <1>0 DEF IInv, TypeOK, Roll, SleepsHeld, TimersAim, TimersOwned, LookAtJoin,
         RegisterJoin, Holds, Running, Polled, awaitVars, loopVars, sleepVars,
         joinVars, Event, Known, Unfinished
<1>6. HandlesHeld'
  BY <1>0 DEF IInv, TypeOK, Roll, HandlesHeld, LookAtJoin, RegisterJoin, Holds,
         Running, Polled, awaitVars, loopVars, sleepVars, joinVars, Known,
         Unfinished
<1>7. NeverBackwards'
  BY <1>0 DEF IInv, TypeOK, TimersAim, NeverBackwards, LookAtJoin, RegisterJoin,
         Holds, Running, Polled, awaitVars, loopVars, sleepVars, joinVars, Event,
         Instant
<1> QED
  BY <1>1, <1>2, <1>3, <1>4, <1>5, <1>6, <1>7 DEF IInv

\* A task polls a new sleep once and keeps it: its timer is armed.
LEMMA LookAtSleepKeeps ==
    ASSUME IInv, NEW t \in Task, NEW d \in Durations, LookAtSleep(t, d)
    PROVE  IInv'
<1> USE TaskFacts, WaitFacts, RosterEmpty
<1>0. Roster(spawned) \subseteq Task /\ <<>> \in Seq(Task)
  BY RosterType DEF IInv, TypeOK
<1>a. SaturatingAdd(now, d) \in Instant /\ nextSeq \in Nat /\ nextSeq + 1 \in Nat
      /\ [at |-> SaturatingAdd(now, d), seq |-> nextSeq, waker |-> t] \in Event
  BY ExecutorAssumption, MaxTimeAssumption DEF IInv, TypeOK, Event, SaturatingAdd, Instant
<1>b. sleeps < MaxSleeps /\ sleeps' = sleeps + 1 /\ sleeps' \in 0 .. MaxSleeps
  BY ExecutorAssumption DEF IInv, TypeOK, LookAtSleep
<1>1. TypeOK'
  <2>1. queue' \subseteq Event /\ nextSeq' \in Nat
    BY <1>a DEF IInv, TypeOK, LookAtSleep
  <2>2. /\ deadline' \in [Wait -> Instant \cup {NoTime}]
        /\ timer' \in [Wait -> Event \cup {NoEvent}]
    BY <1>a DEF IInv, TypeOK, LookAtSleep
  <2> QED
    BY <1>b, <2>1, <2>2 DEF IInv, TypeOK, LookAtSleep, awaitVars, loopVars, joinVars
<1>2. Roll'
  BY <1>0, ExecutorAssumption, MaxTimeAssumption DEF IInv, TypeOK, Roll, LookAtSleep,
     Running, Polled, awaitVars, loopVars,
         sleepVars, joinVars, Event, SaturatingAdd, Instant, Unfinished, Known
<1>3. SleepsHeld'
  BY <1>0, ExecutorAssumption, MaxTimeAssumption DEF IInv, TypeOK, Roll, SleepsHeld,
     LookAtSleep, Running, Polled, awaitVars,
         loopVars, sleepVars, joinVars, Event, SaturatingAdd, Instant,
         Unfinished, Known
<1>4. TimersAim'
  <2> DEFINE at == SaturatingAdd(now, d)
             e == [at |-> at, seq |-> nextSeq, waker |-> t]
  <2>1. deadline' = [deadline EXCEPT ![Kept(t)] = at] /\ timer' = [timer EXCEPT ![Kept(t)] = e]
    BY DEF LookAtSleep
  <2>2. at # NoTime /\ e.at = at
    BY <1>0, ExecutorAssumption, MaxTimeAssumption DEF IInv, TypeOK, SaturatingAdd,
       Instant
  <2> HIDE DEF at, e
  <2> QED
    BY <2>1, <2>2 DEF IInv, TypeOK, TimersAim
<1>5. TimersOwned'
  BY <1>0, ExecutorAssumption, MaxTimeAssumption DEF IInv, TypeOK, Roll, SleepsHeld,
     TimersAim, TimersOwned, LookAtSleep,
         Running, Polled, awaitVars, loopVars, sleepVars, joinVars, Event,
         SaturatingAdd, Instant, Known, Unfinished
<1>6. HandlesHeld'
  BY <1>0, ExecutorAssumption, MaxTimeAssumption DEF IInv, TypeOK, Roll, HandlesHeld,
     LookAtSleep, Running, Polled,
         awaitVars, loopVars, sleepVars, joinVars, Event, SaturatingAdd, Instant,
         Known, Unfinished
<1>7. NeverBackwards'
  BY <1>0, ExecutorAssumption, MaxTimeAssumption DEF IInv, TypeOK, TimersAim,
     NeverBackwards, LookAtSleep, Running, Polled,
         awaitVars, loopVars, sleepVars, joinVars, Event, SaturatingAdd, Instant
<1> QED
  BY <1>1, <1>2, <1>3, <1>4, <1>5, <1>6, <1>7 DEF IInv

\* A poll that ends at a wait that never completes.
LEMMA PollParkKeeps == ASSUME IInv, NEW t \in Task, PollPark(t) PROVE IInv'
<1> USE TaskFacts, WaitFacts, RosterEmpty
<1>0. Roster(spawned) \subseteq Task /\ <<>> \in Seq(Task)
  BY RosterType DEF IInv, TypeOK
<1>1. TypeOK'
  BY <1>0 DEF IInv, TypeOK, PollPark, Running, Polled, awaitVars, loopVars, sleepVars,
         joinVars
<1>2. Roll'
  BY <1>0 DEF IInv, TypeOK, Roll, PollPark, Running, Polled, awaitVars, loopVars,
         sleepVars, joinVars, Unfinished, Known
<1>3. SleepsHeld'
  BY <1>0 DEF IInv, TypeOK, Roll, SleepsHeld, PollPark, Running, Polled, awaitVars,
         loopVars, sleepVars, joinVars, Unfinished, Known
<1>4. TimersAim'
  BY <1>0 DEF IInv, TypeOK, SleepsHeld, TimersAim, PollPark, Running, Polled,
         awaitVars, loopVars, sleepVars, joinVars, Wait
<1>5. TimersOwned'
  BY <1>0 DEF IInv, TypeOK, Roll, SleepsHeld, TimersAim, TimersOwned, PollPark,
         Running, Polled, awaitVars, loopVars, sleepVars, joinVars, Event, Known,
         Unfinished
<1>6. HandlesHeld'
  BY <1>0 DEF IInv, TypeOK, Roll, HandlesHeld, PollPark, Running, Polled, awaitVars,
         loopVars, sleepVars, joinVars, Known, Unfinished
<1>7. NeverBackwards'
  BY <1>0 DEF IInv, TypeOK, TimersAim, NeverBackwards, PollPark, Running, Polled,
         awaitVars, loopVars, sleepVars, joinVars, Event, Instant
<1> QED
  BY <1>1, <1>2, <1>3, <1>4, <1>5, <1>6, <1>7 DEF IInv

\* What task t may rely on about the task it joins.
LEMMA JoinFacts ==
    ASSUME IInv, NEW t \in Task, Polled(t), await[t] \in {"join", "timeout"}
    PROVE  /\ target[t] \in Task /\ target[t] \in Known /\ holder[target[t]] = t
           /\ t \in tasks /\ t \in Unfinished
           /\ \A v \in Task : await[v] \in {"join", "timeout"} /\ target[v] = target[t] => v = t
<1>1. target[t] \in Known /\ holder[target[t]] = t
  BY DEF IInv, HandlesHeld
<1>2. target[t] \in Task
  BY <1>1, KnownTasks DEF IInv
<1>3. t \in tasks /\ t \in Unfinished
  BY TaskFacts DEF IInv, Roll, Polled
<1>4. \A v \in Task : await[v] \in {"join", "timeout"} /\ target[v] = target[t] => v = t
  BY <1>1 DEF IInv, HandlesHeld
<1> QED
  BY <1>1, <1>2, <1>3, <1>4

\* Taking an output and going on leaves the rolls as they are.
LEMMA TakenRoll ==
    ASSUME IInv, NEW t \in Task, t \in Known, target[t] \in Task,
           \A v \in Task : await[v] \in {"join", "timeout"} /\ target[v] = target[t] => v = t,
           TakeOutput(target[t]), StandAt(t, "none", NoTask),
           UNCHANGED <<tasks, spawned, nextId, ready, polling>>
    PROVE  Roll' /\ HandlesHeld'
<1>1. Known' = Known /\ Unfinished' = Unfinished /\ output' \subseteq output /\ finished' = finished
  BY DEF TakeOutput, Known, Unfinished
<1>2. \A v \in Task : /\ holder'[v] = holder[v] \/ holder'[v] = NoTask
                      /\ waiting'[v] = waiting[v] \/ waiting'[v] = NoTask
  BY JoinTypes DEF IInv
<1>3. \A v \in Task \ Known : await'[v] = await[v]
  BY DEF StandAt, IInv, TypeOK
<1>4. \A v \in Task : waiting'[v] # NoTask => waiting'[v] \in Known'
  BY <1>1, <1>2 DEF IInv, Roll
<1>5. \A v \in Task \ Known' : holder'[v] = NoTask /\ waiting'[v] = NoTask /\ await'[v] = "none"
  BY <1>1, <1>2, <1>3 DEF IInv, Roll
<1>6. /\ tasks' \cup Roster(spawned') \subseteq Unfinished' /\ tasks' \cap Roster(spawned') = {}
      /\ finished' \subseteq Known' /\ output' \subseteq finished' /\ ready' \subseteq Known'
      /\ polling' # NoTask => polling' \in tasks'
  BY <1>1 DEF IInv, Roll
<1>7. Roll'
  BY <1>4, <1>5, <1>6 DEF Roll
<1>8. /\ await'[t] = "none"
      /\ \A v \in Task : v # t => await'[v] = await[v] /\ target'[v] = target[v]
      /\ \A v \in Task : v # target[t] => holder'[v] = holder[v] /\ waiting'[v] = waiting[v]
      /\ holder'[target[t]] = NoTask /\ waiting'[target[t]] = NoTask
      /\ output' = output \ {target[t]}
  BY DEF StandAt, TakeOutput, IInv, TypeOK
<1>9. ASSUME NEW v \in Task, await'[v] \in {"join", "timeout"}
      PROVE  target'[v] \in Known' /\ holder'[target'[v]] = v
  <2>1. v # t /\ await[v] \in {"join", "timeout"} /\ target'[v] = target[v] /\ target[v] # target[t]
    BY <1>8, <1>9
  <2>2. target[v] \in Known /\ holder[target[v]] = v /\ target[v] \in Task
    BY <2>1, KnownTasks DEF IInv, HandlesHeld
  <2> QED
    BY <1>1, <1>8, <2>1, <2>2
<1>10. /\ \A u \in Task : holder'[u] # NoTask /\ u \in finished' => u \in output'
       /\ \A u \in Task : waiting'[u] # NoTask => holder'[u] # NoTask /\ u \notin finished'
  BY <1>1, <1>8 DEF IInv, HandlesHeld
<1> QED
  BY <1>7, <1>9, <1>10 DEF HandlesHeld

\* Registering the waker of a task on what it joins leaves them as they are, too.
LEMMA RegisteredRoll ==
    ASSUME IInv, NEW t \in Task, t \in Known, target[t] \in Task, target[t] \in Known,
           holder[target[t]] = t, target[t] \notin output, RegisterJoin(target[t], t),
           UNCHANGED <<tasks, spawned, nextId, ready, await, target>>, polling' = NoTask
    PROVE  Roll' /\ HandlesHeld'
<1>1. /\ UNCHANGED <<holder, output, finished>> /\ Known' = Known /\ Unfinished' = Unfinished
      /\ waiting'[target[t]] = t
      /\ \A u \in Task : u # target[t] => waiting'[u] = waiting[u]
  BY DEF RegisterJoin, IInv, TypeOK, Known, Unfinished
<1>2. target[t] \notin finished
  BY TaskFacts DEF IInv, HandlesHeld
<1>3. \A u \in Task : waiting'[u] # NoTask => waiting'[u] \in Known'
  BY <1>1 DEF IInv, Roll
<1>4. \A u \in Task \ Known' : holder'[u] = NoTask /\ waiting'[u] = NoTask /\ await'[u] = "none"
  BY <1>1 DEF IInv, Roll
<1>5. Roll'
  BY <1>1, <1>3, <1>4 DEF IInv, Roll
<1>6. \A u \in Task : waiting'[u] # NoTask => holder'[u] # NoTask /\ u \notin finished'
  BY <1>1, <1>2, TaskFacts DEF IInv, HandlesHeld
<1> QED
  BY <1>1, <1>5, <1>6 DEF IInv, HandlesHeld

\* `JoinHandle::poll`.
LEMMA PollJoinKeeps == ASSUME IInv, NEW t \in Task, PollJoin(t) PROVE IInv'
<1> USE TaskFacts, WaitFacts
<1>0. /\ Polled(t) /\ await[t] = "join"
      /\ UNCHANGED <<now, tasks, spawned, status, nextId, ready, sleepVars>>
  BY DEF PollJoin
<1>a. /\ target[t] \in Task /\ target[t] \in Known /\ holder[target[t]] = t
      /\ t \in tasks /\ t \in Unfinished
      /\ \A v \in Task : await[v] \in {"join", "timeout"} /\ target[v] = target[t] => v = t
  BY <1>0, JoinFacts
<1>1. CASE target[t] \in output
  <2>0. TakeOutput(target[t]) /\ StandAt(t, "none", NoTask) /\ UNCHANGED polling
    BY <1>1 DEF PollJoin
  <2>1. TypeOK'
    BY <1>0, <1>a, <2>0 DEF IInv, TypeOK, TakeOutput, StandAt, sleepVars, Kinds
  <2>2. Roll' /\ HandlesHeld'
    BY <1>0, <1>a, <2>0, TakenRoll DEF Unfinished
  <2>3. SleepsHeld' /\ TimersAim' /\ TimersOwned' /\ NeverBackwards'
    BY <1>0, <2>0 DEF IInv, TypeOK, SleepsHeld, TimersAim, TimersOwned, NeverBackwards,
       TakeOutput, StandAt, sleepVars, Unfinished, Known
  <2> QED
    BY <2>1, <2>2, <2>3 DEF IInv
<1>2. CASE target[t] \notin output
  <2>0. RegisterJoin(target[t], t) /\ polling' = NoTask /\ UNCHANGED awaitVars
    BY <1>2 DEF PollJoin
  <2>1. TypeOK'
    BY <1>0, <1>a, <2>0 DEF IInv, TypeOK, RegisterJoin, awaitVars, sleepVars
  <2>2. Roll' /\ HandlesHeld'
    BY <1>0, <1>a, <1>2, <2>0, RegisteredRoll DEF awaitVars, Unfinished
  <2>3. SleepsHeld' /\ TimersAim' /\ TimersOwned' /\ NeverBackwards'
    BY <1>0, <2>0 DEF IInv, TypeOK, SleepsHeld, TimersAim, TimersOwned, NeverBackwards,
       RegisterJoin, awaitVars, sleepVars, Unfinished, Known
  <2> QED
    BY <2>1, <2>2, <2>3 DEF IInv
<1> QED
  BY <1>1, <1>2

\* The drop of some sleeps that are no longer awaited takes their timers along.
LEMMA DropSleepsFacts ==
    ASSUME IInv, NEW ws \in SUBSET Wait, DropSleeps(ws)
    PROVE  /\ queue' \subseteq queue
           /\ deadline' \in [Wait -> Instant \cup {NoTime}]
           /\ timer' \in [Wait -> Event \cup {NoEvent}]
           /\ \A w \in ws : deadline'[w] = NoTime /\ timer'[w] = NoEvent
           /\ \A w \in Wait \ ws : deadline'[w] = deadline[w] /\ timer'[w] = timer[w]
           /\ \A e \in queue' : \E w \in Wait \ ws : timer[w] = e
BY DEF IInv, TypeOK, TimersOwned, DropSleeps, Disarmed

\* What arming a pending sleep does.
LEMMA ArmSleepFacts ==
    ASSUME IInv, NEW w \in Wait, NEW t \in Task, deadline[w] # NoTime, ~ Due(w), ArmSleep(w, t)
    PROVE  /\ queue' \subseteq Event /\ nextSeq' \in Nat
           /\ timer' \in [Wait -> Event \cup {NoEvent}]
           /\ \A e \in queue' : e.at >= now /\ (e \in queue \/ e.waker = t)
           /\ timer'[w] \in Event /\ timer'[w].at = deadline[w]
           /\ \A v \in Wait \ {w} : timer'[v] = timer[v]
           /\ \A e \in queue' : \E v \in Wait : timer'[v] = e
           /\ UNCHANGED <<deadline, sleeps>>
<1>1. deadline[w] \in Instant /\ deadline[w] >= now /\ timer[w] \in Event \cup {NoEvent}
  BY DEF IInv, TypeOK, Due, Instant
<1>2. CASE Armed(w, t)
  BY <1>1, <1>2, TaskFacts DEF IInv, TypeOK, TimersAim, TimersOwned, NeverBackwards,
     ArmSleep, Armed, sleepVars
<1>3. CASE ~ Armed(w, t)
  <2> DEFINE fresh == [at |-> deadline[w], seq |-> nextSeq, waker |-> t]
  <2>1. /\ queue' = Disarmed({w}) \cup {fresh} /\ nextSeq' = nextSeq + 1
        /\ timer' = [timer EXCEPT ![w] = fresh] /\ UNCHANGED <<deadline, sleeps>>
    BY <1>3 DEF ArmSleep
  <2>2. fresh \in Event /\ fresh.at = deadline[w] /\ fresh.waker = t
    BY <1>1 DEF IInv, TypeOK, Event
  <2> HIDE DEF fresh
  <2>3. timer'[w] = fresh /\ \A v \in Wait \ {w} : timer'[v] = timer[v]
    BY <2>1 DEF IInv, TypeOK
  <2>4. \A f \in queue' : f = fresh \/ (f \in queue /\ f # timer[w])
    BY <2>1 DEF Disarmed
  <2>5. \A f \in queue' : \E v \in Wait : timer'[v] = f
    BY <2>3, <2>4 DEF IInv, TimersOwned
  <2>6. timer' \in [Wait -> Event \cup {NoEvent}] /\ nextSeq' \in Nat
    BY <2>1, <2>2 DEF IInv, TypeOK
  <2>8. queue' \subseteq Event
    BY <2>2, <2>4 DEF IInv, TypeOK
  <2>7. \A f \in queue' : f.at >= now /\ (f \in queue \/ f.waker = t)
    BY <1>1, <2>2, <2>4 DEF IInv, NeverBackwards
  <2> QED
    BY <2>1, <2>2, <2>3, <2>5, <2>6, <2>7, <2>8
<1> QED
  BY <1>2, <1>3

\* `Sleep::poll`.
LEMMA PollSleepKeeps == ASSUME IInv, NEW t \in Task, PollSleep(t) PROVE IInv'
<1> USE TaskFacts, WaitFacts
<1>0. /\ Polled(t) /\ await[t] = "sleep" /\ Awaited(t) \in Wait
      /\ UNCHANGED <<now, tasks, spawned, status, nextId, ready, joinVars>>
  BY DEF PollSleep
<1>a. t \in tasks /\ t \in Unfinished /\ t \in Known
  BY <1>0 DEF IInv, Roll, Polled, Unfinished
<1>1. CASE Due(Awaited(t))
  <2>0. DropSleeps({Awaited(t)}) /\ StandAt(t, "none", NoTask) /\ UNCHANGED polling
    BY <1>1 DEF PollSleep
  <2>a. UNCHANGED <<nextSeq, sleeps>>
    BY <2>0 DEF DropSleeps
  <2>1. TypeOK'
    BY <1>0, <2>0, <2>a, DropSleepsFacts DEF IInv, TypeOK, StandAt, joinVars, Kinds
  <2>2. Roll'
    BY <1>0, <1>a, <2>0 DEF IInv, TypeOK, Roll, StandAt, joinVars, Unfinished, Known
  <2>b. /\ deadline'[Awaited(t)] = NoTime /\ timer'[Awaited(t)] = NoEvent
        /\ \A w \in Wait : w # Awaited(t) => deadline'[w] = deadline[w] /\ timer'[w] = timer[w]
    BY <1>0, <2>0 DEF DropSleeps
  <2>c. await'[t] = "none" /\ \A v \in Task : v # t => await'[v] = await[v]
    BY <2>0 DEF IInv, TypeOK, StandAt
  <2>3. SleepsHeld' /\ TimersAim'
    BY <1>0, <2>b, <2>c DEF IInv, SleepsHeld, TimersAim, joinVars, Unfinished, Known
  <2>4. TimersOwned' /\ NeverBackwards'
    BY <1>0, <2>0, DropSleepsFacts DEF IInv, TimersOwned, NeverBackwards, Known
  <2>5. HandlesHeld'
    BY <1>0, <2>0 DEF IInv, TypeOK, HandlesHeld, StandAt, joinVars, Known
  <2> QED
    BY <2>1, <2>2, <2>3, <2>4, <2>5 DEF IInv
<1>2. CASE ~ Due(Awaited(t))
  <2>0. ArmSleep(Awaited(t), t) /\ polling' = NoTask /\ UNCHANGED awaitVars
    BY <1>2 DEF PollSleep
  <2>a. deadline[Awaited(t)] # NoTime
    BY <1>0 DEF IInv, SleepsHeld
  <2>1. TypeOK'
    BY <1>0, <1>2, <2>0, <2>a, ArmSleepFacts DEF IInv, TypeOK, awaitVars, joinVars
  <2>2. Roll'
    BY <1>0, <1>a, <2>0 DEF IInv, TypeOK, Roll, awaitVars, joinVars, Unfinished, Known
  <2>3. SleepsHeld' /\ TimersAim'
    BY <1>0, <1>2, <2>0, <2>a, ArmSleepFacts DEF IInv, TypeOK, SleepsHeld, TimersAim,
       awaitVars,
       joinVars, Unfinished, Known
  <2>4. TimersOwned' /\ NeverBackwards'
    BY <1>0, <1>a, <1>2, <2>0, <2>a, ArmSleepFacts DEF IInv, TimersOwned,
       NeverBackwards, Known
  <2>5. HandlesHeld'
    BY <1>0, <2>0 DEF IInv, TypeOK, HandlesHeld, awaitVars, joinVars, Known
  <2> QED
    BY <2>1, <2>2, <2>3, <2>4, <2>5 DEF IInv
<1> QED
  BY <1>1, <1>2

\* `Timeout::poll`: the drop of the deadline, whoever wins.
LEMMA PollTimeoutKeeps == ASSUME IInv, NEW t \in Task, PollTimeout(t) PROVE IInv'
<1> USE TaskFacts, WaitFacts
<1>0. /\ Polled(t) /\ await[t] = "timeout" /\ Awaited(t) \in Wait
      /\ UNCHANGED <<now, tasks, spawned, status, nextId, ready>>
  BY DEF PollTimeout
<1>a. /\ target[t] \in Task /\ target[t] \in Known /\ holder[target[t]] = t
      /\ t \in tasks /\ t \in Unfinished /\ t \in Known
      /\ \A v \in Task : await[v] \in {"join", "timeout"} /\ target[v] = target[t] => v = t
  BY <1>0, JoinFacts DEF Unfinished
<1>b. ASSUME DropSleeps({Awaited(t)}), StandAt(t, "none", NoTask),
             UNCHANGED <<polling, finished>>, output' \subseteq output
      PROVE  /\ queue' \subseteq Event /\ nextSeq' \in Nat /\ sleeps' \in 0 .. MaxSleeps
             /\ deadline' \in [Wait -> Instant \cup {NoTime}]
             /\ timer' \in [Wait -> Event \cup {NoEvent}]
             /\ await' \in [Task -> Kinds] /\ target' \in [Task -> Task \cup {NoTask}]
             /\ SleepsHeld' /\ TimersAim' /\ TimersOwned' /\ NeverBackwards'
  <2>1. UNCHANGED <<nextSeq, sleeps>>
    BY <1>b DEF DropSleeps
  <2>2. /\ deadline'[Awaited(t)] = NoTime /\ timer'[Awaited(t)] = NoEvent
        /\ \A w \in Wait : w # Awaited(t) => deadline'[w] = deadline[w] /\ timer'[w] = timer[w]
    BY <1>0, <1>b DEF DropSleeps
  <2>3. await'[t] = "none" /\ \A v \in Task : v # t => await'[v] = await[v]
    BY <1>b DEF IInv, TypeOK, StandAt
  <2>4. SleepsHeld' /\ TimersAim'
    BY <1>0, <1>b, <2>2, <2>3 DEF IInv, SleepsHeld, TimersAim, Unfinished, Known
  <2>5. TimersOwned' /\ NeverBackwards'
    BY <1>0, <1>b, DropSleepsFacts DEF IInv, TimersOwned, NeverBackwards, Known
  <2>6. await' \in [Task -> Kinds] /\ target' \in [Task -> Task \cup {NoTask}]
    BY <1>b DEF IInv, TypeOK, StandAt, Kinds
  <2>7. /\ queue' \subseteq Event /\ deadline' \in [Wait -> Instant \cup {NoTime}]
        /\ timer' \in [Wait -> Event \cup {NoEvent}]
    BY <1>0, <1>b, DropSleepsFacts DEF IInv, TypeOK
  <2>8. nextSeq' \in Nat /\ sleeps' \in 0 .. MaxSleeps
    BY <2>1 DEF IInv, TypeOK
  <2> QED
    BY <2>4, <2>5, <2>6, <2>7, <2>8
<1>1. CASE target[t] \in output
  <2>0. /\ TakeOutput(target[t]) /\ DropSleeps({Awaited(t)})
        /\ StandAt(t, "none", NoTask) /\ UNCHANGED polling
    BY <1>1 DEF PollTimeout
  <2>1. output' \subseteq output /\ UNCHANGED finished
    BY <2>0 DEF TakeOutput
  <2>2. TypeOK'
    BY <1>0, <1>a, <1>b, <2>0, <2>1 DEF IInv, TypeOK, TakeOutput
  <2>3. Roll' /\ HandlesHeld'
    BY <1>0, <1>a, <2>0, TakenRoll
  <2> QED
    BY <1>b, <2>0, <2>1, <2>2, <2>3 DEF IInv
<1>2. CASE target[t] \notin output /\ Due(Awaited(t))
  <2>0. /\ DropHandles({target[t]}) /\ DropSleeps({Awaited(t)})
        /\ StandAt(t, "none", NoTask) /\ UNCHANGED polling
    BY <1>2 DEF PollTimeout
  <2>1. UNCHANGED <<output, finished>>
    BY <2>0 DEF DropHandles
  <2>2. TypeOK'
    BY <1>0, <1>a, <1>b, <2>0, <2>1 DEF IInv, TypeOK, DropHandles
  <2>3. Roll'
    BY <1>0, <1>a, <2>0 DEF IInv, TypeOK, Roll, DropHandles, StandAt, Unfinished, Known
  <2>a. /\ await'[t] = "none"
        /\ \A v \in Task : v # t => await'[v] = await[v] /\ target'[v] = target[v]
    BY <2>0 DEF IInv, TypeOK, StandAt
  <2>b. \A v \in Task : /\ v # target[t] => holder'[v] = holder[v] /\ waiting'[v] = waiting[v]
                        /\ v = target[t] => holder'[v] = NoTask /\ waiting'[v] = NoTask
    BY <2>0 DEF DropHandles
  <2>4. HandlesHeld'
    BY <1>0, <1>a, <2>1, <2>a, <2>b, KnownTasks DEF IInv, HandlesHeld, Known
  <2> QED
    BY <1>b, <2>0, <2>1, <2>2, <2>3, <2>4 DEF IInv
<1>3. CASE target[t] \notin output /\ ~ Due(Awaited(t))
  <2>0. /\ RegisterJoin(target[t], t) /\ ArmSleep(Awaited(t), t) /\ polling' = NoTask
        /\ UNCHANGED awaitVars
    BY <1>3 DEF PollTimeout
  <2>a. deadline[Awaited(t)] # NoTime
    BY <1>0 DEF IInv, SleepsHeld
  <2>b. /\ UNCHANGED <<holder, output, finished>>
        /\ waiting' = [waiting EXCEPT ![target[t]] = t]
    BY <2>0 DEF RegisterJoin
  <2>1. TypeOK'
    <3>1. /\ queue' \subseteq Event /\ nextSeq' \in Nat
          /\ timer' \in [Wait -> Event \cup {NoEvent}]
      BY <1>0, <1>3, <2>0, <2>a, ArmSleepFacts
    <3>2. UNCHANGED <<deadline, sleeps>>
      BY <2>0 DEF ArmSleep, sleepVars
    <3>3. waiting' \in [Task -> Task \cup {NoTask}]
      BY <2>b DEF IInv, TypeOK
    <3> QED
      BY <1>0, <2>0, <2>b, <3>1, <3>2, <3>3 DEF IInv, TypeOK, awaitVars
  <2>2. Roll' /\ HandlesHeld'
    BY <1>0, <1>a, <1>3, <2>0, RegisteredRoll DEF awaitVars
  <2>3. SleepsHeld' /\ TimersAim'
    BY <1>0, <1>3, <2>0, <2>a, ArmSleepFacts DEF IInv, TypeOK, SleepsHeld, TimersAim,
       awaitVars,
       RegisterJoin, Unfinished, Known
  <2>4. TimersOwned' /\ NeverBackwards'
    BY <1>0, <1>a, <1>3, <2>0, <2>a, ArmSleepFacts DEF IInv, TimersOwned,
       NeverBackwards, Known
  <2> QED
    BY <2>1, <2>2, <2>3, <2>4 DEF IInv
<1> QED
  BY <1>1, <1>2, <1>3

\* A task returns: what it held goes, and its own handle keeps the output.
LEMMA FinishKeeps == ASSUME IInv, NEW t \in Task, Finish(t) PROVE IInv'
<1> USE TaskFacts, WaitFacts
<1>0. /\ Polled(t) /\ await[t] = "none" /\ DropSleeps({Kept(t)})
      /\ finished' = finished \cup {t} /\ output' = output \cup {t}
      /\ tasks' = tasks \ {t} /\ polling' = NoTask /\ ready' = Woken(t)
      /\ UNCHANGED <<now, spawned, nextId, status, await, target>>
  BY DEF Finish, Running, awaitVars
<1>a. t \in tasks /\ t \in Known /\ t \notin Roster(spawned)
  BY <1>0 DEF IInv, Roll, Polled, Unfinished
<1>b. \A u \in Task : /\ holder'[u] = IF u \in Holds(t) THEN NoTask ELSE holder[u]
                      /\ waiting'[u] = IF u \in Holds(t) \cup {t} THEN NoTask ELSE waiting[u]
  BY DEF Finish
<1>c. /\ deadline'[Kept(t)] = NoTime /\ timer'[Kept(t)] = NoEvent
      /\ \A w \in Wait : w # Kept(t) => deadline'[w] = deadline[w] /\ timer'[w] = timer[w]
      /\ UNCHANGED <<nextSeq, sleeps>>
  BY <1>0 DEF DropSleeps
<1>d. \A u \in Known : waiting[u] \in Known \cup {NoTask}
  BY KnownTasks DEF IInv, Roll
<1>e. holder' \in [Task -> Task \cup {NoTask}] /\ waiting' \in [Task -> Task \cup {NoTask}]
  BY DEF IInv, TypeOK, Finish
<1>f. ready' \subseteq Task /\ output' \subseteq Task /\ finished' \subseteq Task
  BY <1>0 DEF IInv, TypeOK, Woken
<1>g. /\ queue' \subseteq Event /\ deadline' \in [Wait -> Instant \cup {NoTime}]
      /\ timer' \in [Wait -> Event \cup {NoEvent}]
  <2>1. {Kept(t)} \in SUBSET Wait /\ queue \subseteq Event
    BY DEF IInv, TypeOK
  <2> QED
    BY <1>0, <2>1, DropSleepsFacts
<1>1. TypeOK'
  BY <1>0, <1>a, <1>c, <1>e, <1>f, <1>g DEF IInv, TypeOK
<1>2. Roll'
  <2>1. Known' = Known /\ Unfinished' = Unfinished \ {t} /\ Known \subseteq Task
    BY <1>0, KnownTasks DEF IInv, Unfinished, Known
  <2>2. /\ tasks' \cup Roster(spawned)' \subseteq Unfinished'
        /\ tasks' \cap Roster(spawned)' = {}
    <3>1. spawned' = spawned /\ Roster(spawned)' = Roster(spawned)
      BY <1>0 DEF Roster
    <3>2. tasks \cup Roster(spawned) \subseteq Unfinished /\ tasks \cap Roster(spawned) = {}
      BY DEF IInv, Roll
    <3>3. tasks' = tasks \ {t} /\ t \notin Roster(spawned)
      BY <1>0, <1>a
    <3> QED
      BY <2>1, <3>1, <3>2, <3>3
  <2>3. finished' \subseteq Known' /\ output' \subseteq finished' /\ ready' \subseteq Known'
    <3>1. waiting[t] \in Known \cup {NoTask} /\ ready' \subseteq ready \cup ({waiting[t]} \ {NoTask})
      BY <1>0, <1>a, <1>d DEF Woken
    <3>2. finished \subseteq Known /\ output \subseteq finished /\ ready \subseteq Known
      BY DEF IInv, Roll
    <3> QED
      BY <1>0, <1>a, <2>1, <3>1, <3>2
  <2>4. \A u \in Task : waiting'[u] # NoTask => waiting'[u] \in Known'
    BY <1>b, <2>1 DEF IInv, Roll
  <2>5. \A u \in Task \ Known' : holder'[u] = NoTask /\ waiting'[u] = NoTask /\ await'[u] = "none"
    BY <1>0, <1>b, <2>1 DEF IInv, Roll
  <2> QED
    BY <1>0, <2>2, <2>3, <2>4, <2>5 DEF Roll
<1>3. SleepsHeld' /\ TimersAim'
  BY <1>0, <1>a, <1>c DEF IInv, SleepsHeld, TimersAim, Unfinished, Known
<1>4. TimersOwned' /\ NeverBackwards'
  BY <1>0, DropSleepsFacts DEF IInv, TimersOwned, NeverBackwards, Known
<1>5. HandlesHeld'
  BY <1>0, <1>a, <1>b, KnownTasks DEF IInv, TypeOK, HandlesHeld, Holds, Known
<1> QED
  BY <1>1, <1>2, <1>3, <1>4, <1>5 DEF IInv

\* `Handle::spawn` by a running task.
LEMMA SpawnKeeps ==
    ASSUME IInv, NEW t \in Task, NEW u \in Task, NEW withKept \in BOOLEAN,
           NEW given \in SUBSET Holds(t), Spawn(t, u, withKept, given)
    PROVE  IInv'
<1> USE TaskFacts, WaitFacts
<1>0. /\ Polled(t) /\ await[t] = "none" /\ u = nextId /\ nextId' = nextId + 1 /\ nextId < MaxTasks
      /\ spawned' = Append(spawned, u) /\ ready' = ready \cup {u}
      /\ UNCHANGED <<now, queue, nextSeq, tasks, polling, status, await, target, sleeps,
                     waiting, output, finished>>
  BY DEF Spawn, Running, awaitVars, ReadyOnSpawn
<1>a. t \in tasks /\ t \in Known /\ t \in Unfinished /\ t # u
  BY <1>0 DEF IInv, Roll, Polled, Unfinished, Known
<1>b. /\ u \notin Known /\ Known' = Known \cup {u} /\ u \notin finished
  BY <1>0, ExecutorAssumption DEF IInv, TypeOK, Roll, Known
<1>c. /\ spawned' \in Seq(Task) /\ Roster(spawned') = Roster(spawned) \cup {u}
  BY <1>0, RosterAppend DEF IInv, TypeOK
<1>d. holder' = [v \in Task |-> IF v = u THEN t ELSE IF v \in given THEN u ELSE holder[v]]
  BY DEF Spawn
<1>e. deadline[Kept(u)] = NoTime /\ timer[Kept(u)] = NoEvent
  BY <1>b DEF IInv, TypeOK, SleepsHeld, TimersAim, Unfinished
<1>f. /\ deadline' \in [Wait -> Instant \cup {NoTime}]
      /\ timer' \in [Wait -> Event \cup {NoEvent}]
      /\ \A w \in Wait \ {Kept(t), Kept(u)} : deadline'[w] = deadline[w] /\ timer'[w] = timer[w]
      /\ \/ /\ deadline'[Kept(u)] = deadline[Kept(t)] /\ timer'[Kept(u)] = timer[Kept(t)]
            /\ deadline'[Kept(t)] = NoTime /\ timer'[Kept(t)] = NoEvent
         \/ /\ deadline'[Kept(u)] = deadline[Kept(u)] /\ timer'[Kept(u)] = timer[Kept(u)]
            /\ deadline'[Kept(t)] = deadline[Kept(t)] /\ timer'[Kept(t)] = timer[Kept(t)]
  <2>1. CASE withKept
    <3>1. /\ deadline' = [deadline EXCEPT ![Kept(u)] = deadline[Kept(t)], ![Kept(t)] = NoTime]
          /\ timer' = [timer EXCEPT ![Kept(u)] = timer[Kept(t)], ![Kept(t)] = NoEvent]
      BY <2>1 DEF Spawn
    <3>2. Kept(t) # Kept(u)
      BY <1>a
    <3> QED
      BY <3>1, <3>2 DEF IInv, TypeOK
  <2>2. CASE ~ withKept
    BY <2>2 DEF Spawn, IInv, TypeOK
  <2> QED
    BY <2>1, <2>2
<1>1. TypeOK'
  <2>1. nextId' \in 0 .. MaxTasks
    <3>1. nextId \in 0 .. MaxTasks /\ MaxTasks \in Nat
      BY ExecutorAssumption DEF IInv, TypeOK
    <3> QED
      BY <1>0, <3>1
  <2>2. holder' \in [Task -> Task \cup {NoTask}]
    BY <1>d DEF IInv, TypeOK
  <2> QED
    BY <1>0, <1>c, <1>f, <2>1, <2>2 DEF IInv, TypeOK
<1>2. Roll'
  BY <1>0, <1>a, <1>b, <1>c, <1>d, KnownTasks DEF IInv, Roll, Unfinished, Holds
<1>3. SleepsHeld'
  <2>1. Unfinished' = Unfinished \cup {u}
    BY <1>0, <1>b DEF Unfinished
  <2>2. \A v \in Task : deadline'[Awaited(v)] = deadline[Awaited(v)] /\ await'[v] = await[v]
    BY <1>0, <1>f
  <2>3. \A v \in Task : deadline'[Kept(v)] # NoTime => v \in Unfinished'
    <3> TAKE v \in Task
    <3>1. CASE v = u
      BY <2>1, <3>1
    <3>2. CASE v = t
      BY <1>a, <2>1, <3>2
    <3>3. CASE v # u /\ v # t
      BY <1>f, <2>1, <3>3 DEF IInv, SleepsHeld
    <3> QED
      BY <3>1, <3>2, <3>3
  <2> QED
    BY <2>1, <2>2, <2>3 DEF IInv, SleepsHeld
<1>4. TimersAim'
  BY <1>e, <1>f DEF IInv, TimersAim
<1>5. TimersOwned'
  <2> SUFFICES ASSUME NEW e \in queue PROVE e.waker \in Known' /\ \E v \in Wait : timer'[v] = e
    BY <1>0 DEF TimersOwned
  <2>1. PICK w \in Wait : timer[w] = e /\ e.waker \in Known /\ e # NoEvent
    BY DEF IInv, TypeOK, TimersOwned
  <2> QED
    BY <1>b, <1>e, <1>f, <2>1
<1>6. HandlesHeld'
  <2>1. \A v \in Task : await[v] \in {"join", "timeout"} => v # t /\ target[v] \in Known
                                       /\ holder[target[v]] = v /\ target[v] \notin given
    BY <1>0 DEF IInv, HandlesHeld, Holds
  <2>2. \A v \in Task : await[v] \in {"join", "timeout"} =>
                              target[v] \in Known' /\ holder'[target[v]] = v
    BY <1>b, <1>d, <2>1, KnownTasks DEF IInv
  <2>3. \A v \in Task : holder'[v] # NoTask => v = u \/ holder[v] # NoTask
    BY <1>d DEF Holds
  <2>4. \A v \in Task : holder[v] # NoTask => holder'[v] # NoTask
    BY <1>d
  <2> QED
    BY <1>0, <1>b, <2>2, <2>3, <2>4 DEF IInv, HandlesHeld
<1>7. NeverBackwards'
  BY <1>0 DEF IInv, NeverBackwards
<1> QED
  BY <1>1, <1>2, <1>3, <1>4, <1>5, <1>6, <1>7 DEF IInv

\* `run` moves to the earliest event: no other is behind it.
LEMMA AdvanceKeeps == ASSUME IInv, Advance PROVE IInv'
<1> USE TaskFacts, WaitFacts, RosterEmpty
<1>0. Roster(spawned) \subseteq Task /\ <<>> \in Seq(Task)
  BY RosterType DEF IInv, TypeOK
<1>1. PICK e \in queue :
         /\ IsEarliest(e, queue)
         /\ queue' = queue \ {e}
         /\ IF e.at < now
            THEN status' = "clock_error" /\ UNCHANGED <<now, ready>>
            ELSE now' = e.at /\ ready' = ready \cup {e.waker} /\ UNCHANGED status
  BY DEF Advance
<1>2. /\ polling = NoTask /\ tasks' = Adopted /\ spawned' = <<>>
      /\ UNCHANGED <<nextId, polling, await, target, nextSeq, deadline, timer, sleeps, joinVars>>
  BY DEF Advance, Quiet, Between, awaitVars
<1>3. e \in Event /\ e.at \in Instant /\ e.waker \in Task /\ e.waker \in Known
  BY DEF IInv, TypeOK, TimersOwned, Event
<1>4. now' = e.at /\ ready' = ready \cup {e.waker} /\ UNCHANGED status
  BY <1>1, <1>3 DEF IInv, TypeOK, NeverBackwards, Instant
<1>5. \A f \in queue' : f.at >= e.at
  BY <1>1, <1>3 DEF IInv, TypeOK, IsEarliest, Before, Event, Instant
<1>6. TypeOK'
  BY <1>0, <1>1, <1>2, <1>3, <1>4 DEF IInv, TypeOK, Adopted, joinVars
<1>7. Roll'
  BY <1>0, <1>2, <1>3, <1>4 DEF IInv, Roll, Adopted, joinVars, Unfinished, Known
<1>8. SleepsHeld' /\ TimersAim' /\ TimersOwned' /\ HandlesHeld' /\ NeverBackwards'
  BY <1>1, <1>2, <1>4, <1>5 DEF IInv, SleepsHeld, TimersAim, TimersOwned, HandlesHeld,
     NeverBackwards, joinVars, Unfinished, Known
<1> QED
  BY <1>6, <1>7, <1>8 DEF IInv

\* The executor with its roots spawned and nothing polled yet.
LEMMA InitEstablishes == ASSUME Init PROVE IInv
<1> USE TaskFacts, WaitFacts
<1>0. /\ Roots \in Nat /\ 0 .. (Roots - 1) \subseteq Task /\ Roots \in 0 .. MaxTasks
      /\ 0 \in Instant
  BY ExecutorAssumption, MaxTimeAssumption DEF Task, Instant
<1>1. spawned \in Seq(Task)
  BY <1>0 DEF Init, Task
<1>2. Roster(spawned) \subseteq 0 .. (Roots - 1)
  BY <1>0 DEF Init, Roster
<1>3. TypeOK
  BY <1>0, <1>1, ExecutorAssumption DEF Init, TypeOK, Kinds
<1>4. Roll
  BY <1>0, <1>2 DEF Init, Roll, Unfinished, Known
<1>5. SleepsHeld /\ TimersAim /\ TimersOwned /\ HandlesHeld /\ NeverBackwards
  BY DEF Init, SleepsHeld, TimersAim, TimersOwned, HandlesHeld, NeverBackwards
<1> QED
  BY <1>3, <1>4, <1>5 DEF IInv

\* Every step: one lemma per action.
LEMMA StepKeeps == ASSUME IInv, [Next]_vars PROVE IInv'
<1>1. CASE Loop
  BY <1>1, TakeKeeps, ReturnKeeps, StallKeeps, AdvanceKeeps DEF Loop
<1>2. CASE UNCHANGED vars
  BY <1>2 DEF vars, IInv, TypeOK, Roll, SleepsHeld, TimersAim, TimersOwned, HandlesHeld,
     NeverBackwards, Unfinished, Known
<1>3. ASSUME NEW t \in Task, Step(t) PROVE IInv'
  <2>1. ASSUME NEW u \in Task, NEW withKept \in BOOLEAN, Spawn(t, u, withKept, {}) PROVE IInv'
    BY <2>1, SpawnKeeps
  <2>2. ASSUME NEW u \in Task, NEW withKept \in BOOLEAN, NEW v \in Holds(t),
               Spawn(t, u, withKept, {v})
        PROVE  IInv'
    <3>1. {v} \in SUBSET Holds(t)
      OBVIOUS
    <3> QED
      BY <2>2, <3>1, SpawnKeeps
  <2>3. ASSUME NEW d \in Durations, AwaitSleep(t, d) \/ LookAtSleep(t, d) PROVE IInv'
    BY <2>3, AwaitSleepKeeps, LookAtSleepKeeps
  <2>4. ASSUME NEW u \in Task, AwaitJoin(t, u) \/ LookAtJoin(t, u) \/ Detach(t, u) PROVE IInv'
    BY <2>4, AwaitJoinKeeps, LookAtJoinKeeps, DetachKeeps
  <2>5. ASSUME NEW u \in Task, NEW d \in Durations, AwaitTimeout(t, u, d) PROVE IInv'
    BY <2>5, AwaitTimeoutKeeps
  <2>6. CASE AwaitKept(t) \/ DropKept(t) \/ Park(t)
    BY <2>6, AwaitKeptKeeps, DropKeptKeeps, ParkKeeps
  <2>7. CASE PollSleep(t) \/ PollJoin(t) \/ PollTimeout(t) \/ PollPark(t) \/ Finish(t)
    BY <2>7, PollSleepKeeps, PollJoinKeeps, PollTimeoutKeeps, PollParkKeeps, FinishKeeps
  <2> QED
    BY <1>3, <2>1, <2>2, <2>3, <2>4, <2>5, <2>6, <2>7 DEF Step
<1> QED
  BY <1>1, <1>2, <1>3 DEF Next, Returned

--------------------------------------------------------------------------------
(* Theorems. *)

\* The invariant is inductive: it holds throughout every run of the executor.
THEOREM Inductive == Spec => []IInv
BY InitEstablishes, StepKeeps, PTL DEF Spec

\* Type correctness, for every run of any number of tasks.
THEOREM TypeCorrect == Spec => []TypeOK
<1>1. IInv => TypeOK
  BY DEF IInv
<1> QED
  BY <1>1, Inductive, PTL

\* The `Clock` error of `Executor::run` cannot happen to tasks that wait
\* through Sleep, JoinHandle and Timeout: no timer is ever behind the clock.
THEOREM ClockNeverFails == Spec => []NeverBackwards
<1>1. IInv => NeverBackwards
  BY DEF IInv
<1> QED
  BY <1>1, Inductive, PTL

\* A wait that was dropped or has completed leaves neither a timer in the queue
\* nor a waker in a join.
THEOREM AbandonedWaitsLeaveNoTrace == Spec => []NoTraceOfAbandonedWaits
<1>1. IInv => NoTraceOfAbandonedWaits
  BY TaskFacts DEF IInv, TypeOK, SleepsHeld, TimersAim, TimersOwned, HandlesHeld,
     NoTraceOfAbandonedWaits
<1> QED
  BY <1>1, Inductive, PTL

--------------------------------------------------------------------------------
(***************************************************************************)
(* No wake-up is lost: a task which is not ready waits for something that  *)
(* will wake it.  What follows from that about the end of a run and about  *)
(* the clock.                                                              *)
(***************************************************************************)

\* What was spawned is ready until the loop takes it on, and nobody who has not
\* finished is unknown to the loop.
Filed ==
    /\ Roster(spawned) \subseteq ready
    /\ Unfinished \subseteq Adopted

\* No two sleeps hold one timer, timers are told apart by their numbers, and a
\* timer stays in the queue until its deadline.
Timers ==
    /\ \A v, w \in Wait : timer[v] # NoEvent /\ timer[v] = timer[w] => v = w
    /\ \A w \in Wait : timer[w] # NoEvent => timer[w].seq < nextSeq
    /\ \A w \in Wait : timer[w] # NoEvent /\ deadline[w] > now => timer[w] \in queue

\* Task t stands at a wait and will be woken from it.
Registered(t) ==
    /\ await[t] # "none"
    /\ await[t] \in {"sleep", "timeout"} =>
          /\ timer[Awaited(t)] \in queue
          /\ timer[Awaited(t)].waker = t
          /\ timer[Awaited(t)].at = deadline[Awaited(t)]
    /\ await[t] \in {"join", "timeout"} =>
          target[t] \in Unfinished /\ waiting[target[t]] = t

WInv ==
    /\ IInv
    /\ Filed
    /\ Timers
    /\ \A t \in tasks \ (ready \cup {polling}) : Registered(t)
    /\ StallIsReal

--------------------------------------------------------------------------------
(* What the operations on sleeps do to the timers. *)

\* A step that does not touch them.
LEMMA SameTimers ==
    ASSUME Timers, UNCHANGED <<now, queue, nextSeq, deadline, timer>>
    PROVE  Timers'
BY DEF Timers

\* A sleep that is created has no timer yet.
LEMMA NewSleepTimers ==
    ASSUME IInv, Timers, NEW w \in Wait, NEW d, NewSleep(w, d), UNCHANGED <<now, queue, nextSeq>>
    PROVE  /\ Timers'
           /\ \A v \in Wait \ {w} : deadline'[v] = deadline[v] /\ timer'[v] = timer[v]
<1>1. /\ timer'[w] = NoEvent
      /\ \A v \in Wait \ {w} : deadline'[v] = deadline[v] /\ timer'[v] = timer[v]
  BY DEF NewSleep, IInv, TypeOK
<1> QED
  BY <1>1 DEF Timers

\* A sleep that moves takes its timer with it.
LEMMA MovedTimers ==
    ASSUME IInv, Timers, NEW a \in Wait, NEW b \in Wait, a # b,
           deadline' = [deadline EXCEPT ![b] = deadline[a], ![a] = NoTime],
           timer' = [timer EXCEPT ![b] = timer[a], ![a] = NoEvent],
           UNCHANGED <<now, queue, nextSeq>>
    PROVE  /\ Timers'
           /\ \A v \in Wait \ {a, b} : deadline'[v] = deadline[v] /\ timer'[v] = timer[v]
<1>1. /\ timer'[a] = NoEvent /\ timer'[b] = timer[a] /\ deadline'[b] = deadline[a]
      /\ \A v \in Wait \ {a, b} : deadline'[v] = deadline[v] /\ timer'[v] = timer[v]
  BY DEF IInv, TypeOK
<1>2. \A v \in Wait : v = a \/ v = b \/ v \in Wait \ {a, b}
  OBVIOUS
<1>3. ASSUME NEW v \in Wait, NEW w \in Wait, timer'[v] # NoEvent, timer'[v] = timer'[w]
      PROVE  v = w
  <2>1. v # a /\ w # a
    BY <1>1, <1>3
  <2>2. CASE v = b
    <3>1. timer[a] # NoEvent /\ (w # b => timer[a] = timer[w])
      BY <1>1, <1>2, <1>3, <2>1, <2>2
    <3> QED
      BY <2>1, <2>2, <3>1 DEF Timers
  <2>3. CASE w = b
    <3>1. timer[a] # NoEvent /\ (v # b => timer[a] = timer[v])
      BY <1>1, <1>2, <1>3, <2>1, <2>3
    <3> QED
      BY <2>1, <2>3, <3>1 DEF Timers
  <2>4. CASE v # b /\ w # b
    <3>1. timer'[v] = timer[v] /\ timer'[w] = timer[w]
      BY <1>1, <1>2, <2>1, <2>4
    <3> QED
      BY <1>3, <3>1 DEF Timers
  <2> QED
    BY <2>2, <2>3, <2>4
<1>4. ASSUME NEW w \in Wait, timer'[w] # NoEvent
      PROVE  timer'[w].seq < nextSeq'
  <2>1. w # a /\ (w = b => timer'[w] = timer[a]) /\ (w # b => timer'[w] = timer[w])
    BY <1>1, <1>2, <1>4
  <2> QED
    BY <1>4, <2>1 DEF Timers
<1>5. \A w \in Wait : timer'[w] # NoEvent =>
         \E v \in Wait : timer'[w] = timer[v] /\ deadline'[w] = deadline[v]
  BY <1>1, <1>2
<1>6. ASSUME NEW w \in Wait, timer'[w] # NoEvent, deadline'[w] > now'
      PROVE  timer'[w] \in queue'
  <2>1. PICK v \in Wait : timer'[w] = timer[v] /\ deadline'[w] = deadline[v]
    BY <1>5, <1>6
  <2>2. timer[v] # NoEvent /\ deadline[v] > now
    BY <1>6, <2>1
  <2> QED
    BY <2>1, <2>2 DEF Timers
<1> QED
  BY <1>1, <1>3, <1>4, <1>6 DEF Timers

\* The drop of some sleeps leaves the timers of the others where they are.
LEMMA DroppedTimers ==
    ASSUME IInv, Timers, NEW ws \in SUBSET Wait, DropSleeps(ws), UNCHANGED now
    PROVE  /\ Timers'
           /\ \A v \in Wait \ ws : /\ deadline'[v] = deadline[v] /\ timer'[v] = timer[v]
                                   /\ timer[v] \in queue => timer[v] \in queue'
<1>1. /\ \A w \in ws : timer'[w] = NoEvent
      /\ \A v \in Wait \ ws : deadline'[v] = deadline[v] /\ timer'[v] = timer[v]
      /\ nextSeq' = nextSeq /\ queue' = queue \ {timer[w] : w \in ws}
  BY DEF DropSleeps, Disarmed, IInv, TypeOK
<1>2. ASSUME NEW v \in Wait \ ws, timer[v] \in queue
      PROVE  timer[v] \in queue'
  <2>1. timer[v] # NoEvent
    BY <1>2, TaskFacts DEF IInv, TypeOK
  <2>2. \A w \in ws : timer[w] # timer[v]
    BY <1>2, <2>1 DEF Timers
  <2> QED
    BY <1>1, <1>2, <2>2
<1>3. \A w \in Wait : timer'[w] # NoEvent => w \in Wait \ ws /\ timer'[w] = timer[w]
  BY <1>1
<1>4. \A v, w \in Wait : timer'[v] # NoEvent /\ timer'[v] = timer'[w] => v = w
  BY <1>3 DEF Timers
<1>5. \A w \in Wait : timer'[w] # NoEvent => timer'[w].seq < nextSeq'
  BY <1>1, <1>3 DEF Timers
<1>6. \A w \in Wait : timer'[w] # NoEvent /\ deadline'[w] > now' => timer'[w] \in queue'
  BY <1>1, <1>2, <1>3 DEF Timers
<1> QED
  BY <1>1, <1>2, <1>4, <1>5, <1>6 DEF Timers

\* A timer pushed now is numbered apart from all others.
LEMMA FreshTimer ==
    ASSUME IInv, Timers, NEW w \in Wait, NEW e \in Event, e.seq = nextSeq, UNCHANGED now,
           nextSeq' = nextSeq + 1,
           queue' = Disarmed({w}) \cup {e},
           timer' = [timer EXCEPT ![w] = e],
           \A v \in Wait \ {w} : deadline'[v] = deadline[v]
    PROVE  /\ Timers'
           /\ timer'[w] = e /\ e \in queue'
           /\ \A v \in Wait \ {w} : /\ timer'[v] = timer[v]
                                    /\ timer[v] \in queue => timer[v] \in queue'
<1>1. timer'[w] = e /\ \A v \in Wait \ {w} : timer'[v] = timer[v]
  BY DEF IInv, TypeOK
<1>2. ASSUME NEW v \in Wait \ {w}, timer[v] \in queue
      PROVE  timer[v] \in queue'
  <2>1. timer[v] # NoEvent
    BY <1>2, TaskFacts DEF IInv, TypeOK
  <2>2. timer[v] # timer[w]
    BY <1>2, <2>1 DEF Timers
  <2> QED
    BY <1>2, <2>2 DEF Disarmed
<1>3. nextSeq \in Nat /\ \A v \in Wait : timer[v] \in Event \cup {NoEvent}
  BY DEF IInv, TypeOK
<1>4. \A v \in Wait : timer[v] # NoEvent => timer[v].seq \in Nat /\ timer[v].seq < nextSeq
  BY <1>3 DEF Timers, Event
<1>5. \A v \in Wait : timer[v] # e
  <2> SUFFICES ASSUME NEW v \in Wait, timer[v] = e PROVE FALSE
    OBVIOUS
  <2>1. timer[v] # NoEvent
    BY TaskFacts
  <2> QED
    BY <1>3, <1>4, <2>1
<1>6. \A u, v \in Wait : timer'[u] # NoEvent /\ timer'[u] = timer'[v] => u = v
  BY <1>1, <1>5 DEF Timers
<1>7. \A v \in Wait : timer'[v] # NoEvent => timer'[v].seq < nextSeq'
  BY <1>1, <1>3, <1>4
<1>8. ASSUME NEW v \in Wait, timer'[v] # NoEvent, deadline'[v] > now'
      PROVE  timer'[v] \in queue'
  <2>1. CASE v = w
    BY <1>1, <2>1
  <2>2. CASE v # w
    <3>1. timer'[v] = timer[v] /\ deadline'[v] = deadline[v]
      BY <1>1, <2>2
    <3>2. timer[v] \in queue
      BY <1>8, <3>1 DEF Timers
    <3> QED
      BY <1>2, <2>2, <3>1, <3>2
  <2> QED
    BY <2>1, <2>2
<1> QED
  BY <1>1, <1>2, <1>6, <1>7, <1>8 DEF Timers

\* A pending sleep that was polled by task t will wake t, and no other sleep
\* has lost its timer to it.
LEMMA ArmedTimers ==
    ASSUME IInv, Timers, NEW w \in Wait, NEW t \in Task, deadline[w] # NoTime, ~ Due(w),
           ArmSleep(w, t), UNCHANGED now
    PROVE  /\ Timers'
           /\ timer'[w] \in queue' /\ timer'[w].waker = t /\ timer'[w].at = deadline'[w]
           /\ \A v \in Wait : deadline'[v] = deadline[v]
           /\ \A v \in Wait \ {w} : /\ timer'[v] = timer[v]
                                    /\ timer[v] \in queue => timer[v] \in queue'
<1>1. deadline[w] \in Instant /\ now \in Instant /\ deadline[w] > now
  BY DEF IInv, TypeOK, Due, Instant
<1>2. CASE Armed(w, t)
  <2>1. UNCHANGED <<queue, nextSeq, deadline, timer>>
    BY <1>2 DEF ArmSleep, sleepVars
  <2> QED
    BY <1>1, <1>2, <2>1 DEF Timers, Armed, IInv, TimersAim
<1>3. CASE ~ Armed(w, t)
  <2> DEFINE fresh == [at |-> deadline[w], seq |-> nextSeq, waker |-> t]
  <2>1. /\ queue' = Disarmed({w}) \cup {fresh} /\ nextSeq' = nextSeq + 1
        /\ timer' = [timer EXCEPT ![w] = fresh] /\ UNCHANGED deadline
    BY <1>3 DEF ArmSleep
  <2>2. fresh \in Event /\ fresh.at = deadline[w] /\ fresh.waker = t /\ fresh.seq = nextSeq
    BY <1>1 DEF IInv, TypeOK, Event
  <2> HIDE DEF fresh
  <2> QED
    BY <2>1, <2>2, FreshTimer
<1> QED
  BY <1>2, <1>3

--------------------------------------------------------------------------------
(* What a poll of one task does to the others. *)

\* The step keeps away from the waits of every task but t; whoever joins a task
\* that finishes in it is woken.
Undisturbed(t) ==
    /\ ready \subseteq ready' /\ tasks' \subseteq tasks
    /\ \A x \in tasks \ {t} :
          /\ await'[x] = await[x] /\ target'[x] = target[x]
          /\ deadline'[Awaited(x)] = deadline[Awaited(x)]
          /\ timer'[Awaited(x)] = timer[Awaited(x)]
          /\ timer[Awaited(x)] \in queue => timer[Awaited(x)] \in queue'
    /\ \A u \in Unfinished : holder[u] # t =>
          \/ u \in Unfinished' /\ waiting'[u] = waiting[u]
          \/ waiting[u] \in ready' \cup {NoTask}

\* What a poll of t leaves to show: that what it spawned is ready, that timers
\* keep their places, and that t itself is woken if the poll is over.
LEMMA PollKeeps ==
    ASSUME WInv, NEW t \in Task, Polled(t), IInv', Undisturbed(t), Filed', Timers',
           UNCHANGED status,
           polling' = t \/ (polling' = NoTask /\ (t \in tasks' => Registered(t)'))
    PROVE  WInv'
<1>1. ASSUME NEW x \in tasks', x \notin ready', x # t
      PROVE  Registered(x)'
  <2>1. x \in tasks /\ x \notin ready /\ x # polling /\ x \in Task
    BY <1>1 DEF Undisturbed, Polled, WInv, IInv, TypeOK
  <2>2. Registered(x)
    BY <2>1 DEF WInv
  <2>3. CASE await[x] \in {"join", "timeout"}
    <3>1. target[x] \in Unfinished /\ waiting[target[x]] = x /\ holder[target[x]] = x
      BY <2>1, <2>2, <2>3 DEF Registered, WInv, IInv, HandlesHeld
    <3>2. target[x] \in Unfinished' /\ waiting'[target[x]] = x
      BY <1>1, <2>1, <3>1, TaskFacts DEF Undisturbed
    <3> QED
      BY <1>1, <2>1, <2>2, <3>2 DEF Undisturbed, Registered
  <2>4. CASE await[x] \notin {"join", "timeout"}
    BY <1>1, <2>1, <2>2, <2>4 DEF Undisturbed, Registered
  <2> QED
    BY <2>3, <2>4
<1>2. \A x \in tasks' \ (ready' \cup {polling'}) : Registered(x)'
  BY <1>1
<1>3. StallIsReal'
  BY DEF StallIsReal, Polled
<1> QED
  BY <1>2, <1>3 DEF WInv

\* The task that is polled is one of the loop's.
LEMMA PolledFacts ==
    ASSUME IInv, NEW t \in Task, Polled(t)
    PROVE  t \in tasks /\ t \in Unfinished /\ t \in Known
BY TaskFacts DEF IInv, Roll, Polled, Unfinished

\* Where nobody is spawned and nobody finishes, nobody is forgotten.
LEMMA SameFiled ==
    ASSUME Filed, ready \subseteq ready', UNCHANGED <<tasks, spawned, nextId, finished>>
    PROVE  Filed'
BY DEF Filed, Unfinished, Known, Adopted

--------------------------------------------------------------------------------
(* Every step preserves the invariant. *)

\* A task comes to an `.await`, of a new sleep, a timeout, a handle or nothing.
LEMMA ComingToAWait ==
    ASSUME WInv, NEW t \in Task,
           \/ \E d \in Durations : AwaitSleep(t, d)
           \/ \E d \in Durations, u \in Task : AwaitTimeout(t, u, d)
           \/ \E u \in Task : AwaitJoin(t, u)
           \/ Park(t)
    PROVE  WInv'
<1> USE WaitFacts
<1>1. Polled(t) /\ IInv /\ Timers /\ Filed
  BY DEF WInv, AwaitSleep, AwaitTimeout, AwaitJoin, Park, Running
<1>2. IInv'
  BY <1>1, AwaitSleepKeeps, AwaitTimeoutKeeps, AwaitJoinKeeps, ParkKeeps
<1>3. UNCHANGED <<loopVars, queue, nextSeq, nextId, ready, joinVars>>
  BY DEF AwaitSleep, AwaitTimeout, AwaitJoin, Park, sleepVars
<1>4. /\ Timers'
      /\ \A v \in Wait \ {Awaited(t)} : deadline'[v] = deadline[v] /\ timer'[v] = timer[v]
  <2>1. CASE \E d : NewSleep(Awaited(t), d)
    BY <1>1, <1>3, <2>1, NewSleepTimers DEF loopVars
  <2>2. CASE UNCHANGED sleepVars
    BY <1>1, <1>3, <2>2, SameTimers DEF loopVars, sleepVars
  <2> QED
    BY <2>1, <2>2 DEF AwaitSleep, AwaitTimeout, AwaitJoin, Park
<1>5. \A x \in Task \ {t} : await'[x] = await[x] /\ target'[x] = target[x]
  BY <1>1 DEF AwaitSleep, AwaitTimeout, AwaitJoin, Park, StandAt, IInv, TypeOK
<1>6. tasks \subseteq Task
  BY <1>1 DEF IInv, TypeOK
<1>7. Undisturbed(t)
  BY <1>3, <1>4, <1>5, <1>6 DEF Undisturbed, loopVars, joinVars, Unfinished, Known
<1>8. Filed' /\ UNCHANGED <<status, polling>>
  BY <1>1, <1>3, SameFiled DEF loopVars, joinVars
<1> QED
  BY <1>1, <1>2, <1>4, <1>7, <1>8, PollKeeps DEF Polled

\* A task comes to the `.await` of the sleep it kept.
LEMMA AwaitKeptWakes == ASSUME WInv, NEW t \in Task, AwaitKept(t) PROVE WInv'
<1> USE WaitFacts
<1>1. Polled(t) /\ IInv /\ Timers /\ Filed
  BY DEF WInv, AwaitKept, Running
<1>2. IInv'
  BY <1>1, AwaitKeptKeeps
<1>3. UNCHANGED <<loopVars, queue, nextSeq, nextId, ready, joinVars>>
  BY DEF AwaitKept
<1>4. /\ Timers'
      /\ \A v \in Wait \ {Kept(t), Awaited(t)} :
            deadline'[v] = deadline[v] /\ timer'[v] = timer[v]
  <2>1. Kept(t) # Awaited(t) /\ Kept(t) \in Wait /\ Awaited(t) \in Wait
    OBVIOUS
  <2> QED
    BY <1>1, <1>3, <2>1, MovedTimers DEF AwaitKept, loopVars
<1>5. \A x \in Task \ {t} : await'[x] = await[x] /\ target'[x] = target[x]
  BY <1>1 DEF AwaitKept, StandAt, IInv, TypeOK
<1>6. tasks \subseteq Task
  BY <1>1 DEF IInv, TypeOK
<1>7. Undisturbed(t)
  BY <1>3, <1>4, <1>5, <1>6 DEF Undisturbed, loopVars, joinVars, Unfinished, Known
<1>8. Filed' /\ UNCHANGED <<status, polling>>
  BY <1>1, <1>3, SameFiled DEF loopVars, joinVars
<1> QED
  BY <1>1, <1>2, <1>4, <1>7, <1>8, PollKeeps DEF Polled

\* A task looks at a sleep or a handle and keeps it, or drops one.
LEMMA LookingAndDropping ==
    ASSUME WInv, NEW t \in Task,
           \/ \E d \in Durations : LookAtSleep(t, d)
           \/ \E u \in Task : LookAtJoin(t, u) \/ Detach(t, u)
           \/ DropKept(t)
    PROVE  WInv'
<1> USE WaitFacts
<1>1. Polled(t) /\ IInv /\ Timers /\ Filed
  BY DEF WInv, LookAtSleep, LookAtJoin, Detach, DropKept, Running
<1>2. IInv'
  BY <1>1, LookAtSleepKeeps, LookAtJoinKeeps, DetachKeeps, DropKeptKeeps
<1>3. UNCHANGED <<loopVars, nextId, ready, awaitVars, finished>>
  BY DEF LookAtSleep, LookAtJoin, Detach, DropKept, RegisterJoin, DropHandles, joinVars
<1>4. /\ Timers'
      /\ \A v \in Wait \ {Kept(t)} : /\ deadline'[v] = deadline[v] /\ timer'[v] = timer[v]
                                     /\ timer[v] \in queue => timer[v] \in queue'
  <2>1. ASSUME NEW d \in Durations, LookAtSleep(t, d)
        PROVE  /\ Timers'
               /\ \A v \in Wait \ {Kept(t)} :
                     /\ deadline'[v] = deadline[v] /\ timer'[v] = timer[v]
                     /\ timer[v] \in queue => timer[v] \in queue'
    <3> DEFINE at == SaturatingAdd(now, d)
               e == [at |-> at, seq |-> nextSeq, waker |-> t]
    <3>1. /\ deadline[Kept(t)] = NoTime /\ deadline' = [deadline EXCEPT ![Kept(t)] = at]
          /\ queue' = queue \cup {e} /\ nextSeq' = nextSeq + 1
          /\ timer' = [timer EXCEPT ![Kept(t)] = e]
      BY <2>1 DEF LookAtSleep
    <3>2. e \in Event /\ e.seq = nextSeq
      BY <1>2, <3>1 DEF IInv, TypeOK
    <3> HIDE DEF e, at
    <3>3. timer[Kept(t)] = NoEvent /\ NoEvent \notin queue
      BY <1>1, <3>1, TaskFacts DEF IInv, TimersAim, TypeOK
    <3>4. queue' = Disarmed({Kept(t)}) \cup {e}
      BY <3>1, <3>3 DEF Disarmed
    <3>5. \A v \in Wait \ {Kept(t)} : deadline'[v] = deadline[v]
      BY <1>1, <3>1 DEF IInv, TypeOK
    <3>6. Kept(t) \in Wait /\ now' = now
      BY <1>3 DEF loopVars
    <3> QED
      BY <1>1, <3>1, <3>2, <3>4, <3>5, <3>6, FreshTimer
  <2>2. CASE DropKept(t)
    BY <1>1, <1>3, <2>2, DroppedTimers DEF DropKept, loopVars
  <2>3. CASE UNCHANGED sleepVars
    BY <1>1, <1>3, <2>3, SameTimers DEF loopVars, sleepVars
  <2> QED
    BY <2>1, <2>2, <2>3 DEF LookAtJoin, Detach
<1>5. \A u \in Task : holder[u] # t => waiting'[u] = waiting[u]
  BY <1>1 DEF LookAtSleep, LookAtJoin, Detach, DropKept, Holds, RegisterJoin, DropHandles,
     joinVars, IInv, TypeOK
<1>6. tasks \subseteq Task /\ Unfinished \subseteq Task
  BY <1>1, KnownTasks DEF IInv, TypeOK, Unfinished
<1>7. Undisturbed(t)
  BY <1>3, <1>4, <1>5, <1>6 DEF Undisturbed, loopVars, awaitVars, Unfinished, Known
<1>8. Filed' /\ UNCHANGED <<status, polling>>
  BY <1>1, <1>3, SameFiled DEF loopVars
<1> QED
  BY <1>1, <1>2, <1>4, <1>7, <1>8, PollKeeps DEF Polled

\* `Sleep::poll`: done, or armed for whoever polls.
LEMMA PollSleepWakes == ASSUME WInv, NEW t \in Task, PollSleep(t) PROVE WInv'
<1> USE WaitFacts
<1>1. Polled(t) /\ IInv /\ Timers /\ Filed /\ await[t] = "sleep"
  BY DEF WInv, PollSleep
<1>2. IInv'
  BY <1>1, PollSleepKeeps
<1>3. UNCHANGED <<now, tasks, spawned, status, nextId, ready, joinVars>>
  BY DEF PollSleep
<1>4. Awaited(t) \in Wait /\ deadline[Awaited(t)] # NoTime
  BY <1>1 DEF IInv, SleepsHeld
<1>5. /\ Timers'
      /\ \A v \in Wait \ {Awaited(t)} :
            /\ deadline'[v] = deadline[v] /\ timer'[v] = timer[v]
            /\ timer[v] \in queue => timer[v] \in queue'
      /\ \A x \in Task \ {t} : await'[x] = await[x] /\ target'[x] = target[x]
      /\ polling' = t \/ (polling' = NoTask /\ Registered(t)')
  <2>1. CASE Due(Awaited(t))
    <3>1. DropSleeps({Awaited(t)}) /\ StandAt(t, "none", NoTask) /\ UNCHANGED polling
      BY <2>1 DEF PollSleep
    <3> QED
      BY <1>1, <1>3, <1>4, <3>1, DroppedTimers DEF StandAt, IInv, TypeOK, Polled
  <2>2. CASE ~ Due(Awaited(t))
    <3>1. ArmSleep(Awaited(t), t) /\ polling' = NoTask /\ UNCHANGED awaitVars
      BY <2>2 DEF PollSleep
    <3>2. /\ Timers'
          /\ timer'[Awaited(t)] \in queue' /\ timer'[Awaited(t)].waker = t
          /\ timer'[Awaited(t)].at = deadline'[Awaited(t)]
          /\ \A v \in Wait : deadline'[v] = deadline[v]
          /\ \A v \in Wait \ {Awaited(t)} :
                timer'[v] = timer[v] /\ (timer[v] \in queue => timer[v] \in queue')
      BY <1>1, <1>3, <1>4, <2>2, <3>1, ArmedTimers
    <3> QED
      BY <1>1, <3>1, <3>2 DEF Registered, awaitVars
  <2> QED
    BY <2>1, <2>2
<1>6. tasks \subseteq Task
  BY <1>1 DEF IInv, TypeOK
<1>7. Undisturbed(t)
  BY <1>3, <1>5, <1>6 DEF Undisturbed, joinVars, Unfinished, Known
<1>8. Filed'
  BY <1>1, <1>3, SameFiled DEF joinVars
<1> QED
  BY <1>1, <1>2, <1>3, <1>5, <1>7, <1>8, PollKeeps

\* `JoinHandle::poll`: the output is there, or whoever polls is registered.
LEMMA PollJoinWakes == ASSUME WInv, NEW t \in Task, PollJoin(t) PROVE WInv'
<1> USE WaitFacts
<1>1. Polled(t) /\ IInv /\ Timers /\ Filed /\ await[t] = "join"
  BY DEF WInv, PollJoin
<1>2. IInv'
  BY <1>1, PollJoinKeeps
<1>3. UNCHANGED <<now, tasks, spawned, status, nextId, ready, sleepVars, finished>>
  BY DEF PollJoin, TakeOutput, RegisterJoin
<1>4. target[t] \in Task /\ target[t] \in Known /\ holder[target[t]] = t
  BY <1>1, JoinFacts
<1>5. /\ \A x \in Task \ {t} : await'[x] = await[x] /\ target'[x] = target[x]
      /\ \A u \in Task : holder[u] # t => waiting'[u] = waiting[u]
      /\ polling' = t \/ (polling' = NoTask /\ Registered(t)')
  <2>1. CASE target[t] \in output
    <3>1. TakeOutput(target[t]) /\ StandAt(t, "none", NoTask) /\ UNCHANGED polling
      BY <2>1 DEF PollJoin
    <3> QED
      BY <1>1, <1>4, <3>1 DEF TakeOutput, StandAt, IInv, TypeOK, Polled
  <2>2. CASE target[t] \notin output
    <3>1. RegisterJoin(target[t], t) /\ polling' = NoTask /\ UNCHANGED awaitVars
      BY <2>2 DEF PollJoin
    <3>2. target[t] \in Unfinished
      BY <1>1, <1>4, <2>2, TaskFacts DEF IInv, HandlesHeld, Unfinished
    <3>3. Unfinished' = Unfinished
      BY <1>3 DEF Unfinished, Known
    <3> QED
      BY <1>1, <1>4, <3>1, <3>2, <3>3 DEF Registered, RegisterJoin, awaitVars, IInv, TypeOK
  <2> QED
    BY <2>1, <2>2
<1>6. tasks \subseteq Task /\ Unfinished \subseteq Task
  BY <1>1, KnownTasks DEF IInv, TypeOK, Unfinished
<1>7. Undisturbed(t)
  BY <1>3, <1>5, <1>6 DEF Undisturbed, sleepVars, Unfinished, Known
<1>8. Filed' /\ Timers'
  BY <1>1, <1>3, SameFiled, SameTimers DEF sleepVars
<1> QED
  BY <1>1, <1>2, <1>3, <1>5, <1>7, <1>8, PollKeeps

\* `Timeout::poll` around a handle.
LEMMA PollTimeoutWakes == ASSUME WInv, NEW t \in Task, PollTimeout(t) PROVE WInv'
<1> USE WaitFacts
<1>1. Polled(t) /\ IInv /\ Timers /\ Filed /\ await[t] = "timeout"
  BY DEF WInv, PollTimeout
<1>2. IInv'
  BY <1>1, PollTimeoutKeeps
<1>3. UNCHANGED <<now, tasks, spawned, status, nextId, ready, finished>>
  BY DEF PollTimeout, TakeOutput, RegisterJoin, DropHandles
<1>4. Awaited(t) \in Wait /\ deadline[Awaited(t)] # NoTime
  BY <1>1 DEF IInv, SleepsHeld
<1>5. target[t] \in Task /\ target[t] \in Known /\ holder[target[t]] = t
  BY <1>1, JoinFacts
<1>6. /\ Timers'
      /\ \A v \in Wait \ {Awaited(t)} :
            /\ deadline'[v] = deadline[v] /\ timer'[v] = timer[v]
            /\ timer[v] \in queue => timer[v] \in queue'
      /\ \A x \in Task \ {t} : await'[x] = await[x] /\ target'[x] = target[x]
      /\ \A u \in Task : holder[u] # t => waiting'[u] = waiting[u]
      /\ polling' = t \/ (polling' = NoTask /\ Registered(t)')
  <2>1. CASE target[t] \in output \/ Due(Awaited(t))
    <3>1. /\ TakeOutput(target[t]) \/ DropHandles({target[t]})
          /\ DropSleeps({Awaited(t)}) /\ StandAt(t, "none", NoTask) /\ UNCHANGED polling
      BY <2>1 DEF PollTimeout
    <3>2. \A u \in Task : holder[u] # t => waiting'[u] = waiting[u]
      BY <1>1, <1>5, <3>1 DEF TakeOutput, DropHandles, IInv, TypeOK
    <3>3. \A x \in Task \ {t} : await'[x] = await[x] /\ target'[x] = target[x]
      BY <1>1, <3>1 DEF StandAt, IInv, TypeOK
    <3> QED
      BY <1>1, <1>3, <1>4, <3>1, <3>2, <3>3, DroppedTimers DEF Polled
  <2>2. CASE target[t] \notin output /\ ~ Due(Awaited(t))
    <3>1. /\ RegisterJoin(target[t], t) /\ ArmSleep(Awaited(t), t)
          /\ polling' = NoTask /\ UNCHANGED awaitVars
      BY <2>2 DEF PollTimeout
    <3>2. /\ Timers'
          /\ timer'[Awaited(t)] \in queue' /\ timer'[Awaited(t)].waker = t
          /\ timer'[Awaited(t)].at = deadline'[Awaited(t)]
          /\ \A v \in Wait : deadline'[v] = deadline[v]
          /\ \A v \in Wait \ {Awaited(t)} :
                timer'[v] = timer[v] /\ (timer[v] \in queue => timer[v] \in queue')
      BY <1>1, <1>3, <1>4, <2>2, <3>1, ArmedTimers
    <3>3. target[t] \in Unfinished
      BY <1>1, <1>5, <2>2, TaskFacts DEF IInv, HandlesHeld, Unfinished
    <3>4. Unfinished' = Unfinished
      BY <1>3 DEF Unfinished, Known
    <3>5. /\ waiting'[target[t]] = t
          /\ \A u \in Task : holder[u] # t => waiting'[u] = waiting[u]
      BY <1>1, <1>5, <3>1 DEF RegisterJoin, IInv, TypeOK
    <3>6. Registered(t)'
      BY <1>1, <3>1, <3>2, <3>3, <3>4, <3>5 DEF Registered, awaitVars
    <3> QED
      BY <3>1, <3>2, <3>5, <3>6 DEF awaitVars
  <2> QED
    BY <2>1, <2>2
<1>7. tasks \subseteq Task /\ Unfinished \subseteq Task
  BY <1>1, KnownTasks DEF IInv, TypeOK, Unfinished
<1>8. Undisturbed(t)
  BY <1>3, <1>6, <1>7 DEF Undisturbed, Unfinished, Known
<1>9. Filed'
  BY <1>1, <1>3, SameFiled
<1> QED
  BY <1>1, <1>2, <1>3, <1>6, <1>8, <1>9, PollKeeps

\* A poll that ends at a wait that never completes.
LEMMA PollParkWakes == ASSUME WInv, NEW t \in Task, PollPark(t) PROVE WInv'
<1>1. Polled(t) /\ IInv /\ Timers /\ Filed /\ await[t] = "park"
  BY DEF WInv, PollPark
<1>2. IInv'
  BY <1>1, PollParkKeeps
<1>3. /\ polling' = NoTask
      /\ UNCHANGED <<now, tasks, spawned, status, nextId, ready, awaitVars, sleepVars, joinVars>>
  BY DEF PollPark
<1>4. Undisturbed(t)
  BY <1>3 DEF Undisturbed, awaitVars, sleepVars, joinVars, Unfinished, Known
<1>5. Registered(t)'
  BY <1>1, <1>3 DEF Registered, awaitVars
<1>6. Filed' /\ Timers'
  BY <1>1, <1>3, SameFiled, SameTimers DEF sleepVars, joinVars
<1> QED
  BY <1>1, <1>2, <1>3, <1>4, <1>5, <1>6, PollKeeps

\* A task returns: whoever joins it is woken, and nobody else notices.
LEMMA FinishWakes == ASSUME WInv, NEW t \in Task, Finish(t) PROVE WInv'
<1> USE WaitFacts
<1>1. Polled(t) /\ IInv /\ Timers /\ Filed
  BY DEF WInv, Finish, Running
<1>2. IInv'
  BY <1>1, FinishKeeps
<1>3. /\ DropSleeps({Kept(t)}) /\ tasks' = tasks \ {t} /\ finished' = finished \cup {t}
      /\ ready' = ready \cup ({waiting[t]} \ {NoTask}) /\ polling' = NoTask
      /\ waiting' = [u \in Task |-> IF u \in Holds(t) \cup {t} THEN NoTask ELSE waiting[u]]
      /\ UNCHANGED <<now, spawned, nextId, status, awaitVars>>
  BY DEF Finish, Woken
<1>4. /\ Timers'
      /\ \A v \in Wait \ {Kept(t)} : /\ deadline'[v] = deadline[v] /\ timer'[v] = timer[v]
                                     /\ timer[v] \in queue => timer[v] \in queue'
  BY <1>1, <1>3, DroppedTimers
<1>5. tasks \subseteq Task /\ Unfinished \subseteq Task /\ Unfinished' = Unfinished \ {t}
  BY <1>1, <1>3, KnownTasks DEF IInv, TypeOK, Unfinished, Known
<1>6. \A u \in Unfinished : holder[u] # t => \/ u \in Unfinished' /\ waiting'[u] = waiting[u]
                                            \/ waiting[u] \in ready' \cup {NoTask}
  BY <1>3, <1>5 DEF Holds
<1>7. Undisturbed(t)
  BY <1>3, <1>4, <1>5, <1>6 DEF Undisturbed, awaitVars
<1>8. Filed'
  BY <1>1, <1>3, <1>5 DEF Filed, Adopted
<1> QED
  BY <1>1, <1>2, <1>3, <1>4, <1>7, <1>8, PollKeeps

\* `Handle::spawn`: the new task is ready, and takes along only what its parent held.
LEMMA SpawnWakes ==
    ASSUME WInv, NEW t \in Task, NEW u \in Task, NEW withKept \in BOOLEAN,
           NEW given \in SUBSET Holds(t), Spawn(t, u, withKept, given)
    PROVE  WInv'
<1> USE WaitFacts
<1>1. Polled(t) /\ IInv /\ Timers /\ Filed
  BY DEF WInv, Spawn, Running
<1>2. IInv'
  BY <1>1, SpawnKeeps
<1>3. /\ u = nextId /\ nextId' = nextId + 1
      /\ spawned' = Append(spawned, u) /\ ready' = ready \cup {u}
      /\ UNCHANGED <<now, queue, nextSeq, tasks, polling, status, awaitVars, waiting, finished>>
  BY DEF Spawn, ReadyOnSpawn
<1>4. nextId \in Nat /\ Known' = Known \cup {u} /\ t \in Known /\ u \notin Known
  <2>1. nextId \in Nat
    BY <1>1, ExecutorAssumption DEF IInv, TypeOK
  <2>2. Known' = Known \cup {u} /\ u \notin Known
    BY <1>3, <2>1 DEF Known
  <2>3. t \in Known
    BY <1>1, PolledFacts
  <2> QED
    BY <2>1, <2>2, <2>3
<1>5. /\ Timers'
      /\ \A v \in Wait \ {Kept(t), Kept(u)} : deadline'[v] = deadline[v] /\ timer'[v] = timer[v]
  <2>1. CASE withKept
    <3>1. /\ deadline' = [deadline EXCEPT ![Kept(u)] = deadline[Kept(t)], ![Kept(t)] = NoTime]
          /\ timer' = [timer EXCEPT ![Kept(u)] = timer[Kept(t)], ![Kept(t)] = NoEvent]
      BY <2>1 DEF Spawn
    <3>2. Kept(t) # Kept(u) /\ Kept(t) \in Wait /\ Kept(u) \in Wait
      BY <1>4
    <3> QED
      BY <1>1, <1>3, <3>1, <3>2, MovedTimers
  <2>2. CASE ~ withKept
    BY <1>1, <1>3, <2>2, SameTimers DEF Spawn
  <2> QED
    BY <2>1, <2>2
<1>6. Unfinished \subseteq Unfinished'
  BY <1>3, <1>4 DEF Unfinished
<1>7. tasks \subseteq Task /\ spawned \in Seq(Task)
  BY <1>1 DEF IInv, TypeOK
<1>8. Undisturbed(t)
  BY <1>3, <1>5, <1>6, <1>7 DEF Undisturbed, awaitVars
<1>9. Roster(spawned') = Roster(spawned) \cup {u}
  BY <1>3, <1>7, RosterAppend
<1>10. Filed'
  BY <1>1, <1>3, <1>4, <1>9 DEF Filed, Adopted, Unfinished
<1> QED
  BY <1>1, <1>2, <1>3, <1>5, <1>8, <1>10, PollKeeps DEF Polled

\* The loop takes the next ready task: nobody else loses a place in the ready set.
LEMMA TakeWakes == ASSUME WInv, Take PROVE WInv'
<1>1. IInv' /\ Timers /\ Filed
  BY TakeKeeps DEF WInv
<1>2. /\ status = "running" /\ polling = NoTask /\ tasks' = Adopted /\ spawned' = <<>>
      /\ UNCHANGED <<now, nextId, status, awaitVars, sleepVars, joinVars>>
  BY DEF Take, Between
<1>3. PICK lowest \in ready :
         /\ ready' = ready \ {lowest}
         /\ polling' = IF lowest \in Adopted THEN lowest ELSE NoTask
  BY DEF Take
<1>4. Timers'
  BY <1>1, <1>2, SameTimers DEF sleepVars
<1>5. Filed'
  BY <1>1, <1>2, RosterEmpty DEF Filed, Adopted, joinVars, Unfinished, Known
<1>6. \A t \in tasks' \ (ready' \cup {polling'}) : t \in tasks \ ready /\ Registered(t)
  BY <1>1, <1>2, <1>3, TaskFacts DEF WInv, Filed, Adopted, IInv, TypeOK
<1>7. \A t \in tasks' \ (ready' \cup {polling'}) : Registered(t)'
  BY <1>2, <1>6 DEF Registered, awaitVars, sleepVars, joinVars, Unfinished, Known
<1> QED
  BY <1>1, <1>2, <1>4, <1>5, <1>7 DEF WInv, StallIsReal

\* Once nobody is ready, the loop knows every task there is and each is registered.
LEMMA AllWaiting ==
    ASSUME WInv, Quiet
    PROVE  /\ Adopted = tasks /\ Unfinished \subseteq tasks
           /\ \A t \in tasks : Registered(t)
<1>1. ready = {} /\ polling = NoTask
  BY DEF Quiet, Between
<1>2. Roster(spawned) = {}
  BY <1>1 DEF WInv, Filed
<1>3. tasks \subseteq Task
  BY DEF WInv, IInv, TypeOK
<1> QED
  BY <1>1, <1>2, <1>3, TaskFacts DEF WInv, Filed, Adopted

\* `run` returns or stalls; where it stalls, no sleep is left to wait for.
LEMMA EndWakes == ASSUME WInv, Return \/ Stall PROVE WInv'
<1>1. IInv' /\ Timers /\ Filed /\ Quiet /\ IInv
  BY ReturnKeeps, StallKeeps DEF WInv, Return, Stall
<1>2. /\ tasks' = Adopted /\ spawned' = <<>> /\ status' \in {"ok", "stalled"}
      /\ status' = "stalled" => queue = {}
      /\ UNCHANGED <<now, nextId, ready, polling, awaitVars, sleepVars, joinVars>>
  BY DEF Return, Stall
<1>3. Timers'
  BY <1>1, <1>2, SameTimers DEF sleepVars
<1>4. Filed'
  BY <1>1, <1>2, RosterEmpty DEF Filed, Adopted, joinVars, Unfinished, Known
<1>5. tasks' = tasks /\ Unfinished \subseteq tasks /\ \A t \in tasks : Registered(t)
  BY <1>1, <1>2, AllWaiting
<1>6. \A t \in tasks' : Registered(t)'
  BY <1>2, <1>5 DEF Registered, awaitVars, sleepVars, joinVars, Unfinished, Known
<1>7. ASSUME status' = "stalled", NEW t \in tasks
      PROVE  await[t] = "park" \/ (await[t] = "join" /\ target[t] \in tasks)
  <2>1. Registered(t) /\ queue = {} /\ await[t] \in Kinds
    BY <1>1, <1>2, <1>5, <1>7 DEF IInv, TypeOK
  <2> QED
    BY <1>5, <2>1 DEF Registered, Kinds
<1>8. StallIsReal'
  BY <1>2, <1>5, <1>7 DEF StallIsReal, awaitVars
<1> QED
  BY <1>1, <1>3, <1>4, <1>6, <1>8 DEF WInv

\* The clock moves to the earliest event: only the timer that fires leaves its
\* place, and the task it is armed for is ready.
LEMMA AdvanceWakes == ASSUME WInv, Advance PROVE WInv'
<1>1. IInv /\ IInv' /\ Timers /\ Filed /\ Quiet
  BY AdvanceKeeps DEF WInv, Advance
<1>2. PICK e \in queue :
         /\ queue' = queue \ {e}
         /\ IF e.at < now
            THEN status' = "clock_error" /\ UNCHANGED <<now, ready>>
            ELSE now' = e.at /\ ready' = ready \cup {e.waker} /\ UNCHANGED status
  BY DEF Advance
<1>3. /\ tasks' = Adopted /\ spawned' = <<>> /\ status = "running"
      /\ UNCHANGED <<nextId, polling, awaitVars, nextSeq, deadline, timer, joinVars>>
  BY DEF Advance, Quiet, Between
<1>4. now' = e.at /\ ready' = ready \cup {e.waker} /\ UNCHANGED status
  BY <1>1, <1>2, <1>3 DEF IInv, NeverBackwards
<1>5. e \in Event /\ e.at \in Nat /\ now \in Nat /\ e.at >= now
  BY <1>1 DEF IInv, TypeOK, NeverBackwards, Event, Instant
<1>6. \A w \in Wait : timer[w] # NoEvent /\ deadline[w] > now' => timer[w] \in queue'
  <2> SUFFICES ASSUME NEW w \in Wait, timer[w] # NoEvent, deadline[w] > now'
               PROVE  timer[w] \in queue'
    OBVIOUS
  <2>1. deadline[w] \in Nat /\ timer[w].at = deadline[w]
    BY <1>1 DEF IInv, TypeOK, TimersAim, Instant
  <2>2. timer[w] \in queue /\ timer[w] # e
    BY <1>1, <1>4, <1>5, <2>1 DEF Timers
  <2> QED
    BY <1>2, <2>2
<1>7. Timers'
  BY <1>1, <1>3, <1>6 DEF Timers
<1>8. Filed'
  BY <1>1, <1>3, <1>4, RosterEmpty DEF Filed, Adopted, joinVars, Unfinished, Known
<1>9. tasks' = tasks /\ \A t \in tasks : Registered(t)
  BY <1>1, <1>3, AllWaiting
<1>10. ASSUME NEW t \in tasks', t \notin ready' PROVE Registered(t)'
  <2>1. Registered(t) /\ t # e.waker
    BY <1>4, <1>9, <1>10
  <2>2. await[t] \in {"sleep", "timeout"} => timer[Awaited(t)] \in queue'
    BY <1>2, <2>1 DEF Registered
  <2> QED
    BY <1>3, <2>1, <2>2 DEF Registered, awaitVars, joinVars, Unfinished, Known
<1> QED
  BY <1>1, <1>3, <1>4, <1>7, <1>8, <1>10 DEF WInv, StallIsReal

\* The executor with its roots spawned and nothing polled yet.
LEMMA InitWakes == ASSUME Init PROVE WInv
<1>1. IInv
  BY InitEstablishes
<1>2. Filed
  <2>1. /\ spawned = [i \in 1 .. Roots |-> i - 1] /\ ready = 0 .. (Roots - 1)
        /\ nextId = Roots /\ Roots \in Nat /\ finished = {}
    BY ExecutorAssumption DEF Init
  <2>2. Roster(spawned) = 0 .. (Roots - 1)
    <3>1. \A n \in 0 .. (Roots - 1) : n + 1 \in 1 .. Roots /\ spawned[n + 1] = n
      BY <2>1
    <3>2. DOMAIN spawned = 1 .. Roots /\ \A i \in 1 .. Roots : spawned[i] \in 0 .. (Roots - 1)
      BY <2>1
    <3> QED
      BY <3>1, <3>2 DEF Roster
  <2> QED
    BY <2>1, <2>2 DEF Filed, Unfinished, Known, Adopted
<1>3. Timers
  BY DEF Init, Timers
<1>4. tasks = {} /\ StallIsReal
  BY DEF Init, StallIsReal
<1> QED
  BY <1>1, <1>2, <1>3, <1>4 DEF WInv

\* Every step.
LEMMA StepWakes == ASSUME WInv, [Next]_vars PROVE WInv'
<1>1. CASE Loop
  BY <1>1, TakeWakes, EndWakes, AdvanceWakes DEF Loop
<1>2. CASE UNCHANGED vars
  <2>1. IInv'
    BY <1>2, StepKeeps DEF WInv
  <2> QED
    BY <1>2, <2>1 DEF vars, WInv, Filed, Timers, Registered, StallIsReal, Adopted,
       Unfinished, Known
<1>3. ASSUME NEW t \in Task, Step(t) PROVE WInv'
  <2>1. ASSUME NEW u \in Task, NEW withKept \in BOOLEAN,
               \/ Spawn(t, u, withKept, {})
               \/ \E v \in Holds(t) : Spawn(t, u, withKept, {v})
        PROVE  WInv'
    <3>1. PICK given \in SUBSET Holds(t) : Spawn(t, u, withKept, given)
      BY <2>1
    <3> QED
      BY <3>1, SpawnWakes
  <2>2. ASSUME NEW d \in Durations, AwaitSleep(t, d) \/ LookAtSleep(t, d) PROVE WInv'
    BY <2>2, ComingToAWait, LookingAndDropping
  <2>3. ASSUME NEW u \in Task,
               \/ AwaitJoin(t, u) \/ LookAtJoin(t, u) \/ Detach(t, u)
               \/ \E d \in Durations : AwaitTimeout(t, u, d)
        PROVE  WInv'
    BY <2>3, ComingToAWait, LookingAndDropping
  <2>4. CASE AwaitKept(t) \/ DropKept(t) \/ Park(t)
    BY <2>4, AwaitKeptWakes, LookingAndDropping, ComingToAWait
  <2>5. CASE PollSleep(t) \/ PollJoin(t) \/ PollTimeout(t) \/ PollPark(t) \/ Finish(t)
    BY <2>5, PollSleepWakes, PollJoinWakes, PollTimeoutWakes, PollParkWakes, FinishWakes
  <2> QED
    BY <1>3, <2>1, <2>2, <2>3, <2>4, <2>5 DEF Step
<1> QED
  BY <1>1, <1>2, <1>3 DEF Next, Returned

--------------------------------------------------------------------------------
(* Theorems. *)

\* The strengthened invariant holds throughout every run of the executor.
THEOREM Wakeable == Spec => []WInv
BY InitWakes, StepWakes, PTL DEF Spec

\* A task that is neither ready nor being polled has a timer in the queue, or a
\* waker registered on a task still at work, that will make it ready again:
\* `ReadyQueue`, `Sleep::poll` and `JoinHandle::poll` lose no wake-up.
THEOREM NoWakeupIsLost == Spec => []NoLostWakeup
<1>1. WInv => NoLostWakeup
  BY DEF WInv, NoLostWakeup, Registered
<1> QED
  BY <1>1, Wakeable, PTL

\* `ExecutorError::Stalled` is returned only when nothing left could ever go on.
THEOREM StallsAreReal == Spec => []StallIsReal
<1>1. WInv => StallIsReal
  BY DEF WInv
<1> QED
  BY <1>1, Wakeable, PTL

\* What `run` does when it moves the clock: every unfinished task is registered,
\* and the earliest timer is still ahead, so each of them is blocked.
LEMMA OnlyWhenBlocked ==
    ASSUME WInv, [Next]_vars, now' # now, NEW t \in Unfinished
    PROVE  Blocked(t)
<1>1. Advance
  <2>1. UNCHANGED vars => UNCHANGED now
    BY DEF vars
  <2>2. Take \/ Return \/ Stall => UNCHANGED now
    BY DEF Take, Return, Stall
  <2>3. ASSUME NEW x \in Task, Step(x) PROVE UNCHANGED now
    <3>1. \A u \in Task, withKept \in BOOLEAN, given \in SUBSET Task :
             Spawn(x, u, withKept, given) => UNCHANGED now
      BY DEF Spawn
    <3>2. \A d \in Durations : AwaitSleep(x, d) \/ LookAtSleep(x, d) => UNCHANGED now
      BY DEF AwaitSleep, LookAtSleep, loopVars
    <3>3. \A u \in Task :
             (\/ AwaitJoin(x, u) \/ LookAtJoin(x, u) \/ Detach(x, u)
              \/ \E d \in Durations : AwaitTimeout(x, u, d))
             => UNCHANGED now
      BY DEF AwaitJoin, LookAtJoin, Detach, AwaitTimeout, loopVars
    <3>4. AwaitKept(x) \/ DropKept(x) \/ Park(x) => UNCHANGED now
      BY DEF AwaitKept, DropKept, Park, loopVars
    <3>5. PollSleep(x) \/ PollJoin(x) \/ PollTimeout(x) \/ PollPark(x) \/ Finish(x)
             => UNCHANGED now
      BY DEF PollSleep, PollJoin, PollTimeout, PollPark, Finish
    <3>6. Holds(x) \subseteq Task
      BY KnownTasks DEF WInv, IInv, Holds
    <3>7. ASSUME NEW u \in Task, NEW withKept \in BOOLEAN,
                 \/ Spawn(x, u, withKept, {})
                 \/ \E v \in Holds(x) : Spawn(x, u, withKept, {v})
          PROVE  UNCHANGED now
      <4>1. PICK given \in SUBSET Task : Spawn(x, u, withKept, given)
        BY <3>6, <3>7
      <4> QED
        BY <3>1, <4>1
    <3> QED
      BY <2>3, <3>2, <3>3, <3>4, <3>5, <3>7 DEF Step
  <2> QED
    BY <2>1, <2>2, <2>3 DEF Next, Loop, Returned
<1>2. IInv /\ Quiet
  BY <1>1 DEF Advance, WInv
<1>3. t \in tasks /\ Registered(t) /\ t \in Task
  BY <1>2, AllWaiting DEF IInv, TypeOK
<1>4. PICK e \in queue : IsEarliest(e, queue) /\ e.at # now /\ e.at >= now
  BY <1>1, <1>2 DEF Advance, IInv, NeverBackwards
<1>5. \A f \in queue : f.at > now
  BY <1>2, <1>4 DEF IInv, TypeOK, IsEarliest, Before, Event, Instant
<1>6. await[t] \in {"sleep", "timeout"} => ~ Due(Awaited(t))
  <2> SUFFICES ASSUME await[t] \in {"sleep", "timeout"} PROVE ~ Due(Awaited(t))
    OBVIOUS
  <2>1. timer[Awaited(t)] \in queue /\ timer[Awaited(t)].at = deadline[Awaited(t)]
    BY <1>3 DEF Registered
  <2>2. deadline[Awaited(t)] > now /\ deadline[Awaited(t)] \in Nat /\ now \in Nat
    BY <1>2, <1>5, <2>1 DEF IInv, TypeOK, Event, Instant
  <2> QED
    BY <2>2 DEF Due
<1>7. await[t] \in Kinds
  BY <1>2, <1>3 DEF IInv, TypeOK
<1> QED
  BY <1>3, <1>6, <1>7 DEF Blocked, Registered, Kinds

\* Time moves only when every unfinished task is blocked: no task goes without
\* its first poll and none oversleeps, whatever the tasks do.
THEOREM TimeWaitsForAll == Spec => TimeMovesOnlyWhenAllBlocked
<1>1. WInv /\ [Next]_vars => [now' # now => \A t \in Unfinished : Blocked(t)]_vars
  BY OnlyWhenBlocked
<1> QED
  BY <1>1, Wakeable, PTL DEF Spec, TimeMovesOnlyWhenAllBlocked

--------------------------------------------------------------------------------
(* The reduction of a schedule. *)

\* How the schedule kept is known to fail.
Failing ==
    /\ failure # Pass
    /\ outcome \in Outcomes(kept) /\ Reproduces(outcome, failure)

\* The piece to be offered next is one of those the list is cut into.
Cutting ==
    /\ Len(kept) > 1
    /\ chunks \in Nat \ {0}
    /\ piece \in 1 .. Len(Spans(Len(kept), chunks))

SInv ==
    /\ faults \in Seq(Fault) /\ kept \in Seq(Fault)
    /\ failure \in Outcomes(faults)
    /\ phase = "run" => failure = Pass /\ outcome = Pass /\ kept = faults
    /\ phase \in {"empty", "drop", "search"} => Failing
    /\ phase = "drop" => Cutting
    /\ phase = "search" => search \in Nat \ {0} /\ bounds \in [low : Nat, high : Nat]

--------------------------------------------------------------------------------
(* Arithmetic. *)

\* Of two numbers, the least and the greatest.
LEMMA LeastOfTwo ==
    ASSUME NEW a \in Nat, NEW b \in Nat
    PROVE  Min({a, b}) \in {a, b} /\ Min({a, b}) <= a /\ Min({a, b}) <= b
<1>1. \E x \in {a, b} : \A y \in {a, b} : x <= y
  OBVIOUS
<1> QED
  BY <1>1 DEF Min

LEMMA GreatestOfTwo ==
    ASSUME NEW a \in Nat, NEW b \in Nat
    PROVE  Max({a, b}) \in {a, b} /\ Max({a, b}) >= a /\ Max({a, b}) >= b
<1>1. \E x \in {a, b} : \A y \in {a, b} : x >= y
  OBVIOUS
<1> QED
  BY <1>1 DEF Max

\* Multiples grow with what is multiplied.
LEMMA Multiples ==
    ASSUME NEW a \in Nat, NEW b \in Nat, NEW c \in Nat, a <= b
    PROVE  a * c <= b * c
OBVIOUS

\* Rounding a quotient up reaches no further than one short of another whole part.
LEMMA CeilDivFacts ==
    ASSUME NEW n \in Nat \ {0}, NEW d \in Nat \ {0}
    PROVE  /\ CeilDiv(n, d) \in Nat \ {0}
           /\ \A k \in 1 .. CeilDiv(n, d) : (k - 1) * d \in Nat /\ (k - 1) * d < n
<1> DEFINE q == (n + d - 1) \div d
<1>1. n + d - 1 \in Nat /\ n + d - 1 >= d
  OBVIOUS
<1>2. q \in Nat /\ q * d <= n + d - 1
  BY <1>1
<1>3. q >= 1
  BY <1>1
<1>4. ASSUME NEW k \in 1 .. q PROVE (k - 1) * d \in Nat /\ (k - 1) * d < n
  <2>1. k * d <= q * d
    BY <1>2, <1>4, Multiples
  <2>2. (k - 1) * d = k * d - d /\ k * d \in Nat /\ q * d \in Nat /\ (k - 1) * d \in Nat
    BY <1>2, <1>4
  <2> HIDE DEF q
  <2> QED
    BY <1>2, <2>1, <2>2
<1> HIDE DEF q
<1>5. CeilDiv(n, d) = q
  BY DEF CeilDiv, q
<1> QED
  BY <1>2, <1>3, <1>4, <1>5

\* `spans`: each piece is a stretch of the list.
LEMMA SpansFacts ==
    ASSUME NEW len \in Nat \ {0}, NEW pieces \in Nat \ {0}
    PROVE  /\ Len(Spans(len, pieces)) \in Nat \ {0}
           /\ \A n \in 1 .. Len(Spans(len, pieces)) :
                 \E first \in 1 .. len : \E last \in first .. len :
                    Spans(len, pieces)[n] = <<first, last>>
<1> DEFINE size == CeilDiv(len, pieces)
           count == CeilDiv(len, size)
<1>1. size \in Nat \ {0}
  BY CeilDivFacts
<1>2. /\ count \in Nat \ {0}
      /\ \A n \in 1 .. count : (n - 1) * size \in Nat /\ (n - 1) * size < len
  BY <1>1, CeilDivFacts
<1>3. Spans(len, pieces) = [n \in 1 .. count |-> <<(n - 1) * size + 1, Min({n * size, len})>>]
  BY DEF Spans
<1> HIDE DEF size, count
<1>4. Len(Spans(len, pieces)) = count
  BY <1>2, <1>3
<1>5. ASSUME NEW n \in 1 .. count
      PROVE  /\ (n - 1) * size + 1 \in 1 .. len
             /\ Min({n * size, len}) \in (n - 1) * size + 1 .. len
  <2>1. (n - 1) * size \in Nat /\ (n - 1) * size < len
    BY <1>2, <1>5
  <2>2. n * size = (n - 1) * size + size /\ n * size \in Nat
    BY <1>1, <1>2, <1>5
  <2>3. /\ Min({n * size, len}) \in {n * size, len}
        /\ Min({n * size, len}) <= n * size /\ Min({n * size, len}) <= len
    BY <2>2, LeastOfTwo
  <2> QED
    BY <1>1, <2>1, <2>2, <2>3
<1> QED
  BY <1>2, <1>3, <1>4, <1>5

--------------------------------------------------------------------------------
(* Sums. *)

\* A set of numbers has a least one.
LEMMA LeastOfMany ==
    ASSUME NEW T \in SUBSET Nat, T # {}
    PROVE  \E x \in T : \A y \in T : ~ (y < x)
<1> DEFINE R == OpToRel(<, Nat)
<1>1. IsWellFoundedOn(R, Nat)
  BY NatLessThanWellFounded
<1>2. PICK x \in T : \A y \in T : <<y, x>> \notin R
  <2> HIDE DEF R
  <2> QED
    BY <1>1, WFMin
<1> QED
  BY <1>2 DEF OpToRel

\* The sums of the first numbers of a sequence, as far as n.
Adds(f, numbers, n) ==
    f = [i \in 0 .. n |-> IF i = 0 THEN 0 ELSE f[i - 1] + numbers[i]]

LEMMA AddsFacts ==
    ASSUME NEW numbers, NEW n \in Nat, NEW f, Adds(f, numbers, n)
    PROVE  f[0] = 0 /\ \A i \in 1 .. n : f[i] = f[i - 1] + numbers[i]
<1> DEFINE g == [i \in 0 .. n |-> IF i = 0 THEN 0 ELSE f[i - 1] + numbers[i]]
<1>1. f = g
  BY DEF Adds
<1>2. g[0] = 0 /\ \A i \in 1 .. n : g[i] = f[i - 1] + numbers[i]
  OBVIOUS
<1> HIDE DEF g
<1> QED
  BY <1>1, <1>2

\* They can be had for every n.
LEMMA AddsExist ==
    ASSUME NEW numbers, NEW len \in Nat
    PROVE  \E f : Adds(f, numbers, len)
<1> DEFINE Wrong == {n \in Nat : ~ \E f : Adds(f, numbers, n)}
<1>1. SUFFICES ASSUME Wrong # {} PROVE FALSE
  OBVIOUS
<1>2. PICK n \in Wrong : \A m \in Wrong : ~ (m < n)
  <2>1. Wrong \in SUBSET Nat
    OBVIOUS
  <2> HIDE DEF Wrong
  <2> QED
    BY <1>1, <2>1, LeastOfMany
<1>3. n \in Nat /\ ~ \E f : Adds(f, numbers, n)
  OBVIOUS
<1>4. CASE n = 0
  <2> DEFINE f == [i \in 0 .. 0 |-> 0]
  <2>1. f = [i \in 0 .. 0 |-> IF i = 0 THEN 0 ELSE f[i - 1] + numbers[i]]
    OBVIOUS
  <2> HIDE DEF f
  <2> QED
    BY <1>3, <1>4, <2>1 DEF Adds
<1>5. CASE n # 0
  <2>1. n - 1 \in Nat /\ n - 1 < n /\ n - 1 \notin Wrong
    <3>1. n - 1 \in Nat /\ n - 1 < n
      BY <1>3, <1>5
    <3> HIDE DEF Wrong
    <3> QED
      BY <1>2, <3>1
  <2>2. PICK f : Adds(f, numbers, n - 1)
    BY <2>1
  <2>3. f[0] = 0 /\ \A i \in 1 .. n - 1 : f[i] = f[i - 1] + numbers[i]
    BY <2>1, <2>2, AddsFacts
  <2> DEFINE g == [i \in 0 .. n |-> IF i = n THEN f[n - 1] + numbers[n] ELSE f[i]]
  <2>4. ASSUME NEW i \in 0 .. n
        PROVE  g[i] = IF i = 0 THEN 0 ELSE g[i - 1] + numbers[i]
    <3>1. i \in Nat /\ i <= n /\ 0 \in 0 .. n
      BY <1>3
    <3>2. CASE i = 0
      BY <1>5, <2>3, <3>1, <3>2
    <3>3. CASE i # 0
      <4>1. i - 1 \in 0 .. n /\ i - 1 # n
        BY <1>3, <3>1, <3>3
      <4>2. g[i - 1] = f[i - 1]
        BY <4>1
      <4>3. i # n => i \in 1 .. n - 1
        BY <1>3, <3>1, <3>3
      <4>4. i # n => g[i] = f[i - 1] + numbers[i]
        BY <2>3, <3>1, <4>3
      <4>5. i = n => g[i] = f[i - 1] + numbers[i]
        OBVIOUS
      <4> HIDE DEF g
      <4> QED
        BY <3>3, <4>2, <4>4, <4>5
    <3> QED
      BY <3>2, <3>3
  <2>5. g = [i \in 0 .. n |-> g[i]]
    OBVIOUS
  <2> HIDE DEF g
  <2>6. Adds(g, numbers, n)
    BY <2>4, <2>5 DEF Adds
  <2> QED
    BY <1>3, <2>6
<1> QED
  BY <1>4, <1>5

\* A total is the last of them.
LEMMA TotalAdds ==
    ASSUME NEW numbers, Len(numbers) \in Nat
    PROVE  \E f : Adds(f, numbers, Len(numbers)) /\ Total(numbers) = f[Len(numbers)]
<1> DEFINE f == CHOOSE f : Adds(f, numbers, Len(numbers))
<1>1. Adds(f, numbers, Len(numbers))
  BY AddsExist
<1>2. Total(numbers) = f[Len(numbers)]
  BY Zenon DEF Total, Adds
<1> QED
  BY <1>1, <1>2

\* What is true of the first sum and passed on from each to the next is true of the last.
LEMMA TrueOfTheLast ==
    ASSUME NEW len \in Nat, NEW T, 0 \in T, \A i \in 1 .. len : i - 1 \in T => i \in T
    PROVE  len \in T
<1> DEFINE Wrong == {i \in 0 .. len : i \notin T}
<1>1. SUFFICES ASSUME Wrong # {} PROVE FALSE
  BY DEF Wrong
<1>2. PICK n \in Wrong : \A m \in Wrong : ~ (m < n)
  <2>1. Wrong \in SUBSET Nat
    OBVIOUS
  <2> HIDE DEF Wrong
  <2> QED
    BY <1>1, <2>1, LeastOfMany
<1>3. n \in 1 .. len
  OBVIOUS
<1>4. n - 1 \in 0 .. len /\ n - 1 < n
  BY <1>3
<1>5. n - 1 \in T
  BY <1>2, <1>4
<1> QED
  BY <1>2, <1>3, <1>5

\* The total of natural numbers is one.
LEMMA TotalIsNat ==
    ASSUME NEW numbers \in Seq(Nat)
    PROVE  Total(numbers) \in Nat
<1> DEFINE len == Len(numbers)
<1>1. len \in Nat /\ \A i \in 1 .. len : numbers[i] \in Nat
  OBVIOUS
<1>2. PICK f : Adds(f, numbers, len) /\ Total(numbers) = f[len]
  BY <1>1, TotalAdds
<1> HIDE DEF len
<1> DEFINE T == {i \in Nat : f[i] \in Nat}
<1>3. f[0] = 0 /\ \A i \in 1 .. len : f[i] = f[i - 1] + numbers[i]
  BY <1>1, <1>2, AddsFacts
<1>a. \A a, b \in Nat : a + b \in Nat
  OBVIOUS
<1>4. 0 \in T /\ \A i \in 1 .. len : i - 1 \in T => i \in T
  <2>1. 0 \in T
    BY <1>3
  <2>2. ASSUME NEW i \in 1 .. len, i - 1 \in T PROVE i \in T
    <3>1. f[i - 1] \in Nat /\ f[i] = f[i - 1] + numbers[i] /\ numbers[i] \in Nat /\ i \in Nat
      BY <1>1, <1>3, <2>2
    <3>2. f[i] \in Nat
      BY <1>a, <3>1, Zenon
    <3> QED
      BY <3>1, <3>2
  <2> QED
    BY <2>1, <2>2
<1>5. len \in T
  <2> HIDE DEF T
  <2> QED
    BY <1>1, <1>4, TrueOfTheLast
<1> QED
  BY <1>2, <1>5

\* It falls by what one of the numbers falls by.
LEMMA TotalFalls ==
    ASSUME NEW v \in Seq(Nat), NEW w \in Seq(Nat), Len(v) = Len(w), NEW e \in DOMAIN w,
           v[e] < w[e], \A i \in DOMAIN w \ {e} : v[i] = w[i]
    PROVE  Total(v) < Total(w)
<1> DEFINE len == Len(w)
<1>1. /\ len \in Nat /\ e \in 1 .. len /\ Len(v) = len
      /\ \A i \in 1 .. len : v[i] \in Nat /\ w[i] \in Nat /\ (i # e => v[i] = w[i])
  <2>1. len \in Nat /\ e \in 1 .. len /\ Len(v) = len /\ DOMAIN w = 1 .. len
    OBVIOUS
  <2>2. ASSUME NEW i \in 1 .. len PROVE v[i] \in Nat /\ w[i] \in Nat
    OBVIOUS
  <2>3. ASSUME NEW i \in 1 .. len, i # e PROVE v[i] = w[i]
    BY <2>1, <2>3
  <2> QED
    BY <2>1, <2>2, <2>3
<1>2. PICK f : Adds(f, v, len) /\ Total(v) = f[len]
  BY <1>1, TotalAdds
<1>3. PICK g : Adds(g, w, len) /\ Total(w) = g[len]
  BY <1>1, TotalAdds
<1> HIDE DEF len
<1>4. /\ f[0] = 0 /\ \A i \in 1 .. len : f[i] = f[i - 1] + v[i]
      /\ g[0] = 0 /\ \A i \in 1 .. len : g[i] = g[i - 1] + w[i]
  <2>1. f[0] = 0 /\ \A i \in 1 .. len : f[i] = f[i - 1] + v[i]
    <3>1. v \in Seq(Nat) /\ len = Len(v) /\ Adds(f, v, len)
      BY <1>1, <1>2
    <3> QED
      BY <1>1, <3>1, AddsFacts
  <2>2. g[0] = 0 /\ \A i \in 1 .. len : g[i] = g[i - 1] + w[i]
    BY <1>1, <1>3, AddsFacts
  <2> QED
    BY <2>1, <2>2
<1>a. \A a, b, c, d \in Nat : a + c \in Nat /\ (a <= b /\ c < d => a + c < b + d)
  OBVIOUS
<1>c. \A a, b \in Nat : a + b \in Nat
  OBVIOUS
<1>b. \A a, b, c \in Nat : a < b => a + c < b + c
  OBVIOUS
<1> DEFINE Below(i) ==
              /\ f[i] \in Nat /\ g[i] \in Nat
              /\ IF i < e THEN f[i] = g[i] ELSE f[i] < g[i]
           T == {i \in Nat : Below(i)}
<1>5. 0 \in T
  BY <1>1, <1>4
<1>6. ASSUME NEW i \in 1 .. len, i - 1 \in T PROVE i \in T
  <2>1. /\ f[i - 1] \in Nat /\ g[i - 1] \in Nat /\ i \in Nat /\ e \in Nat
        /\ IF i - 1 < e THEN f[i - 1] = g[i - 1] ELSE f[i - 1] < g[i - 1]
    BY <1>1, <1>6
  <2>2. f[i] = f[i - 1] + v[i] /\ g[i] = g[i - 1] + w[i] /\ v[i] \in Nat /\ w[i] \in Nat
    BY <1>1, <1>4
  <2>a. f[i] \in Nat /\ g[i] \in Nat
    <3>1. f[i - 1] + v[i] \in Nat /\ g[i - 1] + w[i] \in Nat
      BY <1>c, <2>1, <2>2, Zenon
    <3> QED
      BY <2>2, <3>1, Zenon
  <2>3. CASE i < e
    <3>1. v[i] = w[i] /\ i - 1 < e
      BY <1>1, <2>1, <2>3
    <3>2. f[i] = g[i]
      BY <2>1, <2>2, <3>1, Zenon
    <3> QED
      BY <2>1, <2>3, <2>a, <3>2
  <2>4. CASE i = e
    <3>1. f[i - 1] = g[i - 1] /\ v[i] < w[i] /\ ~ (i < e)
      BY <1>1, <2>1, <2>4
    <3>2. f[i - 1] <= g[i - 1]
      BY <2>1, <3>1
    <3>3. f[i - 1] + v[i] < g[i - 1] + w[i]
      BY <1>a, <2>1, <2>2, <3>1, <3>2, Zenon
    <3>4. f[i] < g[i]
      BY <2>2, <3>3, Zenon
    <3> QED
      BY <2>1, <2>a, <3>1, <3>4
  <2>5. CASE i > e
    <3>1. v[i] = w[i] /\ f[i - 1] < g[i - 1] /\ ~ (i < e)
      BY <1>1, <2>1, <2>5
    <3>2. f[i - 1] + v[i] < g[i - 1] + v[i]
      BY <1>b, <2>1, <2>2, <3>1, Zenon
    <3>3. f[i] < g[i]
      BY <2>2, <3>1, <3>2, Zenon
    <3> QED
      BY <2>1, <2>a, <3>1, <3>3
  <2> QED
    BY <2>1, <2>3, <2>4, <2>5
<1>7. len \in T
  <2> HIDE DEF T
  <2> QED
    BY <1>1, <1>5, <1>6, TrueOfTheLast
<1> QED
  BY <1>1, <1>2, <1>3, <1>7

--------------------------------------------------------------------------------
(* Schedules. *)

\* What the numbers of a fault are.
LEMMA FaultFacts ==
    ASSUME NEW fault \in Fault
    PROVE  /\ fault.during \in Window
           /\ fault.during.start \in Nat /\ fault.during.end \in Nat
           /\ fault.during.start <= fault.during.end
           /\ fault.odds.numerator \in Nat /\ fault.odds.denominator \in Nat \ {0}
<1>1. fault.during \in Window /\ fault.odds \in [numerator : Nat, denominator : Nat \ {0}]
  BY DEF Fault, Odds
<1>2. Instant \subseteq Nat
  BY MaxTimeAssumption DEF Instant
<1> QED
  BY <1>1, <1>2 DEF Window

\* A schedule is no more than itself, nor is one of its faults.
LEMMA InsideItself == ASSUME NEW fault \in Fault PROVE Inside(fault, fault)
BY FaultFacts DEF Inside

\* Two pieces put together.
LEMMA Joined ==
    ASSUME NEW a \in Seq(Fault), NEW b \in Seq(Fault)
    PROVE  /\ a \o b \in Seq(Fault) /\ Len(a \o b) = Len(a) + Len(b)
           /\ DOMAIN (a \o b) = 1 .. Len(a \o b)
           /\ \A i \in 1 .. Len(a \o b) : (a \o b)[i] = IF i <= Len(a) THEN a[i] ELSE b[i - Len(a)]
OBVIOUS

\* A schedule without a piece is a schedule, and no more than it was.
LEMMA WithoutFacts ==
    ASSUME NEW s \in Seq(Fault), NEW first \in 1 .. Len(s), NEW last \in first .. Len(s)
    PROVE  /\ Without(s, <<first, last>>) \in Seq(Fault) /\ NoMore(Without(s, <<first, last>>), s)
           /\ Len(Without(s, <<first, last>>)) < Len(s)
<1> DEFINE t == Without(s, <<first, last>>)
           from == [i \in DOMAIN t |-> IF i < first THEN i ELSE i + (last - first + 1)]
<1>1. Len(s) \in Nat /\ first \in Nat /\ last \in Nat
  OBVIOUS
<1>2. t = SubSeq(s, 1, first - 1) \o SubSeq(s, last + 1, Len(s))
  BY DEF Without
<1>3. /\ SubSeq(s, 1, first - 1) \in Seq(Fault) /\ Len(SubSeq(s, 1, first - 1)) = first - 1
      /\ \A i \in 1 .. first - 1 : SubSeq(s, 1, first - 1)[i] = s[i]
  BY <1>1
<1>4. /\ SubSeq(s, last + 1, Len(s)) \in Seq(Fault)
      /\ Len(SubSeq(s, last + 1, Len(s))) = Len(s) - last
      /\ \A i \in 1 .. Len(s) - last : SubSeq(s, last + 1, Len(s))[i] = s[i + last]
  BY <1>1
<1>5. /\ t \in Seq(Fault) /\ Len(t) = first - 1 + (Len(s) - last) /\ DOMAIN t = 1 .. Len(t)
      /\ \A i \in 1 .. Len(t) :
            t[i] = IF i < first THEN s[i] ELSE s[i - (first - 1) + last]
  <2> DEFINE a == SubSeq(s, 1, first - 1)
             b == SubSeq(s, last + 1, Len(s))
  <2>1. /\ a \in Seq(Fault) /\ Len(a) = first - 1 /\ b \in Seq(Fault) /\ Len(b) = Len(s) - last
        /\ \A i \in 1 .. first - 1 : a[i] = s[i]
        /\ \A i \in 1 .. Len(s) - last : b[i] = s[i + last]
        /\ t = a \o b
    BY <1>2, <1>3, <1>4
  <2> HIDE DEF a, b, t
  <2>2. /\ t \in Seq(Fault) /\ Len(t) = Len(a) + Len(b) /\ DOMAIN t = 1 .. Len(t)
        /\ \A i \in 1 .. Len(t) : t[i] = IF i <= Len(a) THEN a[i] ELSE b[i - Len(a)]
    BY <2>1, Joined
  <2>3. ASSUME NEW i \in 1 .. Len(t)
        PROVE  t[i] = IF i < first THEN s[i] ELSE s[i - (first - 1) + last]
    <3>1. CASE i < first
      BY <1>1, <2>1, <2>2, <3>1
    <3>2. CASE ~ (i < first)
      <4>1. i - (first - 1) \in 1 .. Len(s) - last /\ t[i] = b[i - (first - 1)]
        BY <1>1, <2>1, <2>2, <3>2
      <4> QED
        BY <2>1, <3>2, <4>1
    <3> QED
      BY <3>1, <3>2
  <2> QED
    BY <2>1, <2>2, <2>3
<1> HIDE DEF t
<1>6. /\ from \in [DOMAIN t -> DOMAIN s]
      /\ \A i \in DOMAIN t : from[i] = IF i < first THEN i ELSE i + (last - first + 1)
  <2>1. ASSUME NEW i \in DOMAIN t
        PROVE  (IF i < first THEN i ELSE i + (last - first + 1)) \in DOMAIN s
    BY <1>1, <1>5
  <2> QED
    BY <2>1
<1>a. ASSUME NEW i \in DOMAIN t, NEW j \in DOMAIN t, i < j PROVE from[i] < from[j]
  <2>1. i \in Nat /\ j \in Nat
    BY <1>5
  <2> QED
    BY <1>1, <1>6, <1>a, <2>1
<1>7. ASSUME NEW i \in DOMAIN t PROVE t[i] = s[from[i]] /\ s[from[i]] \in Fault
  <2>1. t[i] = IF i < first THEN s[i] ELSE s[i - (first - 1) + last]
    BY <1>5
  <2>2. i - (first - 1) + last = i + (last - first + 1)
    BY <1>1, <1>5
  <2>3. t[i] = s[from[i]] /\ from[i] \in DOMAIN s
    BY <1>6, <2>1, <2>2
  <2> QED
    BY <2>3
<1> HIDE DEF from
<1>8. \A i \in DOMAIN t : Inside(t[i], s[from[i]])
  BY <1>7, InsideItself
<1>9. NoMore(t, s)
  BY <1>6, <1>a, <1>8 DEF NoMore
<1>10. Len(t) < Len(s)
  BY <1>1, <1>5
<1> QED
  BY <1>5, <1>9, <1>10 DEF t

\* So is one in which one fault was made less.
LEMMA OneLess ==
    ASSUME NEW s \in Seq(Fault), NEW t \in Seq(Fault), Len(t) = Len(s), NEW e \in DOMAIN s,
           \A i \in DOMAIN s \ {e} : t[i] = s[i], Inside(t[e], s[e])
    PROVE  NoMore(t, s)
<1>1. DOMAIN t = DOMAIN s /\ \A i \in DOMAIN s : s[i] \in Fault /\ i \in Nat
  OBVIOUS
<1>2. \A i \in DOMAIN t : Inside(t[i], s[i])
  BY <1>1, InsideItself
<1> DEFINE from == [i \in DOMAIN t |-> i]
<1>3. from \in [DOMAIN t -> DOMAIN s] /\ \A i, j \in DOMAIN t : i < j => from[i] < from[j]
  BY <1>1
<1>4. \A i \in DOMAIN t : Inside(t[i], s[from[i]])
  BY <1>2
<1> HIDE DEF from
<1> QED
  BY <1>3, <1>4 DEF NoMore

\* An entry with one of its two fields replaced.
LEMMA RecordWithDuring ==
    ASSUME NEW K, NEW F, NEW D, NEW O, NEW v,
           NEW x \in [kind : K, from : F, to : F, during : D, odds : O]
    PROVE  [x EXCEPT !.during = v]
               = [kind |-> x.kind, from |-> x.from, to |-> x.to, during |-> v, odds |-> x.odds]
OBVIOUS

LEMMA RecordWithOdds ==
    ASSUME NEW K, NEW F, NEW D, NEW O, NEW v,
           NEW x \in [kind : K, from : F, to : F, during : D, odds : O]
    PROVE  [x EXCEPT !.odds = v]
               = [kind |-> x.kind, from |-> x.from, to |-> x.to, during |-> x.during, odds |-> v]
OBVIOUS

LEMMA WithDuring ==
    ASSUME NEW x \in Fault, NEW v
    PROVE  [x EXCEPT !.during = v]
               = [kind |-> x.kind, from |-> x.from, to |-> x.to, during |-> v, odds |-> x.odds]
BY RecordWithDuring DEF Fault, Odds

LEMMA WithOdds ==
    ASSUME NEW x \in Fault, NEW v
    PROVE  [x EXCEPT !.odds = v]
               = [kind |-> x.kind, from |-> x.from, to |-> x.to, during |-> x.during, odds |-> v]
BY RecordWithOdds DEF Fault, Odds

\* `narrowed_to` keeps to the window it narrows.
LEMMA NarrowedFacts ==
    ASSUME NEW s \in Seq(Fault), NEW e \in DOMAIN s, NEW start \in Nat, NEW end \in Nat
    PROVE  LET t == Narrowed(s, e, start, end)
           IN  /\ t \in Seq(Fault) /\ NoMore(t, s)
               /\ Len(t) = Len(s) /\ \A i \in DOMAIN s \ {e} : t[i] = s[i]
               /\ t[e].kind = s[e].kind /\ t[e].odds = s[e].odds
               /\ t[e].during = NarrowedTo(s[e].during, start, end)
<1> DEFINE w == s[e].during
           v == NarrowedTo(w, start, end)
           fault == [kind |-> s[e].kind, from |-> s[e].from, to |-> s[e].to, during |-> v,
                     odds |-> s[e].odds]
           t == [s EXCEPT ![e] = fault]
<1>1. s[e] \in Fault
  OBVIOUS
<1>a. w \in Window
  BY <1>1 DEF Fault, Odds
<1>2. v \in Window /\ w.start <= v.start /\ v.start <= v.end /\ v.end <= w.end
  BY <1>a, MaxTimeAssumption DEF NarrowedTo, Clamp, Window, Instant
<1> HIDE DEF v
<1>3. fault \in Fault /\ Inside(fault, s[e])
  <2>1. fault \in Fault
    BY <1>1, <1>2 DEF Fault, Odds
  <2>2. s[e].odds.numerator \in Nat
    BY <1>1, FaultFacts
  <2> QED
    BY <1>2, <2>1, <2>2 DEF Inside
<1>4. Narrowed(s, e, start, end) = t
  <2>1. [s[e] EXCEPT !.during = v] = fault
    BY <1>1, WithDuring
  <2> QED
    BY <2>1 DEF Narrowed, v
<1>6. fault.kind = s[e].kind /\ fault.odds = s[e].odds /\ fault.during = v
  OBVIOUS
<1> HIDE DEF fault
<1>5. t \in Seq(Fault) /\ Len(t) = Len(s) /\ t[e] = fault /\ \A i \in DOMAIN s \ {e} : t[i] = s[i]
  BY <1>3
<1> HIDE DEF t
<1>7. NoMore(t, s)
  BY <1>3, <1>5, OneLess
<1> QED
  BY <1>4, <1>5, <1>6, <1>7 DEF v

\* `lowered_to` keeps the denominator, and raises nothing.
LEMMA LoweredFacts ==
    ASSUME NEW s \in Seq(Fault), NEW e \in DOMAIN s, NEW numerator \in Nat
    PROVE  LET t == Lowered(s, e, numerator)
           IN  /\ t \in Seq(Fault) /\ NoMore(t, s)
               /\ Len(t) = Len(s) /\ \A i \in DOMAIN s \ {e} : t[i] = s[i]
               /\ t[e].kind = s[e].kind /\ t[e].during = s[e].during
               /\ t[e].odds = LoweredTo(s[e].odds, numerator)
<1> DEFINE v == LoweredTo(s[e].odds, numerator)
           fault == [kind |-> s[e].kind, from |-> s[e].from, to |-> s[e].to,
                     during |-> s[e].during, odds |-> v]
           t == [s EXCEPT ![e] = fault]
<1>1. s[e] \in Fault
  OBVIOUS
<1>a. s[e].odds \in [numerator : Nat, denominator : Nat \ {0}]
  BY <1>1 DEF Fault, Odds
<1>2. /\ v \in [numerator : Nat, denominator : Nat \ {0}]
      /\ v.denominator = s[e].odds.denominator /\ v.numerator <= s[e].odds.numerator
  BY <1>a DEF LoweredTo
<1> HIDE DEF v
<1>3. fault \in Fault /\ Inside(fault, s[e])
  <2>1. fault \in Fault
    BY <1>1, <1>2 DEF Fault, Odds
  <2>2. /\ s[e].during.start \in Nat /\ s[e].during.end \in Nat
        /\ s[e].during.start <= s[e].during.end
    BY <1>1, FaultFacts
  <2> QED
    BY <1>2, <2>1, <2>2 DEF Inside
<1>4. Lowered(s, e, numerator) = t
  <2>1. [s[e] EXCEPT !.odds = v] = fault
    BY <1>1, WithOdds
  <2> QED
    BY <2>1 DEF Lowered, v
<1>6. fault.kind = s[e].kind /\ fault.during = s[e].during /\ fault.odds = v
  OBVIOUS
<1> HIDE DEF fault
<1>5. t \in Seq(Fault) /\ Len(t) = Len(s) /\ t[e] = fault /\ \A i \in DOMAIN s \ {e} : t[i] = s[i]
  BY <1>3
<1> HIDE DEF t
<1>7. NoMore(t, s)
  BY <1>3, <1>5, OneLess
<1> QED
  BY <1>4, <1>5, <1>6, <1>7 DEF v

--------------------------------------------------------------------------------
(* The order candidates come down in. *)

LEMMA TotalsAreNat ==
    ASSUME NEW s \in Seq(Fault)
    PROVE  TotalSpan(s) \in Nat /\ TotalOdds(s) \in Nat /\ Len(s) \in Nat
<1> DEFINE spans == [i \in DOMAIN s |-> s[i].during.end - s[i].during.start]
           odds == [i \in DOMAIN s |-> s[i].odds.numerator]
<1>1. Len(s) \in Nat /\ DOMAIN s = 1 .. Len(s) /\ \A i \in DOMAIN s : s[i] \in Fault
  OBVIOUS
<1>2. \A i \in DOMAIN s :
         s[i].during.end - s[i].during.start \in Nat /\ s[i].odds.numerator \in Nat
  <2>1. ASSUME NEW x \in Fault
        PROVE  x.during.end - x.during.start \in Nat /\ x.odds.numerator \in Nat
    BY FaultFacts
  <2> QED
    BY <1>1, <2>1
<1>3. spans \in Seq(Nat) /\ odds \in Seq(Nat)
  BY <1>1, <1>2
<1> HIDE DEF spans, odds
<1>4. Total(spans) \in Nat /\ Total(odds) \in Nat
  BY <1>3, TotalIsNat
<1> QED
  BY <1>1, <1>4 DEF TotalSpan, TotalOdds, spans, odds

LEMMA SmallerIsAnOrder ==
    ASSUME NEW s \in Seq(Fault), NEW t \in Seq(Fault), NEW u \in Seq(Fault)
    PROVE  /\ ~ Smaller(s, s)
           /\ Smaller(s, t) /\ Smaller(t, u) => Smaller(s, u)
<1>1. /\ TotalSpan(s) \in Nat /\ TotalOdds(s) \in Nat /\ Len(s) \in Nat
      /\ TotalSpan(t) \in Nat /\ TotalOdds(t) \in Nat /\ Len(t) \in Nat
      /\ TotalSpan(u) \in Nat /\ TotalOdds(u) \in Nat /\ Len(u) \in Nat
  BY TotalsAreNat
<1>2. ~ Smaller(s, s)
  BY <1>1 DEF Smaller
<1>3. ASSUME Smaller(s, t), Smaller(t, u) PROVE Smaller(s, u)
  <2>1. CASE Len(s) < Len(u)
    BY <2>1 DEF Smaller
  <2>2. CASE ~ (Len(s) < Len(u))
    <3>1. Len(s) = Len(t) /\ Len(t) = Len(u)
      BY <1>1, <1>3, <2>2 DEF Smaller
    <3>2. /\ \/ TotalSpan(s) < TotalSpan(t)
             \/ TotalSpan(s) = TotalSpan(t) /\ TotalOdds(s) < TotalOdds(t)
          /\ \/ TotalSpan(t) < TotalSpan(u)
             \/ TotalSpan(t) = TotalSpan(u) /\ TotalOdds(t) < TotalOdds(u)
      BY <1>1, <1>3, <3>1 DEF Smaller
    <3>3. \/ TotalSpan(s) < TotalSpan(u)
          \/ TotalSpan(s) = TotalSpan(u) /\ TotalOdds(s) < TotalOdds(u)
      BY <1>1, <3>2
    <3> QED
      BY <3>1, <3>3 DEF Smaller
  <2> QED
    BY <2>1, <2>2
<1> QED
  BY <1>2, <1>3

\* A schedule in which one window is shorter and nothing else differs is smaller.
LEMMA ShorterIsSmaller ==
    ASSUME NEW s \in Seq(Fault), NEW t \in Seq(Fault), Len(t) = Len(s), NEW e \in DOMAIN s,
           \A i \in DOMAIN s \ {e} : t[i] = s[i],
           t[e].during.end - t[e].during.start < s[e].during.end - s[e].during.start
    PROVE  Smaller(t, s)
<1> DEFINE v == [i \in DOMAIN t |-> t[i].during.end - t[i].during.start]
           w == [i \in DOMAIN s |-> s[i].during.end - s[i].during.start]
<1>1. /\ DOMAIN t = DOMAIN s /\ DOMAIN s = 1 .. Len(s) /\ Len(s) \in Nat
      /\ \A i \in DOMAIN s : s[i] \in Fault /\ t[i] \in Fault
  OBVIOUS
<1>2. \A i \in DOMAIN s : /\ s[i].during.end - s[i].during.start \in Nat
                          /\ t[i].during.end - t[i].during.start \in Nat
  <2>1. ASSUME NEW x \in Fault PROVE x.during.end - x.during.start \in Nat
    BY FaultFacts
  <2> QED
    BY <1>1, <2>1
<1>3. v \in Seq(Nat) /\ w \in Seq(Nat) /\ Len(v) = Len(s) /\ Len(w) = Len(s)
      /\ DOMAIN w = DOMAIN s
  BY <1>1, <1>2
<1>4. v[e] < w[e] /\ \A i \in DOMAIN w \ {e} : v[i] = w[i]
  BY <1>1, <1>2
<1> HIDE DEF v, w
<1>5. Total(v) < Total(w)
  BY <1>3, <1>4, TotalFalls
<1> QED
  BY <1>5 DEF Smaller, TotalSpan, v, w

\* So is one in which one fault is less likely and nothing else differs.
LEMMA RarerIsSmaller ==
    ASSUME NEW s \in Seq(Fault), NEW t \in Seq(Fault), Len(t) = Len(s), NEW e \in DOMAIN s,
           \A i \in DOMAIN s \ {e} : t[i] = s[i], t[e].during = s[e].during,
           t[e].odds.numerator < s[e].odds.numerator
    PROVE  Smaller(t, s)
<1> DEFINE v == [i \in DOMAIN t |-> t[i].odds.numerator]
           w == [i \in DOMAIN s |-> s[i].odds.numerator]
<1>1. /\ DOMAIN t = DOMAIN s /\ DOMAIN s = 1 .. Len(s) /\ Len(s) \in Nat
      /\ \A i \in DOMAIN s : s[i] \in Fault /\ t[i] \in Fault
  OBVIOUS
<1>2. \A i \in DOMAIN s : s[i].odds.numerator \in Nat /\ t[i].odds.numerator \in Nat
  BY <1>1, FaultFacts
<1>3. v \in Seq(Nat) /\ w \in Seq(Nat) /\ Len(v) = Len(s) /\ Len(w) = Len(s)
      /\ DOMAIN w = DOMAIN s
  BY <1>1, <1>2
<1>4. v[e] < w[e] /\ \A i \in DOMAIN w \ {e} : v[i] = w[i]
  BY <1>1, <1>2
<1> HIDE DEF v, w
<1>5. Total(v) < Total(w)
  BY <1>3, <1>4, TotalFalls
<1>6. \A i \in DOMAIN s : t[i].during = s[i].during
  OBVIOUS
<1>7. TotalSpan(t) = TotalSpan(s)
  BY <1>1, <1>6 DEF TotalSpan
<1> QED
  BY <1>5, <1>7 DEF Smaller, TotalOdds, v, w

--------------------------------------------------------------------------------
(* Candidates. *)

\* A bisection is of an entry there is.
LEMMA BisectionFacts ==
    ASSUME NEW s \in Seq(Fault), NEW n \in 1 .. LastBisection(s)
    PROVE  /\ Bisection(s, n).entry \in DOMAIN s
           /\ Bisection(s, n).of \in {"end", "start", "odds"}
<1>1. Len(s) \in Nat /\ n \in Nat /\ 1 <= n /\ n <= 3 * Len(s) /\ DOMAIN s = 1 .. Len(s)
  BY DEF LastBisection
<1>2. CASE n <= 2 * Len(s)
  <2>1. CeilDiv(n, 2) \in 1 .. Len(s)
    BY <1>1, <1>2 DEF CeilDiv
  <2> QED
    BY <1>1, <1>2, <2>1 DEF Bisection
<1>3. CASE ~ (n <= 2 * Len(s))
  <2>1. n - 2 * Len(s) \in 1 .. Len(s)
    BY <1>1, <1>3
  <2> QED
    BY <1>1, <1>3, <2>1 DEF Bisection
<1> QED
  BY <1>2, <1>3

\* Where a bisection begins to look.
LEMMA SpanFacts ==
    ASSUME NEW s \in Seq(Fault), NEW n \in 1 .. LastBisection(s)
    PROVE  Span(s, n) \in [low : Nat, high : Nat]
<1> DEFINE fault == s[Bisection(s, n).entry]
<1>1. fault \in Fault
  BY BisectionFacts
<1> HIDE DEF fault
<1>2. /\ fault.during.start \in Nat /\ fault.during.end \in Nat /\ fault.odds.numerator \in Nat
  BY <1>1, FaultFacts
<1> QED
  BY <1>2 DEF Span, Nowhere, fault

\* Whatever is offered is a schedule, and no more than what is kept.
LEMMA CandidateFacts ==
    ASSUME SInv, phase \in {"empty", "drop"} \/ Searching
    PROVE  Candidate \in Seq(Fault) /\ NoMore(Candidate, kept)
<1>0. kept \in Seq(Fault)
  BY DEF SInv
<1>1. CASE phase = "empty"
  <2>1. Candidate = <<>>
    BY <1>1 DEF Candidate, Searching
  <2>2. <<>> \in Seq(Fault) /\ DOMAIN <<>> = {}
    OBVIOUS
  <2>3. [i \in {} |-> i] \in [{} -> DOMAIN kept]
    OBVIOUS
  <2> QED
    BY <2>1, <2>2, <2>3 DEF NoMore
<1>2. CASE phase = "drop"
  <2>1. Candidate = Without(kept, Spans(Len(kept), chunks)[piece])
    BY <1>2 DEF Candidate, Searching
  <2>2. Cutting /\ Len(kept) \in Nat \ {0}
    BY <1>0, <1>2 DEF SInv, Cutting
  <2>3. PICK first \in 1 .. Len(kept) : \E last \in first .. Len(kept) :
           Spans(Len(kept), chunks)[piece] = <<first, last>>
    BY <2>2, SpansFacts DEF Cutting
  <2>4. PICK last \in first .. Len(kept) : Spans(Len(kept), chunks)[piece] = <<first, last>>
    BY <2>3
  <2> QED
    BY <1>0, <2>1, <2>4, WithoutFacts
<1>3. CASE Searching
  <2> DEFINE b == Bisection(kept, search)
             window == kept[b.entry].during
  <2>1. /\ search \in 1 .. LastBisection(kept) /\ phase = "search"
        /\ low \in Nat /\ high \in Nat /\ low < high
    BY <1>0, <1>3 DEF Searching, SInv, LastBisection, low, high
  <2>2. b.entry \in DOMAIN kept /\ b.of \in {"end", "start", "odds"}
    BY <1>0, <2>1, BisectionFacts
  <2>3. LowerMid \in Nat /\ UpperMid \in Nat
    BY <2>1 DEF LowerMid, UpperMid, CeilDiv
  <2>a. kept[b.entry] \in Fault
    BY <1>0, <2>2
  <2>4. window.start \in Nat /\ window.end \in Nat
    BY <2>a, MaxTimeAssumption DEF Fault, Odds, Window, Instant
  <2> HIDE DEF b, window
  <2>5. CASE b.of = "end"
    <3>1. Candidate = Narrowed(kept, b.entry, window.start, LowerMid)
      BY <1>3, <2>1, <2>5 DEF Candidate, b, window
    <3> QED
      BY <1>0, <2>2, <2>3, <2>4, <3>1, NarrowedFacts
  <2>6. CASE b.of = "start"
    <3>1. Candidate = Narrowed(kept, b.entry, UpperMid, window.end)
      BY <1>3, <2>1, <2>6 DEF Candidate, b, window
    <3> QED
      BY <1>0, <2>2, <2>3, <2>4, <3>1, NarrowedFacts
  <2>7. CASE b.of = "odds"
    <3>1. Candidate = Lowered(kept, b.entry, LowerMid)
      BY <1>3, <2>1, <2>7 DEF Candidate, b, window
    <3> QED
      BY <1>0, <2>2, <2>3, <3>1, LoweredFacts
  <2> QED
    BY <2>2, <2>5, <2>6, <2>7
<1> QED
  BY <1>1, <1>2, <1>3

\* `Reducing` orders schedules as they are ordered here.
LEMMA SameOrder == ASSUME NEW s, NEW t PROVE Promised!NoMore(s, t) = NoMore(s, t)
BY DEF Promised!NoMore, NoMore, Promised!Inside, Inside

\* A candidate that is run is kept only as `Reducing` has it, and the schedule kept fails as
\* the first one did.
LEMMA CandidateKept ==
    ASSUME SInv, phase \in {"empty", "drop"} \/ Searching, NEW came \in BOOLEAN,
           Keeps(Candidate, came), UNCHANGED <<faults, failure>>
    PROVE  /\ Promised!Reduce \/ UNCHANGED <<kept, outcome>>
           /\ Failing' /\ kept' \in Seq(Fault)
<1>1. Failing
  BY DEF SInv, Searching
<1>2. Candidate \in Seq(Fault) /\ NoMore(Candidate, kept)
  BY CandidateFacts
<1>3. PICK o \in Outcomes(Candidate) :
         /\ came = Reproduces(o, failure)
         /\ kept' = IF came THEN Candidate ELSE kept
         /\ outcome' = IF came THEN o ELSE outcome
  BY DEF Keeps
<1>4. CASE ~ came
  BY <1>1, <1>3, <1>4 DEF Failing, SInv
<1>5. CASE came
  <2>1. kept' = Candidate /\ outcome' = o /\ Reproduces(o, failure)
    BY <1>3, <1>5
  <2>2. Failing' /\ kept' \in Seq(Fault)
    BY <1>1, <1>2, <2>1 DEF Failing, Outcomes
  <2>3. CASE kept' = kept
    <3>1. \A p, q \in Outcomes(kept) : Reproduces(p, failure) /\ Reproduces(q, failure) => p = q
      BY DEF Outcomes, Reproduces, Pass, Fail
    <3> QED
      BY <1>1, <1>3, <2>1, <2>2, <2>3, <3>1 DEF Failing
  <2>4. CASE kept' # kept
    <3>1. o # Pass /\ failure # Pass /\ o.reason = failure.reason
      BY <2>1 DEF Reproduces, Pass
    <3>2. Promised!SameFailure(outcome', failure)
      BY <2>1, <3>1 DEF Promised!SameFailure, Promised!Pass, Pass
    <3> QED
      BY <1>2, <1>3, <2>1, <2>2, <2>4, <3>1, <3>2, SameOrder
      DEF Promised!Reduce, Promised!Pass, Pass
  <2> QED
    BY <2>2, <2>3, <2>4
<1> QED
  BY <1>4, <1>5

--------------------------------------------------------------------------------
(* Where the search goes next. *)

\* What the control of the search must be, for a schedule that is kept.
Placed(schedule) ==
    /\ phase' \in {"empty", "drop", "search"}
    /\ phase' = "drop" => /\ Len(schedule) > 1
                          /\ chunks' \in Nat \ {0}
                          /\ piece' \in 1 .. Len(Spans(Len(schedule), chunks'))
    /\ phase' = "search" => search' \in Nat \ {0} /\ bounds' \in [low : Nat, high : Nat]

LEMMA EnterPlaces ==
    ASSUME NEW s \in Seq(Fault), NEW n \in Nat \ {0}, Enter(s, n)
    PROVE  Placed(s)
<1>1. CASE n <= LastBisection(s)
  <2>1. n \in 1 .. LastBisection(s)
    BY <1>1 DEF LastBisection
  <2> QED
    BY <1>1, <2>1, SpanFacts DEF Enter, Placed
<1>2. CASE ~ (n <= LastBisection(s))
  BY <1>2 DEF Enter, Placed, Nowhere
<1> QED
  BY <1>1, <1>2

LEMMA CutPlaces ==
    ASSUME NEW s \in Seq(Fault), NEW pieces \in Nat \ {0}, Cut(s, pieces)
    PROVE  Placed(s)
<1>1. CASE Len(s) > 1
  <2> DEFINE count == Min({pieces, Len(s)})
  <2>1. phase' = "drop" /\ chunks' = count /\ piece' = 1
    BY <1>1 DEF Cut
  <2>2. count \in Nat \ {0} /\ Len(s) \in Nat \ {0}
    BY <1>1, LeastOfTwo
  <2> HIDE DEF count
  <2>3. Len(Spans(Len(s), count)) \in Nat \ {0}
    BY <2>2, SpansFacts
  <2> QED
    BY <1>1, <2>1, <2>2, <2>3 DEF Placed
<1>2. CASE ~ (Len(s) > 1)
  BY <1>2, EnterPlaces DEF Cut
<1> QED
  BY <1>1, <1>2

LEMMA BeginPlaces == ASSUME NEW s \in Seq(Fault), Begin(s) PROVE Placed(s)
BY DEF Begin, Placed, Nowhere

\* Put together.
LEMMA InvAgain ==
    ASSUME faults' \in Seq(Fault), kept' \in Seq(Fault), failure' \in Outcomes(faults'),
           Failing', Placed(kept')
    PROVE  SInv'
BY DEF SInv, Placed, Cutting

--------------------------------------------------------------------------------
(* Every step keeps the invariant, and is one of `Reducing` or none. *)

KeepsPromise == Promised!Next \/ UNCHANGED <<faults, failure, kept, outcome>>

LEMMA FirstRunKeeps == ASSUME SInv, FirstRun PROVE SInv' /\ KeepsPromise
<1>1. /\ phase = "run" /\ failure = Pass /\ outcome = Pass /\ kept = faults
      /\ faults \in Seq(Fault) /\ UNCHANGED <<faults, kept>>
  BY DEF FirstRun, SInv
<1>2. PICK o \in Outcomes(faults) :
         /\ failure' = o /\ outcome' = o
         /\ (o = Pass /\ phase' = "held up") \/ (o # Pass /\ Begin(faults))
  BY DEF FirstRun
<1>3. Promised!Measure
  BY <1>1, <1>2 DEF Promised!Measure, Promised!Pass, Pass
<1>4. CASE o = Pass /\ phase' = "held up"
  BY <1>1, <1>2, <1>3, <1>4 DEF SInv, KeepsPromise, Promised!Next
<1>5. CASE o # Pass /\ Begin(faults)
  <2>a. PICK reason \in Reasons : o = Fail(reason, FailsAt(faults))
    BY <1>2, <1>5 DEF Outcomes
  <2>1. Reproduces(o, o)
    BY <2>a DEF Reproduces, Fail
  <2>2. Failing'
    BY <1>1, <1>2, <1>5, <2>1 DEF Failing, Outcomes
  <2>3. Placed(kept')
    BY <1>1, <1>5, BeginPlaces
  <2> QED
    BY <1>1, <1>2, <1>3, <2>2, <2>3, InvAgain DEF KeepsPromise, Promised!Next, Outcomes
<1> QED
  BY <1>2, <1>4, <1>5

LEMMA DropAllKeeps == ASSUME SInv, DropAll PROVE SInv' /\ KeepsPromise
<1>1. phase = "empty" /\ UNCHANGED <<faults, failure>>
  BY DEF DropAll
<1>2. PICK came \in BOOLEAN : /\ Keeps(Candidate, came)
                              /\ IF came THEN Enter(<<>>, 1) ELSE Cut(kept, 2)
  BY DEF DropAll
<1>3. /\ Promised!Reduce \/ UNCHANGED <<kept, outcome>>
      /\ Failing' /\ kept' \in Seq(Fault)
  BY <1>1, <1>2, CandidateKept
<1>4. Placed(kept')
  <2>1. CASE came
    <3>1. kept' = <<>>
      BY <1>1, <1>2, <2>1 DEF Keeps, Candidate, Searching
    <3>2. Enter(kept', 1)
      BY <1>2, <2>1, <3>1
    <3> QED
      BY <1>3, <3>2, EnterPlaces
  <2>2. CASE ~ came
    <3>1. kept' = kept
      BY <1>2, <2>2 DEF Keeps
    <3> QED
      BY <1>2, <1>3, <2>2, <3>1, CutPlaces
  <2> QED
    BY <2>1, <2>2
<1> QED
  BY <1>1, <1>3, <1>4, InvAgain DEF SInv, KeepsPromise, Promised!Next, Outcomes

LEMMA DropPieceKeeps == ASSUME SInv, DropPiece PROVE SInv' /\ KeepsPromise
<1> DEFINE pieces == Len(Spans(Len(kept), chunks))
           Onward == piece' = piece + 1 /\ UNCHANGED <<phase, before, chunks, search, bounds>>
<1>1. phase = "drop" /\ UNCHANGED <<faults, failure>> /\ Cutting /\ kept \in Seq(Fault)
  BY DEF DropPiece, SInv
<1>2. PICK came \in BOOLEAN :
         /\ Keeps(Candidate, came)
         /\ CASE came -> Cut(kept', Max({chunks - 1, 2}))
              [] ~ came /\ piece < pieces -> Onward
              [] ~ came /\ piece = pieces /\ Finest -> Enter(kept, 1)
              [] ~ came /\ piece = pieces /\ ~ Finest -> Cut(kept, 2 * chunks)
  BY DEF DropPiece
<1> HIDE DEF Onward
<1>3. /\ Promised!Reduce \/ UNCHANGED <<kept, outcome>>
      /\ Failing' /\ kept' \in Seq(Fault)
  BY <1>1, <1>2, CandidateKept
<1>4. pieces \in Nat /\ piece \in 1 .. pieces /\ chunks \in Nat \ {0}
  BY <1>1, SpansFacts DEF Cutting
<1>5. ~ came => kept' = kept
  BY <1>2 DEF Keeps
<1>6. Placed(kept')
  <2>1. CASE came
    <3>1. Cut(kept', Max({chunks - 1, 2}))
      BY <1>2, <2>1
    <3>2. Max({chunks - 1, 2}) \in Nat \ {0}
      BY <1>4, GreatestOfTwo
    <3> QED
      BY <1>3, <3>1, <3>2, CutPlaces
  <2>2. CASE ~ came /\ piece < pieces
    <3>a. ~ (piece = pieces)
      BY <1>4, <2>2
    <3>1. Onward
      BY <1>2, <2>2, <3>a, Zenon
    <3>2. piece' = piece + 1 /\ UNCHANGED <<phase, chunks>>
      BY <3>1 DEF Onward
    <3> QED
      BY <1>1, <1>4, <1>5, <2>2, <3>2 DEF Placed, Cutting
  <2>3. CASE ~ came /\ piece = pieces /\ Finest
    <3>1. Enter(kept, 1)
      BY <1>2, <1>4, <2>3
    <3> QED
      BY <1>1, <1>5, <2>3, <3>1, EnterPlaces
  <2>4. CASE ~ came /\ piece = pieces /\ ~ Finest
    <3>1. Cut(kept, 2 * chunks)
      BY <1>2, <1>4, <2>4
    <3> QED
      BY <1>1, <1>4, <1>5, <2>4, <3>1, CutPlaces
  <2> QED
    BY <1>4, <2>1, <2>2, <2>3, <2>4
<1> QED
  BY <1>1, <1>3, <1>6, InvAgain DEF SInv, KeepsPromise, Promised!Next, Outcomes

LEMMA SearchKeeps == ASSUME SInv, SearchDown \/ SearchUp PROVE SInv' /\ KeepsPromise
<1>1. Searching /\ UNCHANGED <<faults, failure, phase, search>>
  BY DEF SearchDown, SearchUp
<1>2. PICK came \in BOOLEAN :
         /\ Keeps(Candidate, came)
         /\ \/ bounds' = IF came THEN UpTo(LowerMid) ELSE From(LowerMid + 1)
            \/ bounds' = IF came THEN From(UpperMid) ELSE UpTo(UpperMid - 1)
  BY DEF SearchDown, SearchUp
<1>3. /\ Promised!Reduce \/ UNCHANGED <<kept, outcome>>
      /\ Failing' /\ kept' \in Seq(Fault)
  BY <1>1, <1>2, CandidateKept
<1>4. low \in Nat /\ high \in Nat /\ low < high /\ search \in Nat \ {0}
  BY <1>1 DEF Searching, SInv, low, high
<1>5. LowerMid \in Nat /\ UpperMid \in Nat \ {0}
  BY <1>4 DEF LowerMid, UpperMid, CeilDiv
<1>6. bounds' \in [low : Nat, high : Nat]
  BY <1>2, <1>4, <1>5 DEF UpTo, From
<1>7. Placed(kept')
  BY <1>1, <1>4, <1>6 DEF Placed, Searching
<1> QED
  BY <1>1, <1>3, <1>7, InvAgain DEF SInv, KeepsPromise, Promised!Next, Outcomes

LEMMA MoveKeeps == ASSUME SInv, NextBisection \/ EndPass \/ Stop PROVE SInv' /\ KeepsPromise
<1>1. UNCHANGED <<faults, failure, kept, outcome>>
  BY DEF NextBisection, EndPass, Stop
<1>2. CASE phase' \in {"reduced", "stopped"}
  BY <1>1, <1>2 DEF SInv, KeepsPromise, Outcomes
<1>3. CASE NextBisection \/ (EndPass /\ Begin(kept))
  <2>1. Failing'
    BY <1>1, <1>3 DEF NextBisection, EndPass, SInv, Failing, Outcomes, Reproduces
  <2>2. kept \in Seq(Fault) /\ (NextBisection => search + 1 \in Nat \ {0})
    BY DEF NextBisection, SInv
  <2>3. Placed(kept')
    BY <1>1, <1>3, <2>2, EnterPlaces, BeginPlaces DEF NextBisection
  <2> QED
    BY <1>1, <2>1, <2>3, InvAgain DEF SInv, KeepsPromise, Outcomes
<1> QED
  BY <1>2, <1>3 DEF EndPass, Stop

LEMMA ReductionStep == SInv /\ [ShrinkNext]_shrinkVars => SInv' /\ KeepsPromise
<1>1. ASSUME SInv, UNCHANGED shrinkVars PROVE SInv' /\ KeepsPromise
  BY <1>1 DEF shrinkVars, control, SInv, KeepsPromise, Failing, Cutting, Outcomes, Reproduces
<1> QED
  BY <1>1, FirstRunKeeps, DropAllKeeps, DropPieceKeeps, SearchKeeps, MoveKeeps DEF ShrinkNext

LEMMA ReductionBegins == ShrinkInit => SInv
BY ShrinkAssumption DEF ShrinkInit, SInv, Outcomes

--------------------------------------------------------------------------------
(* Where a search stands, and what has been run in vain. *)

\* What a bisection has narrowed its window or its odds to so far: one bound is where the
\* entry kept stands, and the other is inside it.
Aim(s, n, lo, hi) ==
    LET b == Bisection(s, n) fault == s[b.entry]
    IN  /\ lo <= hi
        /\ b.of = "end" => fault.during.start <= lo /\ hi = fault.during.end
        /\ b.of = "start" => fault.during.start = lo /\ hi <= fault.during.end
        /\ b.of = "odds" => IF fault.kind = "loss" THEN hi = fault.odds.numerator ELSE lo = hi

\* What a bisection that found nothing has run at its bounds.
Halfway(run, s, n, lo, hi) ==
    LET b == Bisection(s, n) fault == s[b.entry]
    IN  CASE b.of = "end" ->
               lo > fault.during.start =>
                  Narrowed(s, b.entry, fault.during.start, lo - 1) \in run
          [] b.of = "start" ->
               hi < fault.during.end =>
                  Narrowed(s, b.entry, hi + 1, fault.during.end) \in run
          [] b.of = "odds" ->
               fault.kind = "loss" /\ lo > 0 => Lowered(s, b.entry, lo - 1) \in run

\* The candidate a bisection that found nothing has come to in the end, if there is one.
ByOne(s, n) ==
    LET b == Bisection(s, n) w == s[b.entry].during m == s[b.entry].odds.numerator
    IN  CASE b.of = "end" ->
               IF w.start < w.end THEN {Narrowed(s, b.entry, w.start, w.end - 1)} ELSE {}
          [] b.of = "start" ->
               IF w.start < w.end THEN {Narrowed(s, b.entry, w.start + 1, w.end)} ELSE {}
          [] b.of = "odds" ->
               IF s[b.entry].kind = "loss" /\ m > 0 THEN {Lowered(s, b.entry, m - 1)} ELSE {}

\* The first entries have been left out one by one, and the first bisections made, in vain.
LeftOut(run, s, n) == \A i \in 1 .. n : Without(s, <<i, i>>) \in run

Bisected(run, s, n) == \A m \in 1 .. LastBisection(s) : m < n => ByOne(s, m) \subseteq run

\* A pass that has changed nothing has run in vain all it went through.
InVain ==
    /\ phase = "drop" /\ Finest => LeftOut(refused, kept, piece - 1)
    /\ phase = "search" =>
          /\ LeftOut(refused, kept, Len(kept)) /\ Bisected(refused, kept, search)
          /\ search <= LastBisection(kept) => Halfway(refused, kept, search, low, high)

\* A pass only goes down from where it began, and looks where something can be given up.
Course ==
    /\ before \in Seq(Fault) /\ (kept = before \/ Smaller(kept, before))
    /\ phase = "run" => kept = before
    /\ phase = "empty" => kept # <<>>
    /\ phase = "drop" => chunks <= Len(kept)
    /\ phase = "search" /\ search <= LastBisection(kept) => Aim(kept, search, low, high)
    /\ kept = before => InVain
    /\ phase = "reduced" => JustSmaller(kept) \subseteq refused

TInv == SInv /\ Course

\* The numbers a search compares.
LEMMA BoundsAre ==
    ASSUME SInv, Searching
    PROVE  /\ search \in 1 .. LastBisection(kept) /\ phase = "search"
           /\ low \in Nat /\ high \in Nat /\ low < high
           /\ LowerMid \in Nat /\ low <= LowerMid /\ LowerMid < high
           /\ UpperMid \in Nat /\ low < UpperMid /\ UpperMid <= high
<1>1. /\ search \in 1 .. LastBisection(kept) /\ phase = "search"
      /\ low \in Nat /\ high \in Nat /\ low < high
  BY DEF Searching, SInv, LastBisection, low, high
<1>2. high - low \in Nat /\ high - low > 0
  BY <1>1
<1>3. \A d \in Nat : d > 0 => /\ d \div 2 \in Nat /\ d \div 2 < d
                              /\ CeilDiv(d, 2) \in Nat /\ 0 < CeilDiv(d, 2) /\ CeilDiv(d, 2) <= d
  BY DEF CeilDiv
<1>4. /\ (high - low) \div 2 \in Nat /\ (high - low) \div 2 < high - low
      /\ CeilDiv(high - low, 2) \in Nat /\ 0 < CeilDiv(high - low, 2)
      /\ CeilDiv(high - low, 2) <= high - low
  BY <1>2, <1>3
<1> QED
  BY <1>1, <1>4 DEF LowerMid, UpperMid

\* A window narrowed to what it holds is narrowed to just that.
LEMMA NarrowedInside ==
    ASSUME NEW w \in Window, NEW start \in Nat, NEW end \in Nat,
           w.start <= start, start <= end, end <= w.end
    PROVE  NarrowedTo(w, start, end) = [start |-> start, end |-> end]
<1>1. w.start \in Nat /\ w.end \in Nat
  BY MaxTimeAssumption DEF Window, Instant
<1>2. Clamp(start, w.start, w.end) = start /\ Clamp(end, start, w.end) = end
  BY <1>1 DEF Clamp
<1> QED
  BY <1>2 DEF NarrowedTo

\* What a bisection offers, and how what it is at comes out if that is kept.
LEMMA Offered ==
    ASSUME SInv, Searching, Aim(kept, search, low, high),
           NEW b, b = Bisection(kept, search), NEW fault, fault = kept[b.entry]
    PROVE  /\ b.entry \in DOMAIN kept /\ b.of \in {"end", "start", "odds"}
           /\ fault \in Fault
           /\ Candidate \in Seq(Fault) /\ Len(Candidate) = Len(kept)
           /\ \A i \in DOMAIN kept \ {b.entry} : Candidate[i] = kept[i]
           /\ Candidate[b.entry].kind = fault.kind
           /\ b.of = "end" =>
                 /\ Candidate = Narrowed(kept, b.entry, fault.during.start, LowerMid)
                 /\ Candidate[b.entry].during = [start |-> fault.during.start, end |-> LowerMid]
           /\ b.of = "start" =>
                 /\ Candidate = Narrowed(kept, b.entry, UpperMid, fault.during.end)
                 /\ Candidate[b.entry].during = [start |-> UpperMid, end |-> fault.during.end]
           /\ b.of = "odds" =>
                 /\ fault.kind = "loss" /\ Candidate = Lowered(kept, b.entry, LowerMid)
                 /\ Candidate[b.entry].during = fault.during
                 /\ Candidate[b.entry].odds.numerator = LowerMid
<1>1. kept \in Seq(Fault) /\ search \in 1 .. LastBisection(kept) /\ phase = "search"
  BY BoundsAre DEF SInv
<1>2. b.entry \in DOMAIN kept /\ b.of \in {"end", "start", "odds"}
  BY <1>1, BisectionFacts
<1>3. fault \in Fault
  BY <1>1, <1>2
<1>4. /\ fault.during \in Window /\ fault.during.start \in Nat /\ fault.during.end \in Nat
      /\ fault.odds.numerator \in Nat /\ fault.odds \in Odds
  BY <1>3, FaultFacts DEF Fault
<1>5. /\ low \in Nat /\ high \in Nat /\ low < high
      /\ LowerMid \in Nat /\ low <= LowerMid /\ LowerMid < high
      /\ UpperMid \in Nat /\ low < UpperMid /\ UpperMid <= high
  BY BoundsAre
<1>6. CASE b.of = "end"
  <2>1. fault.during.start <= low /\ high = fault.during.end
    BY <1>6 DEF Aim
  <2>2. Candidate = Narrowed(kept, b.entry, fault.during.start, LowerMid)
    BY <1>1, <1>6 DEF Candidate
  <2>3. NarrowedTo(fault.during, fault.during.start, LowerMid)
           = [start |-> fault.during.start, end |-> LowerMid]
    BY <1>4, <1>5, <2>1, NarrowedInside
  <2> QED
    BY <1>1, <1>2, <1>3, <1>4, <1>5, <1>6, <2>2, <2>3, NarrowedFacts
<1>7. CASE b.of = "start"
  <2>1. fault.during.start = low /\ high <= fault.during.end
    BY <1>7 DEF Aim
  <2>2. Candidate = Narrowed(kept, b.entry, UpperMid, fault.during.end)
    BY <1>1, <1>7 DEF Candidate
  <2>3. NarrowedTo(fault.during, UpperMid, fault.during.end)
           = [start |-> UpperMid, end |-> fault.during.end]
    BY <1>4, <1>5, <2>1, NarrowedInside
  <2> QED
    BY <1>1, <1>2, <1>3, <1>4, <1>5, <1>7, <2>2, <2>3, NarrowedFacts
<1>8. CASE b.of = "odds"
  <2>1. fault.kind = "loss" /\ high = fault.odds.numerator
    BY <1>5, <1>8 DEF Aim
  <2>2. Candidate = Lowered(kept, b.entry, LowerMid)
    BY <1>1, <1>8 DEF Candidate
  <2>3. LoweredTo(fault.odds, LowerMid).numerator = LowerMid
    BY <1>4, <1>5, <2>1 DEF LoweredTo, Odds
  <2> QED
    BY <1>1, <1>2, <1>3, <1>5, <1>8, <2>1, <2>2, <2>3, LoweredFacts
<1> QED
  BY <1>2, <1>6, <1>7, <1>8

\* Whatever is offered is smaller.
LEMMA CandidateIsSmaller ==
    ASSUME TInv, phase \in {"empty", "drop"} \/ Searching
    PROVE  Smaller(Candidate, kept)
<1> USE DEF TInv
<1>0. kept \in Seq(Fault) /\ Len(kept) \in Nat
  BY DEF SInv
<1>1. CASE phase = "empty"
  <2>1. Candidate = <<>> /\ kept # <<>>
    BY <1>1 DEF Candidate, Searching, Course, InVain
  <2> QED
    BY <1>0, <2>1 DEF Smaller
<1>2. CASE phase = "drop"
  <2>1. Candidate = Without(kept, Spans(Len(kept), chunks)[piece])
    BY <1>2 DEF Candidate, Searching
  <2>2. Cutting /\ Len(kept) \in Nat \ {0}
    BY <1>0, <1>2 DEF SInv, Cutting
  <2>3. PICK first \in 1 .. Len(kept) : \E last \in first .. Len(kept) :
           Spans(Len(kept), chunks)[piece] = <<first, last>>
    BY <2>2, SpansFacts DEF Cutting
  <2>4. PICK last \in first .. Len(kept) : Spans(Len(kept), chunks)[piece] = <<first, last>>
    BY <2>3
  <2> QED
    BY <1>0, <2>1, <2>4, WithoutFacts DEF Smaller
<1>3. CASE Searching
  <2> DEFINE b == Bisection(kept, search)
             fault == kept[b.entry]
  <2>1. Aim(kept, search, low, high)
    BY <1>3 DEF Course, Searching
  <2>2. /\ low \in Nat /\ high \in Nat /\ low < high
        /\ LowerMid \in Nat /\ low <= LowerMid /\ LowerMid < high
        /\ UpperMid \in Nat /\ low < UpperMid /\ UpperMid <= high
    BY <1>3, BoundsAre
  <2>3. /\ b.entry \in DOMAIN kept /\ b.of \in {"end", "start", "odds"} /\ fault \in Fault
        /\ Candidate \in Seq(Fault) /\ Len(Candidate) = Len(kept)
        /\ \A i \in DOMAIN kept \ {b.entry} : Candidate[i] = kept[i]
    BY <1>3, <2>1, Offered
  <2>4. fault.during.start \in Nat /\ fault.during.end \in Nat
    BY <2>3, FaultFacts
  <2>5. CASE b.of = "end"
    <3>1. Candidate[b.entry].during = [start |-> fault.during.start, end |-> LowerMid]
      BY <1>3, <2>1, <2>5, Offered
    <3>2. high = fault.during.end
      BY <2>1, <2>5 DEF Aim
    <3>3. Candidate[b.entry].during.end - Candidate[b.entry].during.start
             < fault.during.end - fault.during.start
      BY <2>2, <2>4, <3>1, <3>2
    <3> QED
      BY <1>0, <2>3, <3>3, ShorterIsSmaller
  <2>6. CASE b.of = "start"
    <3>1. Candidate[b.entry].during = [start |-> UpperMid, end |-> fault.during.end]
      BY <1>3, <2>1, <2>6, Offered
    <3>2. low = fault.during.start
      BY <2>1, <2>6 DEF Aim
    <3>3. Candidate[b.entry].during.end - Candidate[b.entry].during.start
             < fault.during.end - fault.during.start
      BY <2>2, <2>4, <3>1, <3>2
    <3> QED
      BY <1>0, <2>3, <3>3, ShorterIsSmaller
  <2>7. CASE b.of = "odds"
    <3>1. /\ Candidate[b.entry].during = fault.during
          /\ Candidate[b.entry].odds.numerator = LowerMid /\ fault.kind = "loss"
      BY <1>3, <2>1, <2>7, Offered
    <3>2. high = fault.odds.numerator
      BY <2>1, <2>7, <3>1 DEF Aim
    <3> QED
      BY <1>0, <2>2, <2>3, <3>1, <3>2, RarerIsSmaller
  <2> QED
    BY <2>3, <2>5, <2>6, <2>7
<1> QED
  BY <1>1, <1>2, <1>3

--------------------------------------------------------------------------------
(* Every step keeps the course. *)

\* Which bisection is which: a window has one for its end and one for its start, and every
\* entry one for its odds.
LEMMA BisectionsOf ==
    ASSUME NEW s \in Seq(Fault), NEW i \in DOMAIN s
    PROVE  /\ \E m \in 1 .. LastBisection(s) : Bisection(s, m) = [of |-> "end", entry |-> i]
           /\ \E m \in 1 .. LastBisection(s) : Bisection(s, m) = [of |-> "start", entry |-> i]
           /\ \E m \in 1 .. LastBisection(s) : Bisection(s, m) = [of |-> "odds", entry |-> i]
<1>1. Len(s) \in Nat /\ i \in Nat /\ 1 <= i /\ i <= Len(s)
  OBVIOUS
<1>2. Bisection(s, 2 * i - 1) = [of |-> "end", entry |-> i]
  <2>1. (2 * i - 1) % 2 = 1 /\ CeilDiv(2 * i - 1, 2) = i
    BY <1>1 DEF CeilDiv
  <2>2. 2 * i - 1 <= 2 * Len(s)
    BY <1>1
  <2> QED
    BY <2>1, <2>2 DEF Bisection
<1>3. Bisection(s, 2 * i) = [of |-> "start", entry |-> i]
  <2>1. (2 * i) % 2 # 1 /\ CeilDiv(2 * i, 2) = i
    BY <1>1 DEF CeilDiv
  <2>2. 2 * i <= 2 * Len(s)
    BY <1>1
  <2> QED
    BY <2>1, <2>2 DEF Bisection
<1>4. Bisection(s, 2 * Len(s) + i) = [of |-> "odds", entry |-> i]
  BY <1>1 DEF Bisection
<1>5. /\ 2 * i - 1 \in 1 .. LastBisection(s) /\ 2 * i \in 1 .. LastBisection(s)
      /\ 2 * Len(s) + i \in 1 .. LastBisection(s)
  BY <1>1 DEF LastBisection
<1> QED
  BY <1>2, <1>3, <1>4, <1>5

\* Together they are all that is just smaller.
LEMMA EverythingJustSmaller ==
    ASSUME NEW s \in Seq(Fault), NEW run, LeftOut(run, s, Len(s)),
           \A m \in 1 .. LastBisection(s) : ByOne(s, m) \subseteq run
    PROVE  JustSmaller(s) \subseteq run
<1>1. \A i \in DOMAIN s : Without(s, <<i, i>>) \in run
  <2>1. DOMAIN s = 1 .. Len(s)
    OBVIOUS
  <2> QED
    BY <2>1 DEF LeftOut
<1>2. ASSUME NEW i \in DOMAIN s, NEW w, w = s[i].during, w.start < w.end
      PROVE  /\ Narrowed(s, i, w.start, w.end - 1) \in run
             /\ Narrowed(s, i, w.start + 1, w.end) \in run
  <2>1. PICK m \in 1 .. LastBisection(s) : Bisection(s, m) = [of |-> "end", entry |-> i]
    BY BisectionsOf
  <2>2. ByOne(s, m) = {Narrowed(s, i, w.start, w.end - 1)}
    BY <1>2, <2>1 DEF ByOne
  <2>3. PICK k \in 1 .. LastBisection(s) : Bisection(s, k) = [of |-> "start", entry |-> i]
    BY BisectionsOf
  <2>4. ByOne(s, k) = {Narrowed(s, i, w.start + 1, w.end)}
    BY <1>2, <2>3 DEF ByOne
  <2>5. ByOne(s, m) \subseteq run /\ ByOne(s, k) \subseteq run
    OBVIOUS
  <2> QED
    BY <2>2, <2>4, <2>5
<1>3. ASSUME NEW i \in DOMAIN s, s[i].kind = "loss", s[i].odds.numerator > 0
      PROVE  Lowered(s, i, s[i].odds.numerator - 1) \in run
  <2>1. PICK m \in 1 .. LastBisection(s) : Bisection(s, m) = [of |-> "odds", entry |-> i]
    BY BisectionsOf
  <2>2. ByOne(s, m) = {Lowered(s, i, s[i].odds.numerator - 1)}
    BY <1>3, <2>1 DEF ByOne
  <2> QED
    BY <2>2
<1>4. ASSUME NEW x \in JustSmaller(s) PROVE x \in run
  <2> DEFINE Given(i) ==
                LET w == s[i].during n == s[i].odds.numerator
                IN  (IF w.start < w.end
                     THEN {Narrowed(s, i, w.start, w.end - 1),
                           Narrowed(s, i, w.start + 1, w.end)} ELSE {})
                    \cup (IF s[i].kind = "loss" /\ n > 0 THEN {Lowered(s, i, n - 1)} ELSE {})
  <2>1. \/ \E i \in DOMAIN s : x = Without(s, <<i, i>>)
        \/ \E i \in DOMAIN s : x \in Given(i)
    BY DEF JustSmaller
  <2>2. ASSUME NEW i \in DOMAIN s, x \in Given(i) PROVE x \in run
    BY <1>2, <1>3, <2>2
  <2> HIDE DEF Given
  <2> QED
    BY <1>1, <2>1, <2>2
<1> QED
  BY <1>4

\* More that was run in vain takes nothing back.
LEMMA InVainStays ==
    ASSUME NEW run, NEW more, run \subseteq more, NEW s, NEW n
    PROVE  /\ LeftOut(run, s, n) => LeftOut(more, s, n)
           /\ Bisected(run, s, n) => Bisected(more, s, n)
BY DEF LeftOut, Bisected

\* A bisection begins where it has nothing to show.
LEMMA EnterStands ==
    ASSUME NEW s \in Seq(Fault), NEW n \in Nat \ {0}, Enter(s, n), kept' = s,
           before \in Seq(Fault), s = before \/ Smaller(s, before),
           s = before => LeftOut(refused', s, Len(s)) /\ Bisected(refused', s, n)
    PROVE  Course'
<1>1. phase' = "search" /\ search' = n /\ before' = before
  BY DEF Enter
<1>2. ASSUME n <= LastBisection(s)
      PROVE  /\ Aim(s, n, bounds'.low, bounds'.high)
             /\ Halfway(refused', s, n, bounds'.low, bounds'.high)
  <2> DEFINE b == Bisection(s, n)
             fault == s[b.entry]
  <2>1. n \in 1 .. LastBisection(s) /\ bounds' = Span(s, n)
    BY <1>2 DEF Enter, LastBisection
  <2>2. b.entry \in DOMAIN s /\ b.of \in {"end", "start", "odds"}
    BY <2>1, BisectionFacts
  <2>3. /\ fault.during.start \in Nat /\ fault.during.end \in Nat
        /\ fault.during.start <= fault.during.end /\ fault.odds.numerator \in Nat
    <3>1. fault \in Fault
      BY <2>2
    <3> QED
      BY <3>1, FaultFacts
  <2>4. CASE b.of # "odds"
    <3>1. bounds' = [low |-> fault.during.start, high |-> fault.during.end]
      BY <2>1, <2>4 DEF Span
    <3> HIDE DEF b, fault
    <3>2. bounds'.low = fault.during.start /\ bounds'.high = fault.during.end
      BY <3>1
    <3>3. /\ bounds'.low <= bounds'.high /\ fault.during.start <= bounds'.low
          /\ bounds'.high <= fault.during.end
          /\ ~ (bounds'.low > fault.during.start) /\ ~ (bounds'.high < fault.during.end)
      BY <2>3, <3>2
    <3>4. Aim(s, n, bounds'.low, bounds'.high)
      BY <2>4, <3>2, <3>3, Zenon DEF Aim, b, fault
    <3>5. b.of = "end" \/ b.of = "start"
      BY <2>2, <2>4
    <3>6. Halfway(refused', s, n, bounds'.low, bounds'.high)
      <4>1. CASE b.of = "end"
        BY <3>3, <4>1 DEF Halfway, b, fault
      <4>2. CASE b.of = "start"
        BY <3>3, <4>2 DEF Halfway, b, fault
      <4> QED
        BY <3>5, <4>1, <4>2
    <3> QED
      BY <3>4, <3>6
  <2>5. CASE b.of = "odds" /\ fault.kind = "loss"
    <3>1. bounds' = [low |-> 0, high |-> fault.odds.numerator]
      BY <2>1, <2>5 DEF Span
    <3> QED
      BY <2>3, <2>5, <3>1 DEF Aim, Halfway
  <2>6. CASE b.of = "odds" /\ fault.kind # "loss"
    <3>1. bounds' = Nowhere
      BY <2>1, <2>6 DEF Span
    <3> QED
      BY <2>6, <3>1 DEF Aim, Halfway, Nowhere
  <2> QED
    BY <2>4, <2>5, <2>6
<1> QED
  BY <1>1, <1>2 DEF Course, InVain, low, high

\* So does a round of removals.
LEMMA CutStands ==
    ASSUME NEW s \in Seq(Fault), NEW pieces \in Nat \ {0}, Cut(s, pieces), kept' = s,
           before \in Seq(Fault), s = before \/ Smaller(s, before),
           s = before /\ ~ (Len(s) > 1) => LeftOut(refused', s, Len(s))
    PROVE  Course'
<1>1. CASE Len(s) > 1
  <2>1. phase' = "drop" /\ chunks' = Min({pieces, Len(s)}) /\ piece' = 1 /\ before' = before
    BY <1>1 DEF Cut
  <2>2. chunks' <= Len(s)
    BY <2>1, LeastOfTwo
  <2>3. LeftOut(refused', s, piece' - 1)
    <3>1. 1 .. piece' - 1 = {}
      BY <2>1
    <3> QED
      BY <3>1 DEF LeftOut
  <2> QED
    BY <2>1, <2>2, <2>3 DEF Course, InVain
<1>2. CASE ~ (Len(s) > 1)
  <2>1. Enter(s, 1)
    BY <1>2 DEF Cut
  <2>2. Bisected(refused', s, 1)
    BY DEF Bisected, LastBisection
  <2> QED
    BY <1>2, <2>1, <2>2, EnterStands
<1> QED
  BY <1>1, <1>2

\* And a pass.
LEMMA BeginStands ==
    ASSUME NEW s \in Seq(Fault), Begin(s), kept' = s
    PROVE  Course'
<1>1. before' = s /\ phase' = (IF s = <<>> THEN "search" ELSE "empty") /\ search' = 1
  BY DEF Begin
<1>2. CASE s # <<>>
  BY <1>1, <1>2 DEF Course, InVain
<1>3. CASE s = <<>>
  <2>1. LastBisection(s) = 0 /\ Len(s) = 0
    BY <1>3 DEF LastBisection
  <2>2. LeftOut(refused', s, Len(s)) /\ Bisected(refused', s, 1)
    BY <2>1 DEF LeftOut, Bisected
  <2> QED
    BY <1>1, <1>3, <2>1, <2>2 DEF Course, InVain
<1> QED
  BY <1>2, <1>3

\* What comes of running a candidate: it is kept and the pass has changed something, or it
\* was run in vain.
LEMMA RunOut ==
    ASSUME TInv, phase \in {"empty", "drop"} \/ Searching, NEW came \in BOOLEAN,
           Keeps(Candidate, came)
    PROVE  /\ came => /\ kept' = Candidate /\ kept' \in Seq(Fault)
                      /\ Smaller(kept', before) /\ kept' # before
           /\ ~ came => kept' = kept /\ refused' = refused \cup {Candidate}
<1>1. kept \in Seq(Fault) /\ before \in Seq(Fault) /\ (kept = before \/ Smaller(kept, before))
  BY DEF TInv, SInv, Course
<1>2. Candidate \in Seq(Fault) /\ Smaller(Candidate, kept)
  BY CandidateFacts, CandidateIsSmaller DEF TInv
<1>3. Smaller(Candidate, before) /\ Candidate # before
  BY <1>1, <1>2, SmallerIsAnOrder
<1>4. /\ kept' = IF came THEN Candidate ELSE kept
      /\ refused' = IF came THEN {} ELSE refused \cup {Candidate}
  BY DEF Keeps
<1> QED
  BY <1>2, <1>3, <1>4

LEMMA FirstRunStands == ASSUME TInv, FirstRun PROVE Course'
<1>1. /\ UNCHANGED <<kept, refused>> /\ kept \in Seq(Fault) /\ kept = faults
      /\ before = kept
  BY DEF FirstRun, TInv, SInv, Course
<1>2. CASE phase' = "held up" /\ UNCHANGED before
  BY <1>1, <1>2 DEF Course, InVain
<1>3. CASE Begin(faults)
  BY <1>1, <1>3, BeginStands
<1> QED
  BY <1>2, <1>3 DEF FirstRun

LEMMA DropAllStands == ASSUME TInv, DropAll PROVE Course'
<1>1. phase = "empty"
  BY DEF DropAll
<1>2. PICK came \in BOOLEAN : /\ Keeps(Candidate, came)
                              /\ IF came THEN Enter(<<>>, 1) ELSE Cut(kept, 2)
  BY DEF DropAll
<1>3. kept \in Seq(Fault) /\ before \in Seq(Fault) /\ (kept = before \/ Smaller(kept, before))
  BY DEF TInv, SInv, Course
<1>4. Candidate = <<>>
  BY <1>1 DEF Candidate, Searching
<1>5. CASE came
  <2>1. kept' = <<>> /\ Smaller(<<>>, before) /\ <<>> # before /\ <<>> \in Seq(Fault)
    BY <1>1, <1>2, <1>4, <1>5, RunOut
  <2>2. Enter(<<>>, 1)
    BY <1>2, <1>5
  <2> DEFINE none == <<>>
  <2>3. none \in Seq(Fault) /\ Enter(none, 1) /\ kept' = none /\ none # before
        /\ Smaller(none, before)
    BY <2>1, <2>2
  <2> HIDE DEF none
  <2> QED
    BY <1>3, <2>3, EnterStands
<1>6. CASE ~ came
  <2>1. kept' = kept /\ <<>> \in refused'
    BY <1>1, <1>2, <1>4, <1>6, RunOut
  <2>2. ~ (Len(kept) > 1) => LeftOut(refused', kept, Len(kept))
    <3>1. SUFFICES ASSUME ~ (Len(kept) > 1), NEW i \in 1 .. Len(kept)
                   PROVE  Without(kept, <<i, i>>) = <<>>
      BY <2>1 DEF LeftOut
    <3>a. Len(kept) \in Nat
      BY <1>3
    <3>2. i = 1 /\ Len(kept) = 1
      BY <3>1, <3>a
    <3>3. SubSeq(kept, 1, 0) = <<>> /\ SubSeq(kept, 2, 1) = <<>>
      BY <1>3
    <3> QED
      BY <3>2, <3>3 DEF Without
  <2> QED
    BY <1>2, <1>3, <1>6, <2>1, <2>2, CutStands
<1> QED
  BY <1>5, <1>6

\* The finest pieces are the entries.
LEMMA FinestPieces ==
    ASSUME TInv, phase = "drop", Finest
    PROVE  /\ Len(Spans(Len(kept), chunks)) = Len(kept)
           /\ Candidate = Without(kept, <<piece, piece>>)
<1>1. Len(kept) \in Nat \ {0} /\ chunks = Len(kept) /\ piece \in 1 .. Len(Spans(Len(kept), chunks))
  BY DEF TInv, SInv, Course, Cutting, Finest
<1>2. CeilDiv(Len(kept), Len(kept)) = 1
  <2>1. \A n \in Nat \ {0} : (n + n - 1) \div n = 1
    OBVIOUS
  <2> QED
    BY <1>1, <2>1 DEF CeilDiv
<1>3. CeilDiv(Len(kept), 1) = Len(kept)
  BY <1>1 DEF CeilDiv
<1>4. Spans(Len(kept), chunks)
         = [n \in 1 .. Len(kept) |-> <<(n - 1) * 1 + 1, Min({n * 1, Len(kept)})>>]
  BY <1>1, <1>2, <1>3 DEF Spans
<1>5. Len(Spans(Len(kept), chunks)) = Len(kept)
  BY <1>1, <1>4
<1>6. piece \in 1 .. Len(kept) /\ (piece - 1) * 1 + 1 = piece /\ piece * 1 = piece
  BY <1>1, <1>5
<1>7. Min({piece, Len(kept)}) = piece
  BY <1>1, <1>6, LeastOfTwo
<1>8. Spans(Len(kept), chunks)[piece] = <<piece, piece>>
  BY <1>4, <1>6, <1>7
<1> QED
  BY <1>5, <1>8 DEF Candidate, Searching

LEMMA DropPieceStands == ASSUME TInv, DropPiece PROVE Course'
<1> DEFINE pieces == Len(Spans(Len(kept), chunks))
           Onwards == piece' = piece + 1 /\ UNCHANGED <<phase, before, chunks, search, bounds>>
<1>1. phase = "drop" /\ Cutting
  BY DEF DropPiece, TInv, SInv
<1>2. PICK came \in BOOLEAN :
         /\ Keeps(Candidate, came)
         /\ CASE came -> Cut(kept', Max({chunks - 1, 2}))
              [] ~ came /\ piece < pieces -> Onwards
              [] ~ came /\ piece = pieces /\ Finest -> Enter(kept, 1)
              [] ~ came /\ piece = pieces /\ ~ Finest -> Cut(kept, 2 * chunks)
  BY DEF DropPiece
<1> HIDE DEF Onwards
<1>3. kept \in Seq(Fault) /\ before \in Seq(Fault) /\ (kept = before \/ Smaller(kept, before))
  BY DEF TInv, SInv, Course
<1>4. pieces \in Nat /\ piece \in 1 .. pieces /\ chunks \in Nat \ {0} /\ Len(kept) > 1
  BY <1>1, <1>3, SpansFacts DEF Cutting
<1>5. ~ came => kept' = kept /\ refused' = refused \cup {Candidate}
  BY <1>1, <1>2, RunOut
<1>6. ASSUME ~ came, Finest, kept = before
      PROVE  LeftOut(refused', kept, piece) /\ pieces = Len(kept)
  <2>1. LeftOut(refused, kept, piece - 1)
    BY <1>1, <1>6 DEF TInv, Course, InVain
  <2>2. Without(kept, <<piece, piece>>) \in refused' /\ pieces = Len(kept)
    BY <1>1, <1>5, <1>6, FinestPieces
  <2>3. \A i \in 1 .. piece : i = piece \/ i \in 1 .. piece - 1
    BY <1>4
  <2> QED
    BY <1>5, <1>6, <2>1, <2>2, <2>3 DEF LeftOut
<1>7. CASE came
  <2>1. Cut(kept', Max({chunks - 1, 2}))
    BY <1>2, <1>7
  <2>2. Max({chunks - 1, 2}) \in Nat \ {0}
    BY <1>4, GreatestOfTwo
  <2>3. kept' \in Seq(Fault) /\ Smaller(kept', before) /\ kept' # before
    BY <1>1, <1>2, <1>7, RunOut
  <2> QED
    BY <1>3, <2>1, <2>2, <2>3, CutStands
<1>8. CASE ~ came /\ piece < pieces
  <2>1. ~ (piece = pieces)
    BY <1>4, <1>8
  <2>2. Onwards
    BY <1>2, <1>8, <2>1, Zenon
  <2>3. piece' - 1 = piece /\ UNCHANGED <<phase, before, chunks, kept>>
    BY <1>4, <1>5, <1>8, <2>2 DEF Onwards
  <2>4. kept' = before' => InVain'
    BY <1>1, <1>6, <1>8, <2>3 DEF InVain, Finest
  <2> QED
    BY <1>1, <2>3, <2>4 DEF TInv, Course
<1>9. CASE ~ came /\ piece = pieces /\ Finest
  <2>1. Enter(kept, 1)
    BY <1>2, <1>4, <1>9
  <2>2. Bisected(refused', kept, 1)
    BY DEF Bisected, LastBisection
  <2> QED
    BY <1>3, <1>5, <1>6, <1>9, <2>1, <2>2, EnterStands
<1>10. CASE ~ came /\ piece = pieces /\ ~ Finest
  <2>1. Cut(kept, 2 * chunks) /\ 2 * chunks \in Nat \ {0}
    BY <1>2, <1>4, <1>10
  <2> QED
    BY <1>3, <1>4, <1>5, <1>10, <2>1, CutStands
<1> QED
  BY <1>4, <1>7, <1>8, <1>9, <1>10

\* The bisection an entry is at is the same in any list of as many.
LEMMA SameBisection ==
    ASSUME NEW s, NEW t, Len(s) = Len(t), NEW n
    PROVE  Bisection(s, n) = Bisection(t, n) /\ LastBisection(s) = LastBisection(t)
BY DEF Bisection, LastBisection

LEMMA SearchStands == ASSUME TInv, SearchDown \/ SearchUp PROVE Course'
<1> DEFINE b == Bisection(kept, search)
           fault == kept[b.entry]
<1>1. Searching /\ phase = "search" /\ UNCHANGED <<phase, search, before>>
  BY DEF SearchDown, SearchUp, Searching
<1>2. PICK came \in BOOLEAN :
         /\ Keeps(Candidate, came)
         /\ \/ /\ b.of \in {"end", "odds"}
               /\ bounds' = IF came THEN UpTo(LowerMid) ELSE From(LowerMid + 1)
            \/ /\ b.of = "start"
               /\ bounds' = IF came THEN From(UpperMid) ELSE UpTo(UpperMid - 1)
  BY DEF SearchDown, SearchUp
<1>3. /\ kept \in Seq(Fault) /\ before \in Seq(Fault) /\ (kept = before \/ Smaller(kept, before))
      /\ Aim(kept, search, low, high) /\ search <= LastBisection(kept)
  BY <1>1 DEF TInv, SInv, Course, Searching
<1>4. /\ low \in Nat /\ high \in Nat /\ low < high
      /\ LowerMid \in Nat /\ low <= LowerMid /\ LowerMid < high
      /\ UpperMid \in Nat /\ low < UpperMid /\ UpperMid <= high
  BY <1>1, BoundsAre DEF TInv
<1>5. /\ Candidate \in Seq(Fault) /\ Len(Candidate) = Len(kept)
      /\ b.of \in {"end", "start", "odds"} /\ fault \in Fault
      /\ Candidate[b.entry].kind = fault.kind
  BY <1>1, <1>3, Offered DEF TInv
<1>6. fault.during.start \in Nat /\ fault.during.end \in Nat /\ fault.odds.numerator \in Nat
  BY <1>5, FaultFacts
<1>7. CASE came
  <2>1. kept' = Candidate /\ Smaller(kept', before) /\ kept' # before
    BY <1>1, <1>2, <1>7, RunOut
  <2>2. Bisection(kept', search) = b /\ LastBisection(kept') = LastBisection(kept)
    BY <1>5, <2>1, SameBisection
  <2>3. Aim(kept', search, bounds'.low, bounds'.high)
    <3>1. CASE b.of = "end"
      <4>1. bounds' = [low |-> low, high |-> LowerMid]
        BY <1>2, <1>7, <3>1 DEF UpTo
      <4>2. kept'[b.entry].during = [start |-> fault.during.start, end |-> LowerMid]
        BY <1>1, <1>3, <2>1, <3>1, Offered DEF TInv
      <4>3. fault.during.start <= low
        BY <1>3, <3>1 DEF Aim
      <4> HIDE DEF b, fault
      <4> QED
        BY <1>4, <2>2, <3>1, <4>1, <4>2, <4>3 DEF Aim
    <3>2. CASE b.of = "start"
      <4>1. bounds' = [low |-> UpperMid, high |-> high]
        BY <1>2, <1>7, <3>2 DEF From
      <4>2. kept'[b.entry].during = [start |-> UpperMid, end |-> fault.during.end]
        BY <1>1, <1>3, <2>1, <3>2, Offered DEF TInv
      <4>3. high <= fault.during.end
        BY <1>3, <3>2 DEF Aim
      <4> HIDE DEF b, fault
      <4> QED
        BY <1>4, <2>2, <3>2, <4>1, <4>2, <4>3 DEF Aim
    <3>3. CASE b.of = "odds"
      <4>1. bounds' = [low |-> low, high |-> LowerMid]
        BY <1>2, <1>7, <3>3 DEF UpTo
      <4>2. /\ kept'[b.entry].odds.numerator = LowerMid
            /\ kept'[b.entry].kind = "loss"
        BY <1>1, <1>3, <1>5, <2>1, <3>3, Offered DEF TInv
      <4> HIDE DEF b, fault
      <4> QED
        BY <1>4, <2>2, <3>3, <4>1, <4>2 DEF Aim
    <3> QED
      BY <1>5, <3>1, <3>2, <3>3
  <2> HIDE DEF b, fault
  <2> QED
    BY <1>1, <1>3, <2>1, <2>3 DEF Course, low, high
<1>8. CASE ~ came
  <2>1. kept' = kept /\ refused' = refused \cup {Candidate}
    BY <1>1, <1>2, <1>8, RunOut
  <2>2. /\ Aim(kept, search, bounds'.low, bounds'.high)
        /\ Halfway(refused', kept, search, bounds'.low, bounds'.high)
    <3>1. CASE b.of = "end"
      <4>1. bounds' = [low |-> LowerMid + 1, high |-> high]
        BY <1>2, <1>8, <3>1 DEF From
      <4>2. Candidate = Narrowed(kept, b.entry, fault.during.start, LowerMid)
        BY <1>1, <1>3, <3>1, Offered DEF TInv
      <4>3. fault.during.start <= low /\ high = fault.during.end
        BY <1>3, <3>1 DEF Aim
      <4>4. /\ bounds'.low - 1 = LowerMid /\ bounds'.low <= high /\ bounds'.high = high
            /\ fault.during.start <= bounds'.low
        BY <1>4, <1>6, <4>1, <4>3
      <4>5. Aim(kept, search, bounds'.low, bounds'.high)
        BY <3>1, <4>3, <4>4 DEF Aim
      <4>6. Narrowed(kept, b.entry, fault.during.start, bounds'.low - 1) \in refused'
        BY <2>1, <4>2, <4>4
      <4> QED
        BY <3>1, <4>5, <4>6 DEF Halfway
    <3>2. CASE b.of = "start"
      <4>1. bounds' = [low |-> low, high |-> UpperMid - 1]
        BY <1>2, <1>8, <3>2 DEF UpTo
      <4>2. Candidate = Narrowed(kept, b.entry, UpperMid, fault.during.end)
        BY <1>1, <1>3, <3>2, Offered DEF TInv
      <4>3. fault.during.start = low /\ high <= fault.during.end
        BY <1>3, <3>2 DEF Aim
      <4>4. /\ bounds'.high + 1 = UpperMid /\ bounds'.low <= bounds'.high /\ bounds'.low = low
            /\ bounds'.high <= fault.during.end
        BY <1>4, <1>6, <4>1, <4>3
      <4>5. Aim(kept, search, bounds'.low, bounds'.high)
        BY <3>2, <4>3, <4>4 DEF Aim
      <4>6. Narrowed(kept, b.entry, bounds'.high + 1, fault.during.end) \in refused'
        BY <2>1, <4>2, <4>4
      <4> QED
        BY <3>2, <4>5, <4>6 DEF Halfway
    <3>3. CASE b.of = "odds"
      <4>1. bounds' = [low |-> LowerMid + 1, high |-> high]
        BY <1>2, <1>8, <3>3 DEF From
      <4>2. Candidate = Lowered(kept, b.entry, LowerMid) /\ fault.kind = "loss"
        BY <1>1, <1>3, <3>3, Offered DEF TInv
      <4>3. high = fault.odds.numerator
        BY <1>3, <3>3, <4>2 DEF Aim
      <4>4. bounds'.low - 1 = LowerMid /\ bounds'.low <= high /\ bounds'.high = high
        BY <1>4, <4>1
      <4>5. Aim(kept, search, bounds'.low, bounds'.high)
        BY <3>3, <4>2, <4>3, <4>4 DEF Aim
      <4>6. Lowered(kept, b.entry, bounds'.low - 1) \in refused'
        BY <2>1, <4>2, <4>4
      <4> QED
        BY <3>3, <4>5, <4>6 DEF Halfway
    <3> QED
      BY <1>5, <3>1, <3>2, <3>3
  <2>3. kept = before => LeftOut(refused', kept, Len(kept)) /\ Bisected(refused', kept, search)
    <3>1. refused \subseteq refused'
      BY <2>1
    <3> QED
      BY <1>1, <3>1, InVainStays DEF TInv, Course, InVain
  <2> HIDE DEF b, fault
  <2> QED
    BY <1>1, <1>3, <2>1, <2>2, <2>3 DEF Course, InVain, low, high
<1> QED
  BY <1>7, <1>8

LEMMA NextBisectionStands == ASSUME TInv, NextBisection PROVE Course'
<1> DEFINE b == Bisection(kept, search)
           fault == kept[b.entry]
<1>1. /\ phase = "search" /\ search <= LastBisection(kept) /\ low >= high
      /\ Enter(kept, search + 1) /\ UNCHANGED <<kept, refused>>
  BY DEF NextBisection
<1>2. /\ kept \in Seq(Fault) /\ before \in Seq(Fault) /\ (kept = before \/ Smaller(kept, before))
      /\ search \in Nat \ {0} /\ low \in Nat /\ high \in Nat /\ Aim(kept, search, low, high)
  BY <1>1 DEF TInv, SInv, Course, low, high
<1>3. search \in 1 .. LastBisection(kept) /\ search + 1 \in Nat \ {0}
  BY <1>1, <1>2 DEF LastBisection
<1>4. b.of \in {"end", "start", "odds"} /\ fault \in Fault
  BY <1>2, <1>3, BisectionFacts
<1>5. fault.during.start \in Nat /\ fault.during.end \in Nat /\ fault.odds.numerator \in Nat
  BY <1>4, FaultFacts
<1>6. low = high
  BY <1>1, <1>2 DEF Aim
<1>7. ASSUME Halfway(refused, kept, search, low, high) PROVE ByOne(kept, search) \subseteq refused
  <2>1. CASE b.of = "end"
    <3>1. low = fault.during.end /\ (low > fault.during.start =>
             Narrowed(kept, b.entry, fault.during.start, low - 1) \in refused)
      BY <1>2, <1>6, <1>7, <2>1 DEF Aim, Halfway
    <3>2. fault.during.start < fault.during.end =>
             Narrowed(kept, b.entry, fault.during.start, fault.during.end - 1) \in refused
      BY <1>5, <3>1
    <3> QED
      BY <2>1, <3>2 DEF ByOne
  <2>2. CASE b.of = "start"
    <3>1. high = fault.during.start /\ (high < fault.during.end =>
             Narrowed(kept, b.entry, high + 1, fault.during.end) \in refused)
      BY <1>2, <1>6, <1>7, <2>2 DEF Aim, Halfway
    <3> QED
      BY <2>2, <3>1 DEF ByOne
  <2>3. CASE b.of = "odds"
    <3>1. fault.kind = "loss" => low = fault.odds.numerator /\ (low > 0 =>
             Lowered(kept, b.entry, low - 1) \in refused)
      BY <1>2, <1>6, <1>7, <2>3 DEF Aim, Halfway
    <3> QED
      BY <2>3, <3>1 DEF ByOne
  <2> QED
    BY <1>4, <2>1, <2>2, <2>3
<1>8. ASSUME kept = before
      PROVE  LeftOut(refused', kept, Len(kept)) /\ Bisected(refused', kept, search + 1)
  <2>1. /\ LeftOut(refused, kept, Len(kept)) /\ Bisected(refused, kept, search)
        /\ Halfway(refused, kept, search, low, high)
    BY <1>1, <1>8 DEF TInv, Course, InVain
  <2>2. \A m \in 1 .. LastBisection(kept) : m < search + 1 => m < search \/ m = search
    BY <1>2 DEF LastBisection
  <2>3. Bisected(refused, kept, search + 1)
    BY <1>7, <2>1, <2>2 DEF Bisected
  <2> QED
    BY <1>1, <2>1, <2>3
<1> QED
  BY <1>1, <1>2, <1>3, <1>8, EnterStands

LEMMA EndPassStands == ASSUME TInv, EndPass PROVE Course'
<1>1. phase = "search" /\ search > LastBisection(kept) /\ UNCHANGED <<kept, refused>>
  BY DEF EndPass
<1>2. /\ kept \in Seq(Fault) /\ before \in Seq(Fault) /\ (kept = before \/ Smaller(kept, before))
      /\ search \in Nat
  BY <1>1 DEF TInv, SInv, Course
<1>3. CASE Settled /\ phase' = "reduced" /\ UNCHANGED before
  <2>1. LeftOut(refused, kept, Len(kept)) /\ Bisected(refused, kept, search)
    BY <1>1, <1>3 DEF TInv, Course, InVain, Settled
  <2>2. \A m \in 1 .. LastBisection(kept) : m < search
    BY <1>1, <1>2 DEF LastBisection
  <2>3. JustSmaller(kept) \subseteq refused
    BY <1>2, <2>1, <2>2, EverythingJustSmaller DEF Bisected
  <2>4. JustSmaller(kept)' = JustSmaller(kept)
    BY <1>1
  <2> QED
    BY <1>1, <1>2, <1>3, <2>3, <2>4 DEF Course, InVain
<1>4. CASE Begin(kept)
  BY <1>1, <1>2, <1>4, BeginStands
<1> QED
  BY <1>3, <1>4 DEF EndPass

LEMMA CourseKept == TInv /\ [ShrinkNext]_shrinkVars => TInv'
<1> SUFFICES ASSUME TInv, [ShrinkNext]_shrinkVars PROVE TInv'
  OBVIOUS
<1>1. SInv'
  BY ReductionStep DEF TInv
<1>2. ASSUME Stop PROVE Course'
  <2>1. /\ UNCHANGED <<before, kept>> /\ phase' = "stopped"
        /\ before \in Seq(Fault) /\ (kept = before \/ Smaller(kept, before))
    BY <1>2 DEF Stop, TInv, Course
  <2>2. InVain'
    BY <2>1 DEF InVain
  <2>3. before' \in Seq(Fault) /\ (kept' = before' \/ Smaller(kept', before'))
    BY <2>1
  <2> QED
    BY <2>1, <2>2, <2>3 DEF Course
<1>3. ASSUME UNCHANGED shrinkVars PROVE Course'
  <2>1. UNCHANGED <<before, kept, phase, chunks, piece, search, bounds, refused>>
    BY <1>3 DEF shrinkVars, control
  <2>2. low' = low /\ high' = high
    BY <2>1 DEF low, high
  <2>3. JustSmaller(kept)' = JustSmaller(kept) /\ Finest' = Finest
    BY <2>1 DEF Finest
  <2>4. /\ LastBisection(kept)' = LastBisection(kept)
        /\ (LeftOut(refused, kept, piece - 1))' = LeftOut(refused, kept, piece - 1)
    BY <2>1
  <2>5. (LeftOut(refused, kept, Len(kept)))' = LeftOut(refused, kept, Len(kept))
        /\ (Bisected(refused, kept, search))' = Bisected(refused, kept, search)
    BY <2>1
  <2>6. (Halfway(refused, kept, search, low, high))' = Halfway(refused, kept, search, low, high)
        /\ (Aim(kept, search, low, high))' = Aim(kept, search, low, high)
    BY <2>1, <2>2
  <2>7. InVain' = InVain
    BY <2>1, <2>3, <2>4, <2>5, <2>6 DEF InVain
  <2>8. Smaller(kept, before)' = Smaller(kept, before)
    BY <2>1
  <2>9. Course
    BY DEF TInv
  <2> QED
    BY <2>1, <2>3, <2>4, <2>6, <2>7, <2>8, <2>9 DEF Course
<1>4. Course'
  BY <1>2, <1>3, FirstRunStands, DropAllStands, DropPieceStands, SearchStands,
     NextBisectionStands, EndPassStands DEF ShrinkNext
<1> QED
  BY <1>1, <1>4 DEF TInv

LEMMA CourseBegins == ShrinkInit => TInv
BY ReductionBegins, ShrinkAssumption DEF ShrinkInit, TInv, Course, InVain

LEMMA CourseHolds == ShrinkSpec => []TInv
BY CourseBegins, CourseKept, PTL DEF ShrinkSpec

--------------------------------------------------------------------------------
(* Theorems. *)

\* Whatever is tried and however it goes, what is kept only ever becomes less, and was seen
\* to fail as the schedule handed in failed (`shrink`, `Reducing::keeps`).
THEOREM ReductionKeepsItsPromise == ShrinkSpec => Reduces
<1>1. ShrinkInit => Promised!Init
  BY DEF ShrinkInit, Promised!Init, Pass, Promised!Pass
<1>2. SInv /\ [ShrinkNext]_shrinkVars => [Promised!Next]_(Promised!vars)
  BY ReductionStep DEF KeepsPromise, Promised!vars
<1>3. SInv /\ [ShrinkNext]_shrinkVars => SInv'
  BY ReductionStep
<1> QED
  BY <1>1, <1>2, <1>3, ReductionBegins, PTL DEF ShrinkSpec, Reduces, Promised!Spec

\* Every candidate, whichever pass and search offers it, has fewer entries than what is kept,
\* or else a shorter total span, or else fewer occurrences (`shrink`: what it says its
\* termination rests on).
THEOREM CandidatesComeDown == ShrinkSpec => []EveryCandidateIsSmaller
<1>1. TInv => EveryCandidateIsSmaller
  BY CandidateIsSmaller DEF EveryCandidateIsSmaller
<1> QED
  BY <1>1, CourseHolds, PTL

\* What a reduction hands back when it comes to its end cannot be made less by one: every
\* schedule one entry, one instant or one occurrence short of it was run since it was found,
\* and did not fail that way (`shrink`).
THEOREM NoSmallerFailure == ShrinkSpec => []NothingSmallerFails
<1>1. TInv => NothingSmallerFails
  BY DEF TInv, Course, NothingSmallerFails
<1> QED
  BY <1>1, CourseHolds, PTL

================================================================================
