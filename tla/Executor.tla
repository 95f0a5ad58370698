------------------------------- MODULE Executor -------------------------------
(***************************************************************************)
(* The single-threaded poll loop of executor.rs over virtual time, with    *)
(* the waits a task can hold: Sleep (executor.rs), JoinHandle              *)
(* (executor.rs) and Timeout (clock.rs).                                   *)
(*                                                                         *)
(* Tasks are the most general client of the loop: while it is polled, a    *)
(* task may spawn others, create and await waits, look at a wait once and  *)
(* keep it, hand a wait to a task it spawns, drop a wait, or finish.  One  *)
(* poll of a task is a run of actions with `polling` set to it; it ends    *)
(* when the wait it awaits is pending or when the task finishes.           *)
(*                                                                         *)
(* Bounds, over the whole run: MaxTasks tasks, MaxSleeps sleeps created,   *)
(* durations from Durations.                                               *)
(***************************************************************************)
EXTENDS VirtualTime, FiniteSets, Sequences

CONSTANTS
    MaxTasks,   \* how many tasks a run may spawn
    Roots,      \* how many of them are spawned from outside, before the run
    MaxSleeps,  \* how many sleeps a run may create
    Durations,  \* how long a sleep may be
    NoTask, NoTime, NoEvent

ASSUME ExecutorAssumption ==
    /\ MaxTasks \in Nat /\ Roots \in 1 .. MaxTasks
    /\ MaxSleeps \in Nat /\ Durations \subseteq Nat
    /\ NoTask \notin Nat /\ NoTime \notin Nat
    /\ NoEvent \notin [at : Nat, seq : Nat, waker : Nat]

Task == 0 .. (MaxTasks - 1)

Event == [at : Instant, seq : Nat, waker : Task]

\* A task holds at most two sleeps: the one it awaits (a deadline of a timeout
\* included) and one it has looked at and kept.
Awaited(t) == <<t, "awaited">>
Kept(t) == <<t, "kept">>

Wait == {Awaited(t) : t \in Task} \cup {Kept(t) : t \in Task}

VARIABLES
    now,       \* Shared.clock
    queue,     \* Shared.queue: the pending timers; an event's waker is a task
    nextSeq,   \* EventQueue.next_seq
    spawned,   \* Shared.spawned: filed, not yet adopted by the loop
    nextId,    \* Shared.next_id
    tasks,     \* Executor.tasks: adopted and unfinished
    ready,     \* ReadyQueue
    polling,   \* the task inside `poll`, NoTask between two polls
    status,    \* what `run` returned, "running" until then
    await,     \* the kind of wait a task's `.await` stands at
    target,    \* and the task that wait joins
    deadline,  \* Sleep.deadline, NoTime where there is no sleep
    timer,     \* Sleep.registered: the event and waker armed, or NoEvent
    sleeps,    \* how many sleeps have been created (the bound)
    holder,    \* who holds a task's JoinHandle, NoTask when it was dropped
    waiting,   \* Join.waiting
    output,    \* the tasks whose Join.output has not been taken
    finished   \* the tasks whose Join.finished is set

loopVars  == <<now, tasks, spawned, polling, status>>
awaitVars == <<await, target>>
sleepVars == <<queue, nextSeq, deadline, timer, sleeps>>
joinVars  == <<holder, waiting, output, finished>>
vars == <<now, queue, nextSeq, spawned, nextId, tasks, ready, polling, status,
          await, target, deadline, timer, sleeps, holder, waiting, output, finished>>

Kinds == {"none", "sleep", "join", "timeout", "park"}

Roster(seq) == {seq[i] : i \in DOMAIN seq}

Known == 0 .. (nextId - 1)

TypeOK ==
    /\ now \in Instant
    /\ queue \subseteq Event
    /\ nextSeq \in Nat
    /\ spawned \in Seq(Task)
    /\ nextId \in 0 .. MaxTasks
    /\ tasks \subseteq Task
    /\ ready \subseteq Task
    /\ polling \in Task \cup {NoTask}
    /\ status \in {"running", "ok", "stalled", "clock_error"}
    /\ await \in [Task -> Kinds]
    /\ target \in [Task -> Task \cup {NoTask}]
    /\ deadline \in [Wait -> Instant \cup {NoTime}]
    /\ timer \in [Wait -> Event \cup {NoEvent}]
    /\ sleeps \in 0 .. MaxSleeps
    /\ holder \in [Task -> Task \cup {NoTask}]
    /\ waiting \in [Task -> Task \cup {NoTask}]
    /\ output \subseteq Task
    /\ finished \subseteq Task

Init ==
    /\ now = 0
    /\ queue = {}
    /\ nextSeq = 0
    /\ spawned = [i \in 1 .. Roots |-> i - 1]
    /\ nextId = Roots
    /\ tasks = {}
    /\ ready = 0 .. (Roots - 1)
    /\ polling = NoTask
    /\ status = "running"
    /\ await = [t \in Task |-> "none"]
    /\ target = [t \in Task |-> NoTask]
    /\ deadline = [w \in Wait |-> NoTime]
    /\ timer = [w \in Wait |-> NoEvent]
    /\ sleeps = 0
    /\ holder = [t \in Task |-> NoTask]
    /\ waiting = [t \in Task |-> NoTask]
    /\ output = {}
    /\ finished = {}

--------------------------------------------------------------------------------
(* The loop: `run`, `poll_ready` and `adopt_spawned`. *)

Between == status = "running" /\ polling = NoTask

Adopted == tasks \cup Roster(spawned)

\* `poll_ready` has found no ready task left.
Quiet == Between /\ ready = {}

\* Takes on what was spawned, then the lowest ready task; one that has finished
\* but was woken by a waker still alive is passed over.
Take ==
    /\ Between
    /\ \E lowest \in ready :
          /\ \A u \in ready : lowest <= u
          /\ ready' = ready \ {lowest}
          /\ polling' = IF lowest \in Adopted THEN lowest ELSE NoTask
    /\ tasks' = Adopted
    /\ spawned' = <<>>
    /\ UNCHANGED <<now, nextId, status, awaitVars, sleepVars, joinVars>>

\* No task is left: the run is over, at the instant the last one finished.
Return ==
    /\ Quiet
    /\ Adopted = {}
    /\ status' = "ok"
    /\ tasks' = Adopted
    /\ spawned' = <<>>
    /\ UNCHANGED <<now, nextId, ready, polling, awaitVars, sleepVars, joinVars>>

\* Tasks are left and no event is: nothing can make progress.
Stall ==
    /\ Quiet
    /\ Adopted # {}
    /\ queue = {}
    /\ status' = "stalled"
    /\ tasks' = Adopted
    /\ spawned' = <<>>
    /\ UNCHANGED <<now, nextId, ready, polling, awaitVars, sleepVars, joinVars>>

\* Pops the earliest event, moves the clock there and wakes its task;
\* `advance_to` refuses an instant already passed, and that ends the run.
Advance ==
    /\ Quiet
    /\ Adopted # {}
    /\ \E e \in queue :
          /\ IsEarliest(e, queue)
          /\ queue' = queue \ {e}
          /\ IF e.at < now
             THEN status' = "clock_error" /\ UNCHANGED <<now, ready>>
             ELSE now' = e.at /\ ready' = ready \cup {e.waker} /\ UNCHANGED status
    /\ tasks' = Adopted
    /\ spawned' = <<>>
    /\ UNCHANGED <<nextId, polling, awaitVars, nextSeq, deadline, timer, sleeps, joinVars>>

\* `run` has returned.
Returned == status # "running" /\ UNCHANGED vars

--------------------------------------------------------------------------------
(* Waits, as operations on the queue and on the joins. *)

Due(w) == deadline[w] <= now

\* A plausible slip: any timer at all counts, whichever task it would wake.
ArmedAtAll(w, t) == timer[w] # NoEvent

\* `will_wake`: the timer this sleep holds would wake task t.
Armed(w, t) == timer[w] # NoEvent /\ timer[w].waker = t

\* A plausible slip: a dropped sleep leaves its timer behind.
LeftArmed(ws) == queue

\* `Sleep::disarm` of each of these waits: its timer, if it is still pending,
\* leaves the queue.
Disarmed(ws) == queue \ {timer[w] : w \in ws}

\* Drops the sleeps of ws.
DropSleeps(ws) ==
    /\ queue' = Disarmed(ws)
    /\ deadline' = [w \in Wait |-> IF w \in ws THEN NoTime ELSE deadline[w]]
    /\ timer' = [w \in Wait |-> IF w \in ws THEN NoEvent ELSE timer[w]]
    /\ UNCHANGED <<nextSeq, sleeps>>

\* The pending branch of `Sleep::poll` by task t: a timer of its own is armed
\* unless the one held would wake t, and then that one is called off first.
ArmSleep(w, t) ==
    IF Armed(w, t)
    THEN UNCHANGED sleepVars
    ELSE LET e == [at |-> deadline[w], seq |-> nextSeq, waker |-> t]
         IN /\ queue' = Disarmed({w}) \cup {e}
            /\ nextSeq' = nextSeq + 1
            /\ timer' = [timer EXCEPT ![w] = e]
            /\ UNCHANGED <<deadline, sleeps>>

\* Creates a sleep of this duration, without polling it: `Clock::sleep`.
NewSleep(w, duration) ==
    /\ sleeps < MaxSleeps
    /\ sleeps' = sleeps + 1
    /\ deadline' = [deadline EXCEPT ![w] = SaturatingAdd(now, duration)]
    /\ timer' = [timer EXCEPT ![w] = NoEvent]

\* `JoinHandle::poll` finds the output: takes it, and the handle is used up.
TakeOutput(u) ==
    /\ output' = output \ {u}
    /\ holder' = [holder EXCEPT ![u] = NoTask]
    /\ waiting' = [waiting EXCEPT ![u] = NoTask]
    /\ UNCHANGED finished

\* `JoinHandle::poll` finds none: whoever polls now is the one to wake.
RegisterJoin(u, t) ==
    /\ waiting' = [waiting EXCEPT ![u] = t]
    /\ UNCHANGED <<holder, output, finished>>

\* Drops the handles of us, each taking back the waker it registered.
DropHandles(us) ==
    /\ holder' = [u \in Task |-> IF u \in us THEN NoTask ELSE holder[u]]
    /\ waiting' = [u \in Task |-> IF u \in us THEN NoTask ELSE waiting[u]]
    /\ UNCHANGED <<output, finished>>

--------------------------------------------------------------------------------
(* What task t may do while it is polled. *)

Polled(t) == status = "running" /\ polling = t

\* Task t comes to this `.await`, or past it ("none").
StandAt(t, kind, u) ==
    /\ await' = [await EXCEPT ![t] = kind]
    /\ target' = [target EXCEPT ![t] = u]

\* Task t runs its own code: it stands at no `.await`.
Running(t) == Polled(t) /\ await[t] = "none"

Holds(t) == {u \in Known : holder[u] = t}

\* A plausible slip: the new task is filed and never marked ready.
UnmarkedOnSpawn(u) == ready

\* Filing a task marks it ready.
ReadyOnSpawn(u) == ready \cup {u}

\* `Handle::spawn` by t.  The new task may take with it the sleep t kept and
\* one handle t holds.
Spawn(t, u, withKept, given) ==
    /\ Running(t)
    /\ u = nextId /\ nextId < MaxTasks
    /\ nextId' = nextId + 1
    /\ spawned' = Append(spawned, u)
    /\ ready' = ReadyOnSpawn(u)
    /\ holder' = [v \in Task |-> IF v = u THEN t ELSE IF v \in given THEN u ELSE holder[v]]
    /\ IF withKept
       THEN /\ deadline[Kept(t)] # NoTime
            /\ deadline' = [deadline EXCEPT ![Kept(u)] = deadline[Kept(t)],
                                            ![Kept(t)] = NoTime]
            /\ timer' = [timer EXCEPT ![Kept(u)] = timer[Kept(t)],
                                      ![Kept(t)] = NoEvent]
       ELSE UNCHANGED <<deadline, timer>>
    /\ UNCHANGED <<now, queue, nextSeq, tasks, polling, status, awaitVars, sleeps,
                   waiting, output, finished>>

\* Comes to an `.await` of a new sleep.
AwaitSleep(t, duration) ==
    /\ Running(t)
    /\ NewSleep(Awaited(t), duration)
    /\ StandAt(t, "sleep", NoTask)
    /\ UNCHANGED <<loopVars, queue, nextSeq, nextId, ready, joinVars>>

\* Comes to an `.await` of the sleep it kept.
AwaitKept(t) ==
    /\ Running(t)
    /\ deadline[Kept(t)] # NoTime
    /\ deadline' = [deadline EXCEPT ![Awaited(t)] = deadline[Kept(t)],
                                    ![Kept(t)] = NoTime]
    /\ timer' = [timer EXCEPT ![Awaited(t)] = timer[Kept(t)],
                              ![Kept(t)] = NoEvent]
    /\ StandAt(t, "sleep", NoTask)
    /\ UNCHANGED <<loopVars, queue, nextSeq, sleeps, nextId, ready, joinVars>>

\* Comes to an `.await` of a handle it holds.
AwaitJoin(t, u) ==
    /\ Running(t)
    /\ u \in Holds(t)
    /\ StandAt(t, "join", u)
    /\ UNCHANGED <<loopVars, nextId, ready, sleepVars, joinVars>>

\* Comes to an `.await` of `clock.timeout(duration, handle)`.
AwaitTimeout(t, u, duration) ==
    /\ Running(t)
    /\ u \in Holds(t)
    /\ NewSleep(Awaited(t), duration)
    /\ StandAt(t, "timeout", u)
    /\ UNCHANGED <<loopVars, queue, nextSeq, nextId, ready, joinVars>>

\* Comes to an `.await` that never completes (`core::future::pending`).
Park(t) ==
    /\ Running(t)
    /\ StandAt(t, "park", NoTask)
    /\ UNCHANGED <<loopVars, nextId, ready, sleepVars, joinVars>>

\* Polls a new sleep once, finds it pending and keeps it.
LookAtSleep(t, duration) ==
    LET w == Kept(t)
        at == SaturatingAdd(now, duration)
        e == [at |-> at, seq |-> nextSeq, waker |-> t]
    IN /\ Running(t)
       /\ deadline[w] = NoTime
       /\ sleeps < MaxSleeps
       /\ at > now
       /\ sleeps' = sleeps + 1
       /\ deadline' = [deadline EXCEPT ![w] = at]
       /\ queue' = queue \cup {e}
       /\ nextSeq' = nextSeq + 1
       /\ timer' = [timer EXCEPT ![w] = e]
       /\ UNCHANGED <<loopVars, nextId, ready, awaitVars, joinVars>>

\* Polls a handle once, finds the task unfinished and keeps the handle.
LookAtJoin(t, u) ==
    /\ Running(t)
    /\ u \in Holds(t)
    /\ u \notin output
    /\ RegisterJoin(u, t)
    /\ UNCHANGED <<loopVars, nextId, ready, awaitVars, sleepVars>>

\* Drops the sleep it kept.
DropKept(t) ==
    /\ Running(t)
    /\ deadline[Kept(t)] # NoTime
    /\ DropSleeps({Kept(t)})
    /\ UNCHANGED <<loopVars, nextId, ready, awaitVars, joinVars>>

\* Drops a handle: its task is detached and runs on.
Detach(t, u) ==
    /\ Running(t)
    /\ u \in Holds(t)
    /\ DropHandles({u})
    /\ UNCHANGED <<loopVars, nextId, ready, awaitVars, sleepVars>>

\* `Sleep::poll`: a due sleep is done and disarms, a pending one ends the poll.
PollSleep(t) ==
    LET w == Awaited(t)
    IN /\ Polled(t)
       /\ await[t] = "sleep"
       /\ \/ /\ Due(w)
             /\ DropSleeps({w})
             /\ StandAt(t, "none", NoTask)
             /\ UNCHANGED polling
          \/ /\ ~ Due(w)
             /\ ArmSleep(w, t)
             /\ polling' = NoTask
             /\ UNCHANGED awaitVars
       /\ UNCHANGED <<now, tasks, spawned, status, nextId, ready, joinVars>>

\* `JoinHandle::poll`.
PollJoin(t) ==
    LET u == target[t]
    IN /\ Polled(t)
       /\ await[t] = "join"
       /\ \/ /\ u \in output
             /\ TakeOutput(u)
             /\ StandAt(t, "none", NoTask)
             /\ UNCHANGED polling
          \/ /\ u \notin output
             /\ RegisterJoin(u, t)
             /\ polling' = NoTask
             /\ UNCHANGED awaitVars
       /\ UNCHANGED <<now, tasks, spawned, status, nextId, ready, sleepVars>>

\* `Timeout::poll` around a handle: the work first, the deadline second, and
\* whichever wins drops both.
PollTimeout(t) ==
    LET w == Awaited(t)
        u == target[t]
    IN /\ Polled(t)
       /\ await[t] = "timeout"
       /\ \/ /\ u \in output
             /\ TakeOutput(u)
             /\ DropSleeps({w})
             /\ StandAt(t, "none", NoTask)
             /\ UNCHANGED polling
          \/ /\ u \notin output
             /\ Due(w)
             /\ DropHandles({u})
             /\ DropSleeps({w})
             /\ StandAt(t, "none", NoTask)
             /\ UNCHANGED polling
          \/ /\ u \notin output
             /\ ~ Due(w)
             /\ RegisterJoin(u, t)
             /\ ArmSleep(w, t)
             /\ polling' = NoTask
             /\ UNCHANGED awaitVars
       /\ UNCHANGED <<now, tasks, spawned, status, nextId, ready>>

\* A wait that never completes ends the poll.
PollPark(t) ==
    /\ Polled(t)
    /\ await[t] = "park"
    /\ polling' = NoTask
    /\ UNCHANGED <<now, tasks, spawned, status, nextId, ready, awaitVars, sleepVars, joinVars>>

\* A plausible slip: the finished task leaves its joiner asleep.
Unwoken(t) == ready

\* Whoever was registered on t is marked ready as t finishes.
Woken(t) == ready \cup ({waiting[t]} \ {NoTask})

\* The task returns: what it holds is dropped, its output is left for whoever
\* joins it, that task is woken, and the loop forgets it.
Finish(t) ==
    /\ Running(t)
    /\ DropSleeps({Kept(t)})
    /\ holder' = [u \in Task |-> IF u \in Holds(t) THEN NoTask ELSE holder[u]]
    /\ waiting' = [u \in Task |-> IF u \in Holds(t) \cup {t} THEN NoTask ELSE waiting[u]]
    /\ output' = output \cup {t}
    /\ finished' = finished \cup {t}
    /\ ready' = Woken(t)
    /\ tasks' = tasks \ {t}
    /\ polling' = NoTask
    /\ UNCHANGED <<now, spawned, nextId, status, awaitVars>>

Loop == Take \/ Return \/ Stall \/ Advance

Step(t) ==
    \/ \E u \in Task, withKept \in BOOLEAN :
          \/ Spawn(t, u, withKept, {})
          \/ \E v \in Holds(t) : Spawn(t, u, withKept, {v})
    \/ \E d \in Durations : AwaitSleep(t, d) \/ LookAtSleep(t, d)
    \/ \E u \in Task :
          \/ AwaitJoin(t, u)
          \/ LookAtJoin(t, u)
          \/ Detach(t, u)
          \/ \E d \in Durations : AwaitTimeout(t, u, d)
    \/ AwaitKept(t)
    \/ DropKept(t)
    \/ Park(t)
    \/ PollSleep(t) \/ PollJoin(t) \/ PollTimeout(t) \/ PollPark(t)
    \/ Finish(t)

Next == Loop \/ (\E t \in Task : Step(t)) \/ Returned

Spec == Init /\ [][Next]_vars

--------------------------------------------------------------------------------
(* Properties. *)

Unfinished == Known \ finished

\* Task t stands at a wait that cannot complete at this instant: nothing, a
\* sleep whose deadline is still ahead, or a join on a task still at work.
Blocked(t) ==
    CASE await[t] = "park"    -> TRUE
      [] await[t] = "sleep"   -> ~ Due(Awaited(t))
      [] await[t] = "join"    -> target[t] \in Unfinished
      [] await[t] = "timeout" -> /\ ~ Due(Awaited(t))
                                      /\ target[t] \in Unfinished
      [] OTHER -> FALSE

\* The clock moves only when every unfinished task is blocked: no task spawned
\* at this instant goes without its first poll, no wake-up of this instant is
\* left behind, and no wait is overslept (`Executor::run`, `adopt_spawned`,
\* `Sleep::poll`, `JoinHandle::poll`).
TimeMovesOnlyWhenAllBlocked ==
    [][now' # now => \A t \in Unfinished : Blocked(t)]_vars

\* Between two polls, a task that is not ready to be polled will be: the sleep
\* it awaits has a timer in the queue that wakes it, at the deadline, and the
\* task it joins is unfinished and has its waker.  In a timeout both do.
NoLostWakeup ==
    \A t \in tasks \ (ready \cup {polling}) :
       /\ await[t] # "none"
       /\ await[t] \in {"sleep", "timeout"} =>
             LET w == Awaited(t)
             IN timer[w] \in queue /\ timer[w].waker = t /\ timer[w].at = deadline[w]
       /\ await[t] \in {"join", "timeout"} =>
             target[t] \in Unfinished /\ waiting[target[t]] = t

\* An abandoned wait leaves no trace: every timer in the queue is the one some
\* sleep still held registered, for its own deadline, the sleeps are those of
\* unfinished tasks, and a waker registered on a task is there only while its
\* handle is held (`Drop` of Sleep and of JoinHandle).
NoTraceOfAbandonedWaits ==
    /\ \A e \in queue : \E w \in Wait : timer[w] = e /\ deadline[w] = e.at
    /\ \A t \in Task : deadline[Awaited(t)] # NoTime \/ deadline[Kept(t)] # NoTime =>
          t \in Unfinished
    /\ \A u \in Task : waiting[u] # NoTask => holder[u] # NoTask /\ u \notin finished

\* A run ends stalled only when no task left can ever go on: each is parked or
\* joins another that is left.  A sleep never stalls a run.
StallIsReal ==
    status = "stalled" =>
       \A t \in tasks : \/ await[t] = "park"
                        \/ await[t] = "join" /\ target[t] \in tasks

\* No timer is ever left behind the clock, so the `Clock` error of a run
\* cannot happen to tasks that wait through Sleep, JoinHandle and Timeout.
NeverBackwards ==
    /\ \A e \in queue : e.at >= now
    /\ status # "clock_error"
================================================================================
