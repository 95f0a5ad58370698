# Verification of chronoloop

chronoloop is a deterministic simulation engine: it runs a distributed system
inside one thread, on virtual time, over a simulated network with injected
faults, and judges, compares, reduces and replays what it recorded. This
directory holds TLA+ models of its core, the TLC configurations that check them
and machine-checked proofs about them. Paths below are relative to the
repository (`src/` is its crate's source directory).

## 1. Inventory

| component | state | operations | what is hard | what makes it correct |
|---|---|---|---|---|
| clock and event queue (`clock.rs`, `event.rs`) | the instant reached; pending events by (instant, push number) | `advance_to`, `saturating_add`; `push`, `pop`, `cancel`; `Timeout` | the end of time, ties | never goes back; ties in the order of the pushes |
| executor (`executor.rs`) | tasks, spawned but not adopted, ready set, timers, joins | `run`, `poll_ready`, `spawn`, `Sleep`, `JoinHandle`, wakers | re-entrancy of a poll, wakers that outlive their task, waits handed over or dropped half way | no lost wake-up, no trace of an abandoned wait, a stall is real, time moves only when all are blocked |
| fault schedule (`fault.rs`) | a list of windows of outage or loss, per direction | `first_applying`, `partitioned`, `loss` | overlapping windows, both ends of a window | the first fault in force decides |
| network (`net.rs`) | inboxes (arrivals, waits), links, faults | `send`, `recv` and its poll, drop | several waits on one inbox, a send that lands sooner than what a wait aims at, repeats | taken in order of landing, every wait that something is on its way to is answered, faults as scheduled |
| reconciler (`systems/reconciler.rs`) | server: wanted, replicas and phases, what is due; controller: nothing between looks | `reconcile`, `apply`, `advance`, `look` | stale listings, reordered and lost actions, changes under way, a run of a fixed number of passes | data never lost, no gap in service, convergence, and within the passes a run has |
| replicated log (`systems/replog.rs`) | term, role, votes, pre-votes, log, commit, applied; clients' commands | pre-vote, vote, append, commit, submit | the usual of Raft, with a pre-vote | one leader a term, committed entries hold, linearizable, progress |
| quorum (`systems/quorum.rs`) | the coordinator's round and its acknowledgements | `ask`, `answer` | an answer of a round gone by | a round closes on its own acknowledgements |
| ring, pingpong (`systems/`) | the message in hand | one wait at a time | nothing beyond the network | every run ends |
| random numbers, forks (`rng.rs`, `fork.rs`) | generators, each a key and a place; the fork's seed and instant | draws, `reseed`, `drawing` | the instant of the fork itself, the place in the new stream | the past is unchanged; a fork to the run's own seed is the run |
| invariants and outcomes (`invariant.rs`, `outcome.rs`) | one watch per promise over the steps of a trace | `check` | which step a late promise broke at | the earliest breach, at the right step |
| reduction (`shrink.rs`) | the schedule kept so far | drop, narrow, lower, until nothing changes | later passes undo the minimality of earlier ones | still fails the same way; one-minimal; ends |
| sweep (`sweep.rs`) | workers over strided seeds | `sweep`, `stride` | concurrency, a run that does not finish, a panic | independent of the number of workers |
| store, worlds, comparison (`store.rs`, `world.rs`, `diff.rs`) | states by hash | `insert`, `get`, `diff`, `read_world` | sharing, missing children, names that hold separators | what is held can be read back; no change is missed; no two states are listed alike |
| traces, histories, reproductions (`trace.rs`, `history.rs`, `repro.rs`, `digits.rs`) | text | write, parse | what a message may hold, a text inside a text, the line an error names | what is written reads back; an error names the first wrong line |
| command line (`main.rs`) | the files left between one command and the next | run, trace, fork, replay, diff, check, shrink, sweep and the rest | a file that came to harm, a program built anew, a full disk | an answer is about the page that was read |

How they interact. A task holds a `Handle` (the clock, timers and spawning of
the executor) and an `Endpoint` of the network. `Recv`, `Sleep` and `JoinHandle`
are futures: they leave timers in the executor's queue and wakers in inboxes
and joins, and take them back when they are dropped; `Timeout` polls a wait and
a deadline in that order. The network asks the fault schedule about every send
and draws from a generator of the run's seed. The reconciler, the replicated
log, quorum, ring and pingpong are tasks over these capabilities; they record
every change as a step of a trace whose states a Merkle store keeps. Invariants,
comparison, reduction, sweeps and reproductions work on what was recorded, and
the command line joins them by files of text.

The hazards this code is exposed to are listed in `PROJECT.json`, each at its
line, with the properties below that would catch it.

## 2. Modules

| module | models | composed with |
|---|---|---|
| `VirtualTime` | instants, saturating addition, the order of events | extended by all that run on the clock |
| `Executor` | `executor.rs`, `Sleep`, `JoinHandle`, and `Timeout` of `clock.rs` | extends `VirtualTime` |
| `ExecutorTie` | `Executor` with a record of when a task finished and when a timeout gave up on it | extends `Executor` |
| `ExecutorShrinkProofs` | theorems about `Executor`; that `Shrink` implements `Reducing`, that it comes down and what it ends with, proved | extends `Executor` and `Shrink` |
| `Faults` | `fault.rs` and the odds of `net.rs`; what a fault and its odds are | extends `VirtualTime` |
| `Network` | `net.rs`, over the timers and ready set of the executor | extends `Faults` |
| `Reconciler` | `systems/reconciler.rs` without a clock | - |
| `ReconcilerRuns` | a whole run of it by the clock | extends `Faults`; implements `Reconciler` |
| `ReconcilerProofs` | theorems about `Reconciler` | extends `Reconciler` |
| `ReconcilerRunsProofs` | that `ReconcilerRuns` implements `Reconciler`, proved, and what that says of the runs | extends `ReconcilerRuns`; an instance of `ReconcilerProofs` |
| `Replog` | `systems/replog.rs` | - |
| `LogProofs` | all its safety: one leader a term; matching logs, commits for good, complete leaders, one order of commands | extends `Replog` |
| `QuorumRounds` | `systems/quorum.rs` | extends `Faults` |
| `QuorumProofs` | theorems about `QuorumRounds` | extends `QuorumRounds` |
| `SmallSystems` | `systems/ring.rs`, `systems/pingpong.rs`, `rng.rs`, `fork.rs`, over the loop and the inboxes | extends `VirtualTime` |
| `SmallSystemsProofs` | that a forked run is the run up to its instant, and a fork to the run's own seed the run; theorems about `Worlds` | extends `SmallSystems`, `Worlds` |
| `Invariants` | `invariant.rs` | extends `VirtualTime` |
| `Reducing` | what `shrink` promises, whatever it tries | extends `Faults` |
| `Shrink` | `shrink.rs`, and of `outcome.rs` when a failure is the same one | extends `Faults`; implements `Reducing` |
| `Sweep` | `sweep.rs` | - |
| `StateStore` | `store.rs`, `diff.rs`, the hash of `world.rs` | extends `Worlds` |
| `Worlds` | `world.rs`: worlds, values, the tree of a world and the way back, lists of states | extended by `StateStore`, `SmallSystemsProofs` |
| `Forms` | the text forms: `trace.rs`, `history.rs`, `repro.rs`, `digits.rs`, and the `Display` and `FromStr` of outcomes, faults and instants | extends `Faults` |
| `CommandLine` | `main.rs` | extends `Forms`, `Sweep` |
| `EngineProofs` | theorems about `Network`, `Invariants`, `CommandLine`, the sweeps in it and the forms it reads and writes | extends the three |
| `ErrorsProofs` | that an error names the first line that is not as it was written, proved | extends `EngineProofs` |
| `MC*` | the instances TLC checks | |

### Executor

One poll of a task is a run of actions with `polling` set to it. What a task
does in a poll is free: it may spawn a task (giving it the sleep it kept and a
handle it holds), create a sleep, look at one once and keep it, await any of
its waits, race a handle against a deadline, drop what it holds, park for ever,
or finish. So the tasks of every system of the repository that waits through
these three futures are among the behaviours. The loop is `Take` (adoption and
the lowest ready task, as in `poll_ready`), `Advance` (pop, `advance_to`,
wake), `Return` and `Stall`. A future that calls `Handle::schedule_wake` itself
is not among the tasks: the one test that does so is the one that provokes the
clock error which `NeverBackwards` excludes.

A timer in the queue is identified by its instant and push number, as
`EventId` does; `timer[w]` is `Sleep.registered`. `nextId` and `nextSeq` count
without wrapping: the code panics at 2^64.

### Network

The executor is reduced to what a wait sees of it: timers, the ready set, and
the rule that time moves only when nobody is ready, which `Executor` checks.
`Nudge` stands for every other wait a task may stand at: it wakes the task, now
or at a later instant. `Endpoint::send` draws its outcome from `Outcomes`: cut,
lost, one copy, or two with independent delays. A link's delay is a set of
durations, `Odds` are kept as they are in the code and a draw is any answer
they leave possible.

### Reconciler and ReconcilerRuns

One database, since neither the decision nor any operation of the server reads
two at once.

`Reconciler` abstracts from time. A message in flight is a member of a set, so it
lands in any order; a lost one never enters it. What the constants of the code
order is stated at the head of the module: PATIENCE is longer than a request and
its answer, so a look gives up only on a listing that never comes; REQUEUE is
longer than LATENCY, so only the actions of the last look can be on the wire when
a new one begins. Changes to what is wanted may come at any point, which is more
than the instants of TIMELINE allow.

`ReconcilerRuns` has the time: the controller's passes and the looks inside one,
the server's wait for a request, a change or a replica's time, whichever is first
(`Server` leaves when nothing has come for QUIET), the wire with the faults of
the run, the worlds and the verdict over them. `Implements` says that it is a
`Reconciler`, under the refinement mapping at `Loop`, so what `Reconciler` takes for granted of
time is checked and proved and not assumed: `TimesAssumption` states how the
constants of the code stand to each other, and TLC evaluates it for those of the
code. What a look does for the other database is any
(`OthersAsk`); with one database the server hears less and leaves no later than
the code's.

### Replog

A replica is a record with the fields of `Replica` and `Recorded`, and each
handler is one action: it takes a copy of its message off the wire, replaces the
record and puts what it sends on the wire, as `replicate` does around
`on_message`. `adopt` is the first step of every handler of a message that
carries a term. The wire is a bag: this system's links take time and neither
lose nor duplicate, so messages arrive in any order and `Cut` takes away those a
fault cut off. A timer may run out at any moment, which is more than the drawn
timeouts allow. A client picks any replica to ask, and asks again whenever it is
not answered: the hints and the patience of the code only choose whom and when.
`yeses` is a record of the ballots that granted something, kept for
`StandsOnMajority` and for the proof; no handler reads it.

### QuorumRounds

The coordinator (`Open`, `Count`, `Close`), the replicas (`Hear`, `Answer`,
`Leave`) and the clock, which moves when all are blocked. Messages carry the
instant they land at; what a send comes to is asked of `Faults`. The constants of
the code are parameters, and `QuorumAssumption` states what its comments say of
them. The verdict is read from what each round recorded, as the invariants of the
code read it from the worlds.

### SmallSystems

A node is a script of waits and sends, polled by the loop. A behaviour is a run
and, for the ring, a second run of the same seed forked at the instant of one of
the first one's steps. A generator is a key and a place in the key's stream;
what stands at a place is any value and is there for good (`drawn`), so both
runs read the same streams. `course` records a `Moment` before each step of the
loop (all there is of a run, but what a fork has yet to change); no step of the
code reads it. The properties compare the two courses and the two logs.

### Invariants

`Look` is one turn of `check`'s loop and moves every watch as `Watch::step` does;
`Finish` is what comes after the loop, whenever the trace is over (its sort by step
is any list of the breaches that is `Sorted`, and there is one); `Unreadable`
is a state the store does not hold or that is no world. A step is its instant and
the set of invariants its world passes. `Unkept` and `Standing` say of a whole
trace what the documentation says, and the report is compared with them.

### Shrink and Reducing

One step is one candidate run. `Candidate` is what is offered, `Keeps` runs it,
and the actions move the search on: `DropAll` and `DropPiece` for `drop_entries`,
`SearchDown` for `narrow_end` and `lower_odds`, `SearchUp` for `narrow_start`,
`EndPass` for the loop around them. A run may go any way at every candidate, even
the same one, which is more than a deterministic run can do. `refused` records
what was run in vain since something was last kept; no step of the code reads it.
`Reducing` is the promise without the search: what is kept is the original less
something, was run, and failed for the same reason. `CommandLine` takes a
reduction at that promise.

### StateStore and Worlds

`Inserted` is `insert` with its early return, `Get` rebuilds, `Descend` compares.
A hash is what is hashed, tag included. A comparison changes nothing, so it is an
operator and not an action: the property asks for the comparison of every two
states at every point. `Worlds` writes a world as the tree the store keeps and
reads a tree back, naming the first place at which it is none; a name is a
sequence of characters and a number's bytes are those of `LittleEndian`, an
injective function. `OffPlaces` says by the writer alone, not by the reader, where a
tree is not a world's. The operators of `StateStore` are RECURSIVE, so nothing is proved
of it; those of `Worlds` go down the three levels a world has, and theorems are.

### Forms and CommandLine

A text is a sequence of lines of tokens. Where a number, an instant or the name
of a state belongs one of a few spellings may stand, most of which no writer
uses. Each form has its writer and its reader, and a reader answers the value or
what is wrong and at which line. What a form can be of is stated as a set
(`Recording`, `Trace`, `Repro`, `WritableFault`, ...), with the conditions of the
constructors of the code: a message is one line, a reason one line and not empty,
a window does not close before it opens, odds have trials and no more occurrences
than those. `WrittenTimesAssumption` bounds the instants to those a text is given
for, and `WrittenAssumption`, in `CommandLine`, says that what may be asked, drawn
and come to is of those sets.

A step of `CommandLine` is a whole command, but for `sweep`, which goes through
`Sweep` step by step: `Run` and `Return` are the steps of a worker's `stride`,
`Join`, `Unwind` and `Merge` those of the caller. Between two commands a token or
a line of a file may be harmed and the program may be built anew; what a run
comes to is chosen when first asked for and belongs to the build. `meant` records
what was last written to a file and by which build, for the properties only.

## 3. What TLC checks

| run | bounds | what it shows |
|---|---|---|
| `executor` | 3 tasks (1 root), 3 sleeps of 1 or 2, time 0..2 | 817,000 states. No lost wake-up, no trace of abandoned waits, stalls are real, the clock never fails, time moves only when all are blocked |
| `executor_tie` | 2 tasks, 2 sleeps, time 0..3 | the tie the documentation of `Timeout` describes is not always settled that way (below) |
| `network` | 3 tasks on 2 nodes, 2 of them on one inbox, 2 sends, 3 waits, 1 nudge, time 0..2, 4 schedules | 510,000 states. No trace of an abandoned wait, no landing overtaken, faults applied as scheduled, every wait that something is on its way to is answered |
| `reconciler` | 3 regions, the timelines of `orders` and `users` | 93,600 states. Data kept, no stale deletion on a primary, no gap in service, convergence |
| `reconciler_runs` | the same by the clock: 10 passes, the constants of the code in hundredths of a second, the quickest and the slowest of every draw, four ways for faults to fall | 759,000 states. Five clear passes are enough for every promise to hold at the end; the run implements `Reconciler` |
| `replog` | 3 alike replicas, terms to 2, 4 timers (3 once a command was sent, 2 once it was sent again), 2 live messages (3 for the first two timers before any command); one client, two commands, asked again once | 492,000 states. One leader a term, no term begun without a majority's yes, leaders hold what is committed, what is committed holds, logs match, commands take effect once and in order |
| `quorum` | 3 replicas, 2 rounds, 3 schedules, 2 values for each draw | 15,400 states. A round is lost only to the faults over it; no answer outlives its round |
| `ring` | the exchange; a ring of 2, twice round, 2 values for each draw, forked at any step to its own seed or another | 118,000 states. Up to its instant a fork is the run; a fork to the run's own seed changes nothing; every run ends |
| `invariants` | one safety promise and two liveness ones, traces of up to 4 steps at instants 0..3 | 319,000 states. Every first breach is reported, at the step the promise ran out |
| `shrink` | 3 faults of both kinds, 4 equal outages, none; instants 0..3 | 742,000 states. It implements `Reducing`; in the end nothing just smaller fails; every candidate is smaller; it ends |
| `store` | 3 inserts of states of up to two levels, worlds and foreign ones | 31,900 states, all pairs compared in each. What is held reads back; a comparison reports exactly what differs; a tree reads back as its world or names the first wrong place; no two states are listed alike |
| `commands` | 4 commands, one mishap among them, sweeps of 3 seeds over 1 or 2 workers, runs of at most 3 records, times of 0..3 with 2 to the second | 86,900 states. What is written reads back; a good answer is about the page; an error names the first wrong line; a sweep says what its seeds say; a repro expects its own run |

Why the bounds are enough to show something. Three tasks allow a task to be
joined by one that is itself joined, and a wait to be handed to a third; two
durations with an end of time at 2 give ties, order and saturation. In
`network`, three waits over two sends let one wait be abandoned or overtaken
while another stays, and a repeat makes three arrivals. In `reconciler` three
regions are all that the timeline names for one database. In `reconciler_runs`
the four ways are nothing, requests cut from early on until the faults must end,
answers lost from the middle of an evacuation on, and losses where the evacuation
begins; with four clear passes in place of five `HoldsUp` fails. In `replog` four
timers let a replica stand, a second give up its leader and a third stand with a
stale log, in one term or the next, and a second leader replaces what the first
took and did not commit. States that differ only in messages that can no longer
change anything are taken for one (`MCReplog!View`), and the replicas for
interchangeable. Two terms do not reach the case in which an entry of an earlier
term is counted as committed and then lost: the copies a leader sends always end
with an entry of its own term, so in this code the guard of `advance` is never
what stops it. In `quorum` patience is exactly the slowest question and answer, so
that the tie at a deadline is among the runs; one schedule loses one round and
not the next, another ends between a question and its answer and has two faults
overlap. In `ring` both nodes think and both directions take either delay, so a
fork falls before, between and after the draws of one instant. In `invariants`
four steps let a stretch open, outlast its deadline and be followed by another,
with ties and with a deadline past the end of time. In `shrink` three entries
make a removal in one round undo the granularity of the last, and narrowing makes
an entry worth dropping in a later pass; four make pieces of two. In `commands`
four deeds are a trace, a harm, a fork or a reading of it, and one more; the
messages of the instance look like what stands around them. Each property is
accompanied by a mutant in `PROJECT.json`, a plausible slip in one of the mapped
definitions under which TLC finds that property violated within the same
bounds.

Fairness. `Network!FairSpec` assumes weak fairness of the loop: `run` does not
pause while anything is ready or due; `SmallSystems` and `ReconcilerRuns` assume the
same of the run as a whole. `Reconciler!FairSpec` assumes that the server answers what
lands and matures what is due, that the controller keeps looking, that every
change of the timeline comes and that the faults end: `drawn_faults` closes every
window before the last CLEAR_PASSES passes. `Shrink!FairSpec` assumes that the loop
goes on, which means that every candidate run ends. No fairness is assumed
elsewhere.

A disagreement. `Timeout` documents that work which becomes ready at the very
instant its deadline fires has finished in time, "a tie settled by a fixed rule
rather than by which of the two the simulation happened to wake first"
(`src/clock.rs:335-338`). `run` pops one event at a time and polls until nothing
is ready. So if the work is a join on a task that sleeps until that instant and
the deadline was armed before that sleep, the deadline is popped first, the
work is not ready when it is polled, and the timeout gives up; the task then
finishes at the same instant. `executor_tie` finds the run. The result is still
the same on every replay.

Worth knowing besides: the readers of numbers and instants accept leading zeros,
which no writer puts there, so reading is not the exact inverse of writing. What
is written reads back, and `Forms` has the readers as they are.

## 4. What is proved

### The executor

`ExecutorShrinkProofs` proves, of `Executor`, for any number of tasks, sleeps,
durations and any end of time (under `MaxTimeAssumption` and
`ExecutorAssumption`, which only say that the parameters are numbers and the
model values are not):

- `TypeCorrect`: `Spec => []TypeOK`
- `ClockNeverFails`: `Spec => []NeverBackwards`
- `AbandonedWaitsLeaveNoTrace`: `Spec => []NoTraceOfAbandonedWaits`
- `NoWakeupIsLost`: `Spec => []NoLostWakeup`
- `StallsAreReal`: `Spec => []StallIsReal`
- `TimeWaitsForAll`: `Spec => []TimeMovesOnlyWhenAllBlocked`

The first three rest on one inductive invariant, `IInv`. None of the properties is
inductive alone: that a due timer is not behind the clock needs that every
timer in the queue is aimed at the deadline of a sleep (`TimersAim`) and that the
event numbers in the queue are those handed out (`TimersOwned`); that only
unfinished tasks hold sleeps needs that what a task holds goes when it finishes,
and that the loop, the spawn list and the finished tasks share out the known ones
(`Roll`, `SleepsHeld`); the handles need the same of joins (`HandlesHeld`). The
proof has one lemma per group of actions that touch the same variables.

The other three add to it (`WInv`): that what was spawned is ready until the loop
takes it on, and the loop knows everyone unfinished (`Filed`); that no two sleeps
hold one timer and that a timer stays in the queue until its deadline (`Timers`);
and that each task which is neither ready nor in its poll is registered at the
wait it stands at (`Registered`): its timer is in the queue and names it, or the
task it joins is at work and will wake it. A stall is then real since whoever is
left has no timer, and time moves only when all are blocked since the clock moves
only when nobody is ready.

### The network

`EngineProofs` proves, of `Network`, for any nodes, tasks, links, delays, odds and
schedules:

- `AbandonedRecvLeavesNoTrace`: `Spec => []NoTraceOfAbandonedRecv`
- `TakenAsTheyLand`: `Spec => TakenInOrderOfLanding`
- `FirstFaultDecides`: `Spec => []CarriedAsScheduled`

Here the first property is inductive once types are added (`NInv`): each of the
ways a wait ends takes its waker and its timer with it. The second is an action
property: a send files no arrival before the instant it is sent at, an addition
that would pass the end of time saturating, and what is taken is the earliest of
those that have landed, so none that is left was due before it.

The third compares two definitions of the schedule: a send asks `FirstApplying`,
and the property reads a timeline painted from the last fault to the first, each
over the one before. The timeline is a recursive function over the places of the
schedule. It is characterised without induction over the schedule: if what it
shows somewhere were not the fault of the least place in force from there on,
there would be a last place at which that is so, and the equation of the
function rules that one out. The invariant, `CInv`, then says of every send on
record that what left is what the timeline shows at its instant (`AsShown`).
`NetworkAssumption` asks of a schedule that its entries are faults and of a
link that its odds are odds, as the types of the code do.

### The reduction

`ExecutorShrinkProofs` proves, of `Shrink`, `ReductionKeepsItsPromise`:
`ShrinkSpec => Reduces`, for any schedules, bounds and outcomes of the candidates. The invariant, `SInv`, says that
whatever is kept failed as the first run did (`Failing`), that the piece offered
next is one of those the list is cut into (`Cutting`), and that the bisection is of
an entry of a list. Each candidate is then less than what was kept: a list without
one of its stretches, one window narrowed, or one set of odds lowered; and it
replaces what was kept only when it failed the same way. So a step of the search is
a step of `Reducing`, or changes nothing that it speaks of.

It proves besides `CandidatesComeDown` (`ShrinkSpec => []EveryCandidateIsSmaller`) and
`NoSmallerFailure` (`ShrinkSpec => []NothingSmallerFails`): every candidate is below what
is kept in the measure the documentation of `shrink` names, which is what its end
rests on, and what it hands back cannot be made less by one entry, one instant or
one occurrence. The invariant, `TInv`, adds to `SInv` the course of a pass: it only
goes down from the schedule it began with (`before`); the bounds of a search are
inside what is kept, with room between them (`Aim`); and while nothing was kept
since the pass began, all it went through was run in vain (`InVain`): each entry
left out, each bisection's last step (`Bisected`), and of the one under way the
bound it last moved (`Halfway`). A pass that ends as it began has then tried all
that is just smaller. The first of the two needs that a sum over a list drops when
a term does, and that a list without a stretch is shorter.

### The quorum

`QuorumProofs` proves `EveryAnswerIsOfItsRound`
(`Spec => []NoAnswerOutlivesItsRound`) and `FaultsOfItsOwnRound`
(`Spec => []LostOnlyToItsOwnFaults`), for any replicas, rounds and delays that meet
`QuorumAssumption`. That is what the comments at the constants ask of them: a
question, the thought it takes and its answer fit in the patience, the patience in
the period. The invariant, `QInv`, says that a round opens on its own instant and is
over by its deadline (`Clocked`); that all that is on the wire is of the open round
and lands in time (`OnTime`), as is what a replica thinks about (`Engaged`); that a
replica has one thing to say at a time (`Once`); and that each acknowledgement
counted is that of a replica with nothing left to say (`Counted`). The last two are
needed since a round may close early on a full count: then nobody is left to answer.

For the second theorem `FInv` adds what the faults of the open round do to its
count: nobody a fault kept from being asked has anything to say, and no answer of a
replica that is cut off is on the wire (`Reached`); those counted are not cut off,
and whoever no fault touches is counted or will be (`Tallied`, with the set of those
counted as its witness); and each closed round recorded a count between the two
(`Recorded`). When a round closes at its deadline nothing of it is on the way any
more, so everyone its faults left alone was counted.

### The reconciler

`ReconcilerProofs` proves, for any regions and any timelines that are `Orderly`:

- `DeletionsAreHarmless`: `Spec => []DeletionsSparePrimaries`
- `DataIsKept`: `Spec => []KeepsItsData`
- `ServedForGood`: `Spec => StaysServed`

The comment at `reconcile` that a deletion on an old listing is harmless leaves a
condition on the timeline implicit: one region is wanted as the primary at a
time, and a region wanted for nothing later was wanted either never as the
primary, or as the primary until another took over (`Orderly`). Both databases of
TIMELINE meet it. The invariant, `RInv`, says what the roles, the listings and the
actions on the wire may hold for each of the three sorts of regions: one that
stays wanted is never named by a deletion (`KeptInv`); one that is only ever a
standby is never made a primary (`SecondInv`); and one that was the primary is
named by a deletion only once another has its part (`FirstInv`). Then every
deletion spares the primary (`Spared`), and neither data nor service goes with it.

`ReconcilerRunsProofs` proves, for any timelines, troubles and constants under
`RunsAssumption` (their types) and `TimesAssumption` (a request and its answer fit in
PATIENCE, that in PERIOD; LATENCY is below REQUEUE; QUIET is longer than from one look
to the next, and than from the last change to the first pass after the faults):

- `TheClockChangesNothing`: `Spec => Implements`
- `NoRunLosesData`: `Spec => [] ~ spoiled`, for timelines that are `Orderly`

The refinement needs an invariant of its own (`RInv` of that module): what lands is
taken before time moves (`Prompt`); a pass keeps to its time (`Clock`); what is on the
wire is of this look or what the one before asked for, and lands by a bound counted
from when this look began (`OnTheWay`); no two messages say the same, so that a set of
them is what the loop sees (`Single`); and while there are passes the server is there
and has heard of a look since the last one the faults may have taken (`Heard`). So a
look that gives up has nothing on the wire (`GiveUpStep`), one that begins finds
nothing of its own tag there (`LookBegins`), and the server does not leave while the
controller has passes (`NotDeserted`), which is where QUIET comes in. Every action is
then a step of the loop, time alone being its `Heal` or nothing. The second theorem
carries the invariant of `ReconcilerProofs` over by `SameLoop`: no world a run records
has lost the data of a database that is wanted, so no verdict says it has.

### The replicated log

`LogProofs` proves `OneLeader`: `Spec => []OneLeaderATerm`, for any finite set
of replicas and any clients and bounds (`ReplogAssumption`). The invariant,
`Voting`, says that a vote said yes to is spent (its voter has moved on or still
holds it), so a replica says yes once a term; that a candidate counts only votes
given to it in its term; that a term led was won with a majority's yes, its
leader among it; and that two majorities meet. Every handler is shown to be
`Fair`, which is all that `FairStepKeepsVoting` asks of a step; most are `Quiet`,
they take a term and change nothing that votes are about.

It proves `NobodyStandsAlone` besides: `Spec => StandsOnMajority`. A replica keeps the
pre-votes it has counted when it takes a later term, and a yes may be late. But what
it has counted are yeses about the last term it asked about (`PreVoting`), it counts
a yes only when that is the term after its own, and then all are about that term.

On top of `Voting` it proves what all the rest of the safety comes to:
`LogMatching` (`[]LogsMatch`), `CommittedIsForGood` (`[]CommittedEntriesHold`),
`LeaderCompleteness` (`[]LeadersHoldWhatIsCommitted`) and `AppliedOnceInOrder`
(`[]Linearizable`). Whether an entry is safe depends on what replicas held and have
since overwritten, which no state remembers. So the invariant, `HasHistory`, says
there is a `History`: `lines`, the log of each term's leader as far as it ever got,
and `held`, which replica held which entry of a term while it was in that term. Its
parts:

- `Logging`: a log is, up to an entry of a term, that term's line (`Follows`); a copy
  on the wire is a stretch of its term's line; a leader's log is the line of its term.
  Log matching is then immediate.
- `Choosing`: an entry is `Chosen` when a majority held it. What a replica held it
  still holds, a candidate has what its voters held, and a line has what was held by
  those who elected its leader, each unless an earlier line missed it. So no line
  misses a chosen entry (`ChosenIsForGood`): the least term to miss it was won by a
  majority, one of which had held the entry. Replicas, and the copies that tell them,
  commit only what is chosen (`CommitsSound`), and the guard that a leader counts
  majorities only for entries of its own term is what makes that so.
- `Telling`: a line has a command once, and when a command is asked for, all that
  were answered before it stand in a chosen part of a line that it is not in.

A step is accounted for by what it adds to `lines` and `held`: each handler is shown
to do what `Does` says, mostly from `Typed` and the handler's own text, and
`DoesKeepsHistory` shows once that such a step keeps every part.

### The invariants of a trace

`EngineProofs` proves, of `Invariants`, `FirstBreachesAreReported`:
`CheckingSpec => []ReportsEveryFirstBreach`, for any list of promises, any trace and any end
of time. The property speaks of the whole trace (`Unkept`, the steps at which a promise
was broken, and `Standing`, the one whose state stood when it ran out); a watch has only
the stretch that is open. The invariant, `Judged`, says what each watch stands for
(`Stands`): nothing is broken and the last state is a good one (`Untroubled`); or one
stretch is open, the only one, and not too long yet (`Open`); or a step broke the promise
before any other and nothing later can mend that (`Settled`). What is reported at the
end is then read off the watches, a stretch still open having run out with the trace.

### The fork

`SmallSystemsProofs` proves, for any scripts, delays, streams, seeds and end of time:

- `AForkIsTheRun`: `Spec => []ForkIsTheRunUpToItsInstant`
- `AForkToItself`: `Spec => []ForkToItselfChangesNothing`

Both compare a run with one that is simulated after it, and what the first one went
through is in `course`. A step of the loop is a function of the moment it begins at
and of the streams: `After` says what a moment is followed by, `Reads` which place of
which stream was looked at, and `Follows` that a list of moments is a walk of these
steps. The invariant keeps the second run in lockstep with the first. Up to the
instant of the fork it stands beside a moment of the first (`Beside`), having gone
through the same ones (`Retraced`), and the first has that moment in its course; a fork
to another seed leaves that walk when time passes its instant (`Overtaken`), and one to
the same seed never does, since reseeding with the seed the generators are of moves no
place. That the first run is such a walk, from the beginning to where nothing is left to
do, is `Led` while it goes and `Went` once it has; what a place of a stream was read as
stays (`Extends`), so that the second run reads the same there. How waits, timers,
letters and the ready set hang together (`Wired`), that a generator has the key of the
run or of the fork (`Keys`), and that what is recorded stays and is no earlier than now
(`Recorded`, `Timely`), make the two logs agree where the moments do.

### The worlds

`SmallSystemsProofs` proves of `Worlds`, for any names, bytes, texts and injective bytes
of numbers:

- `WorldsComeBack`: `\A world \in World : ReadWorld(Snapshot(world)) = Read(world)`
- `TreesAreReadExactly`: `ReadsExactly(node)` for every tree of three levels or more

The first is that nothing a system writes down is lost. The second is that nothing else
is let through: a tree that is read is to the byte the tree of the world read, and one
that is refused is refused at the first place, by the order of the names, that no world
has. `ValueReadsBack` and `ValueReadsExactly` say both of a value and its bytes, tag by
tag; `ResourceReadsBack` and `ResourceIs` of a resource and its fields; `GatheredIs` is
what going through a map in the order of its names comes to. These are the two halves
of `WorldsReadBack` that speak of the tree; that the tree which comes out of the store
is the one that went in (`HeldReadsBack`) is model-checked.

### The command line

`EngineProofs` proves, and `ErrorsProofs` the last, of `CommandLine`, for any runs, schedules, seeds, workers and
bounds under its named assumptions:

- `SweepsSayWhatTheSeedsSay`: `CommandSpec => []SaidBySeeds`
- `ReprosAreOfTheirOwnRun`: `CommandSpec => []ReprosExpectTheirOwnRun`
- `PagesReadBack`: `CommandSpec => []ReadsBackWhatWasWritten`
- `AnswersAreTrue`: `CommandSpec => []AnswersAreOfThePage`
- `ErrorsPointRight`: `CommandSpec => []ErrorsNameTheFirstWrongLine`

The first is about the shares of the workers: every seed is in one share
(`OneShare`, `EverySeedIsShared`), and the place a worker is at is the next of its
own (`NextOfShare`). `Sweeping` says of each worker that it went through its share up
to there and found what breaks in it, in order (`GoneThrough`), and why it stopped
(`Halted`); of the caller, that it comes back with what all of them say
(`Concluded`). A worker that could not finish has gone through every lower seed of its
share, so the lowest such seed of all is the lowest of those reported. `Commanding`
adds that what is remembered of the runs is how the seeds go (`Learnt`), which is what
the end of the process is read from. The second theorem needs no more than that: the
last run a reduction makes is of the faults it writes down.

The third has two halves. First, every form is read back as what it was written from:
`RecordingReadsBack`, `TraceReadsBack`, `ScheduleReadsBack` and `ReproReadsBack`, for
any value of the form. What is hard there is where a line is split: a reader splits at
the first separator, and a message or a reason may hold anything, a separator
included. `SplitsBetween` says that the first one is the writer's when none begins
inside what stands before it, and that is so since numbers, instants, nodes, the
words of a fault and of a fork are none of the separators. Second, the invariant `Kept`:
each page was last written in its form and, if by this build, tells what a run of this
build came to (`Told`); what is remembered of a run is what such a run may come to
(`WellKnown`); nothing remembered comes out otherwise (`Grown`). A command that reads
such a page reads the value back, asks for the run the value names, and finds what the
page says; for a trace that forked, since the run it forked from is made before it.

The fourth is the other way round, and of any text, whatever befell the file it is in:
what a reader lets through is what the writer writes of the value read
(`RecordingSpelt`, `TraceSpelt`), but for zeros before a number, which the readers of
numbers take and no writer puts (`SpellsLine`). Here a line that is split and joined
again is the line (`Rejoined`), so nothing after the last separator is lost, and no
line is passed over. A command that then runs the page again and finds no difference
tells of that run (`LoadedIsATrace`), and what it remembers of it is the page; the
replay is the same for recordings. Nothing remembered is forgotten before the answer
is given, since the runs a command makes only add to it (`Grown`).

The fifth needs to know what a page that came to harm looks like. `Befallen` says it:
a page is as it was written, or there is a first line that is not (`FirstUnlike`), and
beyond that line one of three things (`MarredAt`): that line alone is spelt otherwise
(`Misspelt`), the text ends there (`CutShort`), or the line beside it stands in its
place and none from before it stands after (`Displaced`, a line lost, repeated or
swapped). `HarmedAreMarred` and `BeginningsAreMarred` show that every mishap the model
has, and running out of room, leaves one of the three. Then, form by form, for any page and any
text so marred: every line before the first wrong one is read as what it was written
for, and the wrong one is not, or is read as something else, which the run made of the
page finds (`RecordingBlamed`, `TraceBlamed`, `ScheduleBlamed`, `ReproBlamed`). The
hard cases are lines that read well in another's place: steps count themselves, so a
step moved is refused where it stands; two equal lines swapped are no harm at all; a
header or a fork line is told from a record by its first word. In a repro the lines of
the nested schedule are shifted by two (`MarredBelow`), and an expectation that became
another is not held against the page before the run is made (`Unexpected`). Where the
heading no longer says the same run, only complaints about the heading itself are
covered, as in the property.

### Only model-checked

Safety: of `StateStore` all four properties, since what they speak of is computed by
RECURSIVE operators over trees.
`Worlds` is checked through it as well.

Liveness (`WaitsAreAnswered`, `Converges`, `HoldsUp`, `Ends`, `RunsEnd`) is out of the
prover's reach and stays with TLC, as is all that RECURSIVE operators compute. For
`Ends` the measure that every candidate comes down in is proved; that a measure which
comes down ends is not said of the behaviours. Of `HoldsUp` it is proved that the
verdict is never that data was lost; that the passes are enough to converge is checked.

## 5. Plan

1. A run of `Replog` with three terms from a state with a leader.
2. That `Network` is an instance of the waits `Executor` has proved things about.
3. `Replog` by the clock: the drawn timeouts, and under them that every command
   is committed.

## 6. Not modelled, and why

Of `systems/replog.rs` the timing: rearming, periods and the end of a run. With
timers that may run out at any moment elections may split for ever, so the
promise that every command is committed has no fairness under which it holds in
`Replog`. The worlds it records are only read by promises which the model states of
the replicas themselves.

The wording of answers and of errors, and the layout of listings. The hash and
the generator are libraries: a hash is taken as injective, what stands in a
generator's stream is any value. `saturating_duration_since` keeps no state.
