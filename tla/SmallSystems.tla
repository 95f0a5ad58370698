------------------------------ MODULE SmallSystems ------------------------------
(***************************************************************************)
(* The two systems that take no faults, ring.rs and pingpong.rs, with the  *)
(* generators they draw from (rng.rs) and the fork of a run of the ring    *)
(* (fork.rs).  A behaviour is a run, and then for the ring a second run of *)
(* the same seed that draws from another seed once it is past the instant  *)
(* of one of the first one's steps.                                        *)
(*                                                                         *)
(* A node is a script of waits and sends, polled by the loop of            *)
(* Executor.tla: the lowest ready task first, then the earliest event.  A  *)
(* draw is any value, but what stands at one place of one key's stream is  *)
(* there for good: both runs read the same streams.  A draw takes one      *)
(* place, whatever it is of.                                               *)
(***************************************************************************)
EXTENDS VirtualTime, SequencesExt, FiniteSetsExt

CONSTANTS
    Nodes,       \* how many nodes there are in the ring
    Rounds,      \* how many times round the ring each goes
    Thinking,    \* how long a node may think
    Latency,     \* how long a message may take
    RunSeed,     \* the seed of the run
    ForkSeeds    \* the seeds it may be forked to

\* Nothing takes no time at all (THINKING, MIN_DELAY, DEFAULT_MIN_LATENCY).
ASSUME SmallSystemsAssumption ==
    /\ Nodes \in Nat \ {0} /\ Rounds \in Nat \ {0}
    /\ Thinking \subseteq Nat \ {0} /\ Latency \subseteq Nat \ {0}

VARIABLES
    system,    \* which of the two is run
    fork,      \* nothing in the first run; in the second, <<[at, seed]>>
    drawn,     \* what stands at the places looked at so far, of each key's stream
    rngs,      \* the wire's generator, which is number 0, and one a node
    now,
    queue,     \* the events to come, and which node each wakes
    nextSeq,
    ready,
    polling,   \* the node inside `poll`, 0 between two polls
    pc,        \* how far each node is in its script
    inbox,     \* what is on its way to each node or has landed
    nextArrival,
    waiting,   \* the nodes registered in their inboxes
    armed,     \* the event each node's wait holds, if any
    log,       \* what was recorded
    course,    \* no part of the code: all there was before each step of the loop
    first      \* the log and the course of the first run, once it is over

engine == <<now, queue, nextSeq, ready, polling>>
wires == <<inbox, nextArrival, waiting, armed>>
vars == <<system, fork, drawn, rngs, engine, pc, wires, log, course, first>>

Node == 1 .. (IF system = "ring" THEN Nodes ELSE 2)

\* `node`: think, speak, listen, write down what is now known, and go round again.
RingScript == FlattenSeq([r \in 1 .. Rounds |-> <<"think", "speak", "hear", "note">>])

\* `opening` and `answering`.
ExchangeScript(n) ==
    IF n = 1 THEN <<"think", "speak", "note", "hear", "note">>
    ELSE <<"hear", "note", "think", "speak", "note">>

Script(n) == IF system = "ring" THEN RingScript ELSE ExchangeScript(n)

\* The one a node speaks to: the next of the ring; in the exchange, the other.
Neighbour(n) == IF n = Max(Node) THEN 1 ELSE n + 1

Op(n) == IF pc[n] > Len(Script(n)) THEN "done" ELSE Script(n)[pc[n]]

--------------------------------------------------------------------------------
(* Generators. *)

\* A seed hands out a key for each generator, in the order they are made in.
Key(s, i) == <<s, i>>

NoKey == <<>>

\* A plausible slip: the generators get their second keys the other way round.
InReverse(s, i) == Key(s, Max(Node) - i)

\* `ForkedRng::new`: the key to change to, from the fork's seed, in the same order.
KeyAfter(s, i) == Key(s, i)

\* The generators a run begins with (`observe`, `run`).
Generators(forked) ==
    [i \in {0} \cup Node |->
       [key |-> Key(RunSeed, i), place |-> 0,
        after |-> IF forked = <<>> THEN NoKey ELSE KeyAfter(forked[1].seed, i)]]

\* A plausible slip: the fork takes hold an instant early.
At(forked) == now >= forked[1].at

\* A fork takes hold strictly after its instant.
Past(forked) == now > forked[1].at

\* A plausible slip: a new key is read from its beginning.
FromTheStart(rng) == [key |-> rng.after, place |-> 0, after |-> NoKey]

\* `SeededRng::reseeded`: the key changes and the place in the stream does not.
Reseeded(rng) == [key |-> rng.after, place |-> rng.place, after |-> NoKey]

\* `ForkedRng::drawing`.
Drawing(rng) == IF rng.after # NoKey /\ Past(fork) THEN Reseeded(rng) ELSE rng

\* What may be drawn a few places on, of these values.
MayDraw(rng, skipped, values) ==
    IF <<rng.key, rng.place + skipped>> \in DOMAIN drawn
    THEN {drawn[<<rng.key, rng.place + skipped>>]} ELSE values

\* Generator i draws a value, and `around` it what decides nothing: of the odds of a link
\* that never loses and never repeats.
Draws(i, before, behind, value, values) ==
    LET rng == Drawing(rngs[i])
        at == <<rng.key, rng.place + before>>
    IN /\ value \in MayDraw(rng, before, values)
       /\ drawn' = [p \in DOMAIN drawn \cup {at} |-> IF p = at THEN value ELSE drawn[p]]
       /\ rngs' = [rngs EXCEPT ![i] = [rng EXCEPT !.place = @ + before + 1 + behind]]

--------------------------------------------------------------------------------
(* The loop. *)

Idle == polling = 0 /\ ready = {}

Take ==
    /\ polling = 0 /\ ready # {}
    /\ polling' = Min(ready) /\ ready' = ready \ {Min(ready)}
    /\ UNCHANGED <<drawn, rngs, now, queue, nextSeq, pc, wires, log>>

Advance ==
    /\ Idle /\ queue # {}
    /\ LET e == CHOOSE e \in queue : IsEarliest(e, queue) IN
       /\ now' = e.at /\ queue' = queue \ {e} /\ ready' = {e.waker}
    /\ UNCHANGED <<drawn, rngs, nextSeq, polling, pc, wires, log>>

Pends == polling' = 0

--------------------------------------------------------------------------------
(* A node, polled. *)

\* A delay is drawn, and slept.
Think(n) ==
    /\ polling = n /\ Op(n) = "think" /\ armed[n] = {}
    /\ \E d \in Thinking :
          LET e == [at |-> SaturatingAdd(now, d), seq |-> nextSeq, waker |-> n] IN
          /\ Draws(n, 0, 0, d, Thinking)
          /\ queue' = queue \cup {e} /\ nextSeq' = nextSeq + 1
          /\ armed' = [armed EXCEPT ![n] = {e}]
    /\ Pends
    /\ UNCHANGED <<now, ready, pc, inbox, nextArrival, waiting, log>>

\* The delay is over: only its own event wakes a node that thinks.
Thought(n) ==
    /\ polling = n /\ Op(n) = "think" /\ armed[n] # {}
    /\ armed' = [armed EXCEPT ![n] = {}]
    /\ pc' = [pc EXCEPT ![n] = @ + 1]
    /\ UNCHANGED <<drawn, rngs, engine, inbox, nextArrival, waiting, log>>

\* A plausible slip: a message on its way is left for the timers to see to.
LeftToTimers(to) == ready

\* Whoever waits there is woken, since no timer is aimed at what has only now left.
WokenBySend(to) == ready \cup (waiting \cap {to})

\* `send`: the wire draws a loss, the delay and a duplicate, in this order; of the first and
\* the last it has no doubt.
Speak(n) ==
    /\ polling = n /\ Op(n) = "speak"
    /\ \E d \in Latency :
          LET to == Neighbour(n) IN
          /\ Draws(0, 1, 1, d, Latency)
          /\ inbox' = [inbox EXCEPT ![to] = @ \cup
                         {[at |-> SaturatingAdd(now, d), seq |-> nextArrival, from |-> n]}]
          /\ ready' = WokenBySend(to)
          /\ waiting' = waiting \ {to}
    /\ nextArrival' = nextArrival + 1
    /\ pc' = [pc EXCEPT ![n] = @ + 1]
    /\ UNCHANGED <<now, queue, nextSeq, polling, armed, log>>

Earliest(n) == CHOOSE m \in inbox[n] : IsEarliest(m, inbox[n])

Landed(n) == inbox[n] # {} /\ Earliest(n).at <= now

\* `recv` takes the earliest message that has landed.  A node hears from one neighbour only,
\* and what it heard is in what it writes down next.
Hear(n) ==
    /\ polling = n /\ Op(n) = "hear" /\ Landed(n)
    /\ inbox' = [inbox EXCEPT ![n] = @ \ {Earliest(n)}]
    /\ queue' = queue \ armed[n]
    /\ armed' = [armed EXCEPT ![n] = {}]
    /\ waiting' = waiting \ {n}
    /\ pc' = [pc EXCEPT ![n] = @ + 1]
    /\ UNCHANGED <<drawn, rngs, now, nextSeq, ready, polling, nextArrival, log>>

\* The timer a wait holds is aimed at the first message to land.
Aimed(n) == armed[n] # {} /\ inbox[n] # {} /\ \A e \in armed[n] : e.at = Earliest(n).at

\* Nothing has landed: the wait is aimed at what will, if anything is on its way, and
\* registered in the inbox for what is not.
Listen(n) ==
    /\ polling = n /\ Op(n) = "hear" /\ ~ Landed(n)
    /\ LET aim == IF inbox[n] = {} THEN {}
                  ELSE {[at |-> Earliest(n).at, seq |-> nextSeq, waker |-> n]} IN
       IF Aimed(n) THEN UNCHANGED <<queue, nextSeq, armed>>
       ELSE /\ queue' = (queue \ armed[n]) \cup aim
            /\ nextSeq' = nextSeq + Cardinality(aim)
            /\ armed' = [armed EXCEPT ![n] = aim]
    /\ waiting' = waiting \cup {n}
    /\ Pends
    /\ UNCHANGED <<drawn, rngs, now, ready, pc, inbox, nextArrival, log>>

\* What a node of the ring knows, as often as it heard: `observed`.
Round(n) == Cardinality({i \in DOMAIN log : log[i].of = n}) + 1

\* The world as the last step left it, with what this node knows in it.
WorldAfter(n) ==
    LET last == IF log = <<>> THEN [m \in {} |-> 0] ELSE log[Len(log)].world
    IN [m \in DOMAIN last \cup {n} |->
          IF m = n THEN [round |-> Round(n), heard |-> now] ELSE last[m]]

\* `Recorder::record`, or a step of the ring: a message of one line, by the clock.
Note(n) ==
    /\ polling = n /\ Op(n) = "note"
    /\ log' = Append(log, IF system = "ring"
                          THEN [at |-> now, of |-> n, line |-> Round(n), world |-> WorldAfter(n)]
                          ELSE [at |-> now, of |-> n, line |-> pc[n], world |-> <<>>])
    /\ pc' = [pc EXCEPT ![n] = @ + 1]
    /\ UNCHANGED <<drawn, rngs, engine, wires>>

\* The task finishes.
Finish(n) ==
    /\ polling = n /\ Op(n) = "done" /\ Pends
    /\ UNCHANGED <<drawn, rngs, now, queue, nextSeq, ready, pc, wires, log>>

--------------------------------------------------------------------------------
Ran == Idle /\ \A n \in Node : Op(n) = "done"

\* All there is of a run but what a fork has yet to change.
Moment ==
    [now |-> now, queue |-> queue, nextSeq |-> nextSeq, ready |-> ready, polling |-> polling,
     pc |-> pc, inbox |-> inbox, nextArrival |-> nextArrival, waiting |-> waiting,
     armed |-> armed, log |-> log,
     rngs |-> [i \in DOMAIN rngs |-> [key |-> rngs[i].key, place |-> rngs[i].place]]]

NotYet == [log |-> <<>>, course |-> <<>>]

\* `fork` takes its instant from a step of the trace, and `forked` runs the seed again.
ForkAt(i, s) ==
    /\ Ran /\ system = "ring" /\ fork = <<>>
    /\ i \in DOMAIN log
    /\ first' = [log |-> log, course |-> Append(course, Moment)]
    /\ fork' = <<[at |-> log[i].at, seed |-> s]>>
    /\ rngs' = Generators(fork')
    /\ now' = 0 /\ queue' = {} /\ nextSeq' = 0 /\ ready' = Node /\ polling' = 0
    /\ pc' = [n \in Node |-> 1]
    /\ inbox' = [n \in Node |-> {}] /\ nextArrival' = 0 /\ waiting' = {}
    /\ armed' = [n \in Node |-> {}]
    /\ log' = <<>> /\ course' = <<>>
    /\ UNCHANGED <<system, drawn>>

Init ==
    /\ system \in {"ring", "pingpong"}
    /\ fork = <<>> /\ drawn = <<>>
    /\ rngs = Generators(<<>>)
    /\ now = 0 /\ queue = {} /\ nextSeq = 0 /\ ready = Node /\ polling = 0
    /\ pc = [n \in Node |-> 1]
    /\ inbox = [n \in Node |-> {}] /\ nextArrival = 0 /\ waiting = {}
    /\ armed = [n \in Node |-> {}]
    /\ log = <<>> /\ course = <<>> /\ first = NotYet

Step ==
    \/ Take \/ Advance
    \/ \E n \in Node :
          Think(n) \/ Thought(n) \/ Speak(n) \/ Hear(n) \/ Listen(n) \/ Note(n) \/ Finish(n)

Run ==
    /\ Step
    /\ course' = Append(course, Moment)
    /\ UNCHANGED <<system, fork, first>>

Next == Run \/ \E i \in DOMAIN log, s \in ForkSeeds : ForkAt(i, s)

\* The loop goes on until it has nothing to do.
Spec == Init /\ [][Next]_vars /\ WF_vars(Run)

--------------------------------------------------------------------------------
\* Up to its instant a fork "*is* the run" (fork.rs): before each step of the loop no later
\* than that there was in the forked run what there was in the first, the messages on their
\* way, the waits to come and the places in the streams as well as what was recorded.  A draw
\* at the very instant still comes from the run's own seed, so what is decided there is
\* decided as before.
ForkIsTheRunUpToItsInstant ==
    fork # <<>> =>
        /\ \A i \in DOMAIN course : course[i].now <= fork[1].at => course[i] = first.course[i]
        /\ \A i \in DOMAIN log : log[i].at <= fork[1].at => log[i] = first.log[i]
        /\ now > fork[1].at =>
              \A i \in DOMAIN first.log :
                 first.log[i].at <= fork[1].at => i \in DOMAIN log /\ log[i] = first.log[i]

\* A fork back to the seed the run had is the run again, draw for draw (`forked`): no
\* stream is read at another place, nor by another generator.
ForkToItselfChangesNothing ==
    fork # <<>> /\ fork[1].seed = RunSeed =>
        /\ IsPrefix(log, first.log) /\ IsPrefix(course, first.course)
        /\ Ran => log = first.log

\* Nothing is lost and nobody asks twice, so every run comes to its end with every node
\* done, whatever it draws: no one is left waiting for what is never coming (pingpong.rs).
RunsEnd == []<>Ran
================================================================================
