--------------------------- MODULE SmallSystemsProofs ---------------------------
(***************************************************************************)
(* A forked run is the run it forks from, up to the instant of the fork,   *)
(* for any streams, any instant and either system.  A step is said by what *)
(* there is and by what the generators draw, so two runs of the same seed  *)
(* walk beside each other until one of them draws from another stream; a   *)
(* forked generator does so only past the instant of the fork, and what    *)
(* was recorded before stands.                                             *)
(*                                                                         *)
(* What such a system writes down of itself at a step, its world, comes    *)
(* back from the tree it is kept as, and no other tree is taken for one.   *)
(***************************************************************************)
EXTENDS SmallSystems, Worlds, FiniteSetTheorems, SequenceTheorems, WellFoundedInduction, TLAPS

\* The nodes of a system, what each does and whom it speaks to, of any system.
NodesOf(sys) == 1 .. (IF sys = "ring" THEN Nodes ELSE 2)

ScriptOf(sys, n) == IF sys = "ring" THEN RingScript ELSE ExchangeScript(n)

NeighbourOf(sys, n) == IF n = Max(NodesOf(sys)) THEN 1 ELSE n + 1

OpAt(sys, s, n) == IF s.pc[n] > Len(ScriptOf(sys, n)) THEN "done" ELSE ScriptOf(sys, n)[s.pc[n]]

\* The first message of an inbox, and whether it has landed.
FirstAt(s, n) == CHOOSE m \in s.inbox[n] : IsEarliest(m, s.inbox[n])
LandedAt(s, n) == s.inbox[n] # {} /\ FirstAt(s, n).at <= s.now
AimedAt(s, n) == s.armed[n] # {} /\ s.inbox[n] # {} /\ \A e \in s.armed[n] : e.at = FirstAt(s, n).at

\* Where generator i reads next, and the generators after it did.
PlaceAt(s, i, before) == <<s.rngs[i].key, s.rngs[i].place + before>>
ReadOn(s, i, before, behind) ==
    [s.rngs EXCEPT ![i] = [key |-> s.rngs[i].key,
                           place |-> s.rngs[i].place + before + 1 + behind]]

\* What a node of the ring writes down.
RoundAt(s, n) == Cardinality({i \in DOMAIN s.log : s.log[i].of = n}) + 1
WorldAt(s, n) ==
    LET last == IF s.log = <<>> THEN [m \in {} |-> 0] ELSE s.log[Len(s.log)].world
    IN [m \in DOMAIN last \cup {n} |->
          IF m = n THEN [round |-> RoundAt(s, n), heard |-> s.now] ELSE last[m]]
EntryAt(sys, s, n) ==
    IF sys = "ring" THEN [at |-> s.now, of |-> n, line |-> RoundAt(s, n), world |-> WorldAt(s, n)]
    ELSE [at |-> s.now, of |-> n, line |-> s.pc[n], world |-> <<>>]

\* What there is after each step, of what there was.
AfterTake(s) ==
    [now |-> s.now, queue |-> s.queue, nextSeq |-> s.nextSeq, ready |-> s.ready \ {Min(s.ready)},
     polling |-> Min(s.ready), pc |-> s.pc, inbox |-> s.inbox, nextArrival |-> s.nextArrival,
     waiting |-> s.waiting, armed |-> s.armed, log |-> s.log, rngs |-> s.rngs]

\* The event the clock moves to.
NextAt(s) == CHOOSE e \in s.queue : IsEarliest(e, s.queue)

AfterAdvance(s) ==
    [now |-> NextAt(s).at, queue |-> s.queue \ {NextAt(s)}, nextSeq |-> s.nextSeq,
     ready |-> {NextAt(s).waker}, polling |-> s.polling, pc |-> s.pc, inbox |-> s.inbox,
     nextArrival |-> s.nextArrival, waiting |-> s.waiting, armed |-> s.armed, log |-> s.log,
     rngs |-> s.rngs]

ThoughtOf(s, n, d) == [at |-> SaturatingAdd(s.now, d), seq |-> s.nextSeq, waker |-> n]

AfterThink(s, n, d) ==
    [now |-> s.now, queue |-> s.queue \cup {ThoughtOf(s, n, d)}, nextSeq |-> s.nextSeq + 1,
     ready |-> s.ready, polling |-> 0, pc |-> s.pc, inbox |-> s.inbox,
     nextArrival |-> s.nextArrival, waiting |-> s.waiting,
     armed |-> [s.armed EXCEPT ![n] = {ThoughtOf(s, n, d)}], log |-> s.log,
     rngs |-> ReadOn(s, n, 0, 0)]

AfterThought(s, n) ==
    [now |-> s.now, queue |-> s.queue, nextSeq |-> s.nextSeq, ready |-> s.ready,
     polling |-> s.polling, pc |-> [s.pc EXCEPT ![n] = @ + 1], inbox |-> s.inbox,
     nextArrival |-> s.nextArrival, waiting |-> s.waiting, armed |-> [s.armed EXCEPT ![n] = {}],
     log |-> s.log, rngs |-> s.rngs]

SpokenAt(s, n, d) == [at |-> SaturatingAdd(s.now, d), seq |-> s.nextArrival, from |-> n]

AfterSpeak(s, n, to, d) ==
    [now |-> s.now, queue |-> s.queue, nextSeq |-> s.nextSeq,
     ready |-> s.ready \cup (s.waiting \cap {to}), polling |-> s.polling,
     pc |-> [s.pc EXCEPT ![n] = @ + 1],
     inbox |-> [s.inbox EXCEPT ![to] = @ \cup {SpokenAt(s, n, d)}],
     nextArrival |-> s.nextArrival + 1, waiting |-> s.waiting \ {to}, armed |-> s.armed,
     log |-> s.log, rngs |-> ReadOn(s, 0, 1, 1)]

AfterHear(s, n) ==
    [now |-> s.now, queue |-> s.queue \ s.armed[n], nextSeq |-> s.nextSeq, ready |-> s.ready,
     polling |-> s.polling, pc |-> [s.pc EXCEPT ![n] = @ + 1],
     inbox |-> [s.inbox EXCEPT ![n] = @ \ {FirstAt(s, n)}], nextArrival |-> s.nextArrival,
     waiting |-> s.waiting \ {n}, armed |-> [s.armed EXCEPT ![n] = {}], log |-> s.log,
     rngs |-> s.rngs]

AimAt(s, n) ==
    IF s.inbox[n] = {} THEN {}
    ELSE {[at |-> FirstAt(s, n).at, seq |-> s.nextSeq, waker |-> n]}

AfterListen(s, n) ==
    [now |-> s.now,
     queue |-> IF AimedAt(s, n) THEN s.queue ELSE (s.queue \ s.armed[n]) \cup AimAt(s, n),
     nextSeq |-> IF AimedAt(s, n) THEN s.nextSeq ELSE s.nextSeq + Cardinality(AimAt(s, n)),
     ready |-> s.ready, polling |-> 0, pc |-> s.pc, inbox |-> s.inbox,
     nextArrival |-> s.nextArrival, waiting |-> s.waiting \cup {n},
     armed |-> IF AimedAt(s, n) THEN s.armed ELSE [s.armed EXCEPT ![n] = AimAt(s, n)],
     log |-> s.log, rngs |-> s.rngs]

AfterNote(sys, s, n) ==
    [now |-> s.now, queue |-> s.queue, nextSeq |-> s.nextSeq, ready |-> s.ready,
     polling |-> s.polling, pc |-> [s.pc EXCEPT ![n] = @ + 1], inbox |-> s.inbox,
     nextArrival |-> s.nextArrival, waiting |-> s.waiting, armed |-> s.armed,
     log |-> Append(s.log, EntryAt(sys, s, n)), rngs |-> s.rngs]

AfterFinish(s) ==
    [now |-> s.now, queue |-> s.queue, nextSeq |-> s.nextSeq, ready |-> s.ready, polling |-> 0,
     pc |-> s.pc, inbox |-> s.inbox, nextArrival |-> s.nextArrival, waiting |-> s.waiting,
     armed |-> s.armed, log |-> s.log, rngs |-> s.rngs]

\* The step a run takes is said by what there is and by the streams.
After(sys, s, streams) ==
    LET n == s.polling
        op == OpAt(sys, s, n)
    IN IF n = 0 THEN (IF s.ready # {} THEN AfterTake(s) ELSE AfterAdvance(s))
       ELSE CASE op = "think" /\ s.armed[n] = {} -> AfterThink(s, n, streams[PlaceAt(s, n, 0)])
              [] op = "think" /\ s.armed[n] # {} -> AfterThought(s, n)
              [] op = "speak" -> AfterSpeak(s, n, NeighbourOf(sys, n), streams[PlaceAt(s, 0, 1)])
              [] op = "hear" -> IF LandedAt(s, n) THEN AfterHear(s, n) ELSE AfterListen(s, n)
              [] op = "note" -> AfterNote(sys, s, n)
              [] OTHER -> AfterFinish(s)

\* The places of the streams it looks at.
Reads(sys, s) ==
    IF s.polling = 0 THEN {}
    ELSE CASE OpAt(sys, s, s.polling) = "think" /\ s.armed[s.polling] = {} -> {PlaceAt(s, s.polling, 0)}
           [] OpAt(sys, s, s.polling) = "speak" -> {PlaceAt(s, 0, 1)}
           [] OTHER -> {}

\* A run is over where nothing is ready and nothing is to come.
Over(s) == s.polling = 0 /\ s.ready = {} /\ s.queue = {}

\* One moment leads to the other, and the streams say so.
Follows(sys, s, t, streams) ==
    /\ ~ Over(s)
    /\ Reads(sys, s) \subseteq DOMAIN streams
    /\ t = After(sys, s, streams)

\* Waits for the clock, messages, and what there is of them.
Event == [at : Instant, seq : Nat, waker : Node]
Message == [at : Instant, seq : Nat, from : Node]

Types ==
    /\ now \in Instant /\ nextSeq \in Nat /\ nextArrival \in Nat
    /\ queue \in SUBSET Event /\ armed \in [Node -> SUBSET Event]
    /\ inbox \in [Node -> SUBSET Message]
    /\ ready \in SUBSET Node /\ polling \in {0} \cup Node /\ waiting \in SUBSET Node
    /\ DOMAIN pc = Node

\* What is in the queue is held by the wait it is to wake, no node holds two, and none is
\* overdue.
Dues == \A e \in queue : e.at >= now /\ e \in armed[e.waker]
Held == \A n \in Node : \A e \in armed[n] : e.waker = n /\ e.seq < nextSeq /\ armed[n] = {e}
Numbered == \A n \in Node : \A m \in Node : \A e \in armed[n] : \A f \in armed[m] : e.seq = f.seq => e = f

\* Only who thinks or listens waits for the clock, only who listens waits in an inbox, and
\* who thinks is not disturbed.
Placed ==
    \A n \in Node :
        /\ armed[n] # {} => Op(n) \in {"think", "hear"}
        /\ n \in waiting => Op(n) = "hear"
        /\ Op(n) = "think" /\ armed[n] \cap queue # {} => n \notin ready /\ polling # n

\* No two messages of an inbox have the same number.
Letters ==
    \A n \in Node : \A m \in inbox[n] :
        m.seq < nextArrival /\ \A k \in inbox[n] : m.seq = k.seq => m = k

\* Waits and messages are as they should be.
Wired == Types /\ Dues /\ Held /\ Numbered /\ Placed /\ Letters /\ polling \notin ready

\* A generator has the key of the run, and that of the fork to come, if there is one; past the
\* instant of the fork it may have the key of the fork.
Keys ==
    /\ DOMAIN rngs = {0} \cup Node
    /\ \A i \in {0} \cup Node :
          /\ rngs[i] = [key |-> rngs[i].key, place |-> rngs[i].place, after |-> rngs[i].after]
          /\ \/ /\ rngs[i].key = Key(RunSeed, i)
                /\ rngs[i].after = (IF fork = <<>> THEN NoKey ELSE Key(fork[1].seed, i))
             \/ /\ fork # <<>> /\ Past(fork)
                /\ rngs[i].key = Key(fork[1].seed, i) /\ rngs[i].after = NoKey

\* What is still to be said of the fork: where it takes hold.
Forked == fork = <<>> \/ \E at \in Instant : \E s \in ForkSeeds : fork = <<[at |-> at, seed |-> s]>>

\* What had been recorded at a moment stays, and what is recorded later is no earlier.
Recorded(m, entries) ==
    /\ \A j \in DOMAIN m.log : j \in DOMAIN entries /\ m.log[j] = entries[j]
    /\ \A j \in DOMAIN entries : j \notin DOMAIN m.log => entries[j].at >= m.now

IsSeq(s) == \E S : s \in Seq(S)

Sequences == IsSeq(log) /\ IsSeq(course) /\ IsSeq(first.log) /\ IsSeq(first.course)

\* What was recorded is no later than now, and stands.
Timely ==
    /\ \A j \in DOMAIN log : log[j].at \in Instant
    /\ \A i \in DOMAIN course : course[i].now \in Instant /\ course[i].now <= now
                              /\ Recorded(course[i], log)

\* Where a run of the system begins.
Begun ==
    [now |-> 0, queue |-> {}, nextSeq |-> 0, ready |-> Node, polling |-> 0,
     pc |-> [n \in Node |-> 1], inbox |-> [n \in Node |-> {}], nextArrival |-> 0,
     waiting |-> {}, armed |-> [n \in Node |-> {}], log |-> <<>>,
     rngs |-> [i \in {0} \cup Node |-> [key |-> Key(RunSeed, i), place |-> 0]]]

\* The first run goes where its streams lead it.
Led ==
    fork = <<>> =>
        /\ Append(course, Moment)[1] = Begun
        /\ \A i \in DOMAIN course : Follows(system, course[i], Append(course, Moment)[i + 1], drawn)

\* And so it went, to its end.
Went ==
    fork # <<>> =>
        /\ Len(first.course) > 0 /\ first.course[1] = Begun
        /\ \A i \in 1 .. Len(first.course) - 1 :
               Follows(system, first.course[i], first.course[i + 1], drawn)
        /\ Over(first.course[Len(first.course)])
        /\ first.course[Len(first.course)].log = first.log
        /\ \A j \in DOMAIN first.log : first.log[j].at \in Instant
        /\ \A i \in DOMAIN first.course :
               first.course[i].now \in Instant /\ Recorded(first.course[i], first.log)

\* The run goes on as the first one did: it is the first, or no fork has taken hold of it yet,
\* or one has that leads nowhere else.
Determined == fork = <<>> \/ ~ Past(fork) \/ fork[1].seed = RunSeed

\* The forked run is where the first one was, after as many steps, as long as it is determined.
Beside ==
    Determined /\ fork # <<>> =>
        Len(course) < Len(first.course) /\ Moment = first.course[Len(course) + 1]

\* And so it was before.
Retraced ==
    fork # <<>> =>
        /\ \A i \in DOMAIN course :
               course[i].now <= fork[1].at \/ fork[1].seed = RunSeed =>
                   i < Len(first.course) /\ course[i] = first.course[i]
        /\ \A j \in DOMAIN log :
               log[j].at <= fork[1].at => j \in DOMAIN first.log /\ log[j] = first.log[j]

\* Once the fork has taken hold, there was a moment past its instant in the first run before
\* which nothing was recorded that is not recorded again.
Overtaken ==
    fork # <<>> /\ Past(fork) =>
        \E i \in DOMAIN first.course :
            /\ first.course[i].now > fork[1].at
            /\ \A j \in DOMAIN first.course[i].log :
                   j \in DOMAIN log /\ log[j] = first.course[i].log[j]

\* The invariant: a step preserves it, and it says of a forked run that it is the run.
IInv ==
    /\ Wired /\ Keys /\ Forked /\ Sequences /\ Timely
    /\ Led /\ Went /\ Beside /\ Retraced /\ Overtaken

\* What the streams said once they say for good.
Extends(streams, more) ==
    \A p \in DOMAIN streams : p \in DOMAIN more /\ more[p] = streams[p]

--------------------------------------------------------------------------------
(* The step a run takes is the one that is due. *)

LEMMA MomentFields ==
    /\ Moment.now = now /\ Moment.queue = queue /\ Moment.nextSeq = nextSeq
    /\ Moment.ready = ready /\ Moment.polling = polling /\ Moment.pc = pc
    /\ Moment.inbox = inbox /\ Moment.nextArrival = nextArrival /\ Moment.waiting = waiting
    /\ Moment.armed = armed /\ Moment.log = log
    /\ Moment.rngs = [i \in DOMAIN rngs |-> [key |-> rngs[i].key, place |-> rngs[i].place]]
BY DEF Moment

LEMMA Views ==
    /\ Node = NodesOf(system)
    /\ \A n : /\ Script(n) = ScriptOf(system, n)
              /\ Neighbour(n) = NeighbourOf(system, n)
              /\ Op(n) = OpAt(system, Moment, n)
              /\ Earliest(n) = FirstAt(Moment, n)
              /\ Landed(n) <=> LandedAt(Moment, n)
              /\ Aimed(n) <=> AimedAt(Moment, n)
              /\ Round(n) = RoundAt(Moment, n)
              /\ WorldAfter(n) = WorldAt(Moment, n)
<1>1. Node = NodesOf(system)
  BY DEF Node, NodesOf
<1>2. ASSUME NEW n
      PROVE  /\ Script(n) = ScriptOf(system, n)
             /\ Neighbour(n) = NeighbourOf(system, n)
             /\ Earliest(n) = FirstAt(Moment, n)
             /\ Round(n) = RoundAt(Moment, n)
  BY <1>1, MomentFields DEF Script, ScriptOf, Neighbour, NeighbourOf, Earliest, FirstAt, Round, RoundAt
<1>3. ASSUME NEW n
      PROVE  /\ Op(n) = OpAt(system, Moment, n)
             /\ Landed(n) <=> LandedAt(Moment, n)
             /\ Aimed(n) <=> AimedAt(Moment, n)
             /\ WorldAfter(n) = WorldAt(Moment, n)
  BY <1>2, MomentFields DEF Op, OpAt, Landed, LandedAt, Aimed, AimedAt, WorldAfter, WorldAt
<1> QED
  BY <1>1, <1>2, <1>3

LEMMA Taken ==
    ASSUME Take
    PROVE  Moment' = AfterTake(Moment)
BY MomentFields, Zenon DEF Take, Moment, AfterTake, wires

LEMMA Advanced ==
    ASSUME Advance
    PROVE  Moment' = AfterAdvance(Moment)
<1>1. NextAt(Moment) = CHOOSE e \in queue : IsEarliest(e, queue)
  BY MomentFields DEF NextAt
<1> QED
  BY <1>1, MomentFields DEF Advance, Moment, AfterAdvance, wires

\* What is drawn stands in its stream for good.
LEMMA DrawsExtend ==
    ASSUME NEW i, NEW before, NEW behind, NEW value, NEW values,
           Draws(i, before, behind, value, values)
    PROVE  Extends(drawn, drawn')
<1> DEFINE at == <<Drawing(rngs[i]).key, Drawing(rngs[i]).place + before>>
<1>1. /\ at \in DOMAIN drawn => value = drawn[at]
      /\ drawn' = [p \in DOMAIN drawn \cup {at} |-> IF p = at THEN value ELSE drawn[p]]
  BY DEF Draws, MayDraw
<1> HIDE DEF at
<1> QED
  BY <1>1 DEF Extends

\* As long as a run is determined, a generator draws from where it stands.
LEMMA DrawsFromWhereItStands ==
    ASSUME Keys, Determined, NEW i \in {0} \cup Node
    PROVE  /\ Drawing(rngs[i]).key = rngs[i].key /\ Drawing(rngs[i]).place = rngs[i].place
           /\ Drawing(rngs[i]) = [key |-> rngs[i].key, place |-> rngs[i].place,
                                  after |-> Drawing(rngs[i]).after]
<1>1. rngs[i] = [key |-> rngs[i].key, place |-> rngs[i].place, after |-> rngs[i].after]
  BY DEF Keys
<1>2. CASE rngs[i].after # NoKey /\ Past(fork)
  <2>1. /\ fork # <<>> => fork[1].seed = RunSeed
        /\ rngs[i].key = Key(RunSeed, i)
        /\ rngs[i].after = (IF fork = <<>> THEN NoKey ELSE Key(fork[1].seed, i))
    BY <1>2 DEF Keys, Determined
  <2>2. rngs[i].after = rngs[i].key
    BY <1>2, <2>1
  <2>4. Drawing(rngs[i]) = [key |-> rngs[i].key, place |-> rngs[i].place, after |-> NoKey]
    BY <1>2, <2>2 DEF Drawing, Reseeded
  <2> QED
    BY <2>4
<1>3. CASE ~ (rngs[i].after # NoKey /\ Past(fork))
  <2>1. Drawing(rngs[i]) = rngs[i]
    BY <1>3 DEF Drawing
  <2> QED
    BY <1>1, <2>1
<1> QED
  BY <1>2, <1>3

LEMMA DrawsAsDue ==
    ASSUME Keys, Determined, NEW i \in {0} \cup Node,
           NEW before, NEW behind, NEW value, NEW values,
           Draws(i, before, behind, value, values)
    PROVE  /\ PlaceAt(Moment, i, before) \in DOMAIN drawn'
           /\ drawn'[PlaceAt(Moment, i, before)] = value
           /\ [j \in DOMAIN rngs' |-> [key |-> rngs'[j].key, place |-> rngs'[j].place]]
                = ReadOn(Moment, i, before, behind)
<1> DEFINE r == Drawing(rngs[i])
           at == PlaceAt(Moment, i, before)
           seen == [j \in DOMAIN rngs |-> [key |-> rngs[j].key, place |-> rngs[j].place]]
<1>1. i \in DOMAIN rngs
  BY DEF Keys
<1>2. Moment.rngs = seen /\ seen[i] = [key |-> rngs[i].key, place |-> rngs[i].place]
  BY <1>1, MomentFields
<1>3. r.key = rngs[i].key /\ r.place = rngs[i].place
      /\ r = [key |-> rngs[i].key, place |-> rngs[i].place, after |-> r.after]
  BY DrawsFromWhereItStands
<1>4. at = <<r.key, r.place + before>>
  BY <1>2, <1>3 DEF PlaceAt
<1>5. /\ drawn' = [p \in DOMAIN drawn \cup {<<r.key, r.place + before>>} |->
                     IF p = <<r.key, r.place + before>> THEN value ELSE drawn[p]]
      /\ rngs' = [rngs EXCEPT ![i] = [r EXCEPT !.place = @ + before + 1 + behind]]
  BY DEF Draws
<1> HIDE DEF at, r
<1>6. at \in DOMAIN drawn' /\ drawn'[at] = value
  BY <1>4, <1>5
<1>7. [r EXCEPT !.place = @ + before + 1 + behind]
        = [key |-> rngs[i].key, place |-> rngs[i].place + before + 1 + behind, after |-> r.after]
  <2>1. ASSUME NEW k, NEW p, NEW a, r = [key |-> k, place |-> p, after |-> a]
        PROVE  [r EXCEPT !.place = @ + before + 1 + behind]
                 = [key |-> k, place |-> p + before + 1 + behind, after |-> a]
    BY <2>1
  <2> QED
    BY <1>3, <2>1
<1>8. ReadOn(Moment, i, before, behind)
        = [seen EXCEPT ![i] = [key |-> rngs[i].key, place |-> rngs[i].place + before + 1 + behind]]
  <2>1. Moment.rngs[i].key = rngs[i].key /\ Moment.rngs[i].place = rngs[i].place
    BY <1>2
  <2> QED
    BY <1>2, <2>1, Zenon DEF ReadOn
<1>9. [j \in DOMAIN rngs' |-> [key |-> rngs'[j].key, place |-> rngs'[j].place]]
        = [seen EXCEPT ![i] = [key |-> rngs[i].key, place |-> rngs[i].place + before + 1 + behind]]
  <2> DEFINE new == [key |-> rngs[i].key, place |-> rngs[i].place + before + 1 + behind, after |-> r.after]
  <2>1. rngs' = [rngs EXCEPT ![i] = new]
    BY <1>5, <1>7
  <2>2. new.key = rngs[i].key /\ new.place = rngs[i].place + before + 1 + behind
    OBVIOUS
  <2> HIDE DEF new
  <2>3. DOMAIN rngs' = DOMAIN rngs /\ \A j \in DOMAIN rngs : rngs'[j] = IF j = i THEN new ELSE rngs[j]
    BY <1>1, <2>1
  <2> QED
    BY <1>1, <2>2, <2>3
<1> QED
  BY <1>6, <1>8, <1>9 DEF at

\* One lemma a step: what there is after it is what its description says.

LEMMA ThinkIsDue ==
    ASSUME Keys, Determined, NEW n \in Node, Think(n)
    PROVE  /\ PlaceAt(Moment, n, 0) \in DOMAIN drawn'
           /\ Moment' = AfterThink(Moment, n, drawn'[PlaceAt(Moment, n, 0)])
<1>1. PICK d \in Thinking :
        LET e == [at |-> SaturatingAdd(now, d), seq |-> nextSeq, waker |-> n] IN
        /\ Draws(n, 0, 0, d, Thinking)
        /\ queue' = queue \cup {e} /\ nextSeq' = nextSeq + 1
        /\ armed' = [armed EXCEPT ![n] = {e}]
  BY DEF Think
<1>2. /\ PlaceAt(Moment, n, 0) \in DOMAIN drawn'
      /\ drawn'[PlaceAt(Moment, n, 0)] = d
      /\ [j \in DOMAIN rngs' |-> [key |-> rngs'[j].key, place |-> rngs'[j].place]]
           = ReadOn(Moment, n, 0, 0)
  BY <1>1, DrawsAsDue
<1>3. ThoughtOf(Moment, n, d) = [at |-> SaturatingAdd(now, d), seq |-> nextSeq, waker |-> n]
  BY MomentFields DEF ThoughtOf
<1>4. /\ now' = now /\ ready' = ready /\ polling' = 0 /\ pc' = pc /\ inbox' = inbox
      /\ nextArrival' = nextArrival /\ waiting' = waiting /\ log' = log
  BY DEF Think, Pends
<1>5. Moment' = AfterThink(Moment, n, d)
  <2>1. /\ queue' = queue \cup {ThoughtOf(Moment, n, d)} /\ nextSeq' = nextSeq + 1
        /\ armed' = [armed EXCEPT ![n] = {ThoughtOf(Moment, n, d)}]
    BY <1>1, <1>3
  <2> QED
    BY <1>2, <1>4, <2>1, MomentFields, Zenon DEF AfterThink, Moment
<1> QED
  BY <1>2, <1>5

LEMMA ThoughtIsDue ==
    ASSUME NEW n \in Node, Thought(n)
    PROVE  Moment' = AfterThought(Moment, n)
BY MomentFields, Zenon DEF Thought, AfterThought, Moment, engine

LEMMA SpeakIsDue ==
    ASSUME Keys, Determined, NEW n \in Node, Speak(n)
    PROVE  /\ PlaceAt(Moment, 0, 1) \in DOMAIN drawn'
           /\ Moment' = AfterSpeak(Moment, n, NeighbourOf(system, n),
                                   drawn'[PlaceAt(Moment, 0, 1)])
<1> DEFINE to == Neighbour(n)
<1>1. PICK d \in Latency :
        /\ Draws(0, 1, 1, d, Latency)
        /\ inbox' = [inbox EXCEPT ![to] = @ \cup
                       {[at |-> SaturatingAdd(now, d), seq |-> nextArrival, from |-> n]}]
        /\ ready' = ready \cup (waiting \cap {to})
        /\ waiting' = waiting \ {to}
  BY DEF Speak, WokenBySend
<1>2. /\ PlaceAt(Moment, 0, 1) \in DOMAIN drawn'
      /\ drawn'[PlaceAt(Moment, 0, 1)] = d
      /\ [j \in DOMAIN rngs' |-> [key |-> rngs'[j].key, place |-> rngs'[j].place]]
           = ReadOn(Moment, 0, 1, 1)
  BY <1>1, DrawsAsDue
<1>3. SpokenAt(Moment, n, d) = [at |-> SaturatingAdd(now, d), seq |-> nextArrival, from |-> n]
  BY MomentFields DEF SpokenAt
<1>4. /\ now' = now /\ queue' = queue /\ nextSeq' = nextSeq /\ polling' = polling
      /\ armed' = armed /\ log' = log /\ nextArrival' = nextArrival + 1
      /\ pc' = [pc EXCEPT ![n] = @ + 1]
  BY DEF Speak
<1>5. NeighbourOf(system, n) = to
  BY Views
<1> HIDE DEF to
<1>6. Moment' = AfterSpeak(Moment, n, to, d)
  <2>1. inbox' = [inbox EXCEPT ![to] = @ \cup {SpokenAt(Moment, n, d)}]
    BY <1>1, <1>3
  <2> QED
    BY <1>1, <1>2, <1>4, <2>1, MomentFields, Zenon DEF AfterSpeak, Moment
<1> QED
  BY <1>2, <1>5, <1>6

LEMMA HearIsDue ==
    ASSUME NEW n \in Node, Hear(n)
    PROVE  Moment' = AfterHear(Moment, n)
<1>1. Earliest(n) = FirstAt(Moment, n)
  BY Views
<1>2. inbox' = [inbox EXCEPT ![n] = @ \ {FirstAt(Moment, n)}]
  BY <1>1, Zenon DEF Hear
<1>3. /\ now' = now /\ nextSeq' = nextSeq /\ polling' = polling /\ ready' = ready
      /\ nextArrival' = nextArrival /\ log' = log /\ rngs' = rngs
      /\ queue' = queue \ armed[n] /\ armed' = [armed EXCEPT ![n] = {}]
      /\ waiting' = waiting \ {n} /\ pc' = [pc EXCEPT ![n] = @ + 1]
  BY DEF Hear
<1> QED
  BY <1>2, <1>3, MomentFields, Zenon DEF AfterHear, Moment

LEMMA ListenIsDue ==
    ASSUME NEW n \in Node, Listen(n)
    PROVE  Moment' = AfterListen(Moment, n)
<1> DEFINE aim == IF inbox[n] = {} THEN {}
                  ELSE {[at |-> Earliest(n).at, seq |-> nextSeq, waker |-> n]}
<1>1. aim = AimAt(Moment, n) /\ (Aimed(n) <=> AimedAt(Moment, n))
  <2>1. Earliest(n) = FirstAt(Moment, n) /\ (Aimed(n) <=> AimedAt(Moment, n))
    BY Views
  <2> QED
    BY <2>1, MomentFields DEF AimAt
<1>2. IF Aimed(n) THEN UNCHANGED <<queue, nextSeq, armed>>
      ELSE /\ queue' = (queue \ armed[n]) \cup aim
           /\ nextSeq' = nextSeq + Cardinality(aim)
           /\ armed' = [armed EXCEPT ![n] = aim]
  BY DEF Listen
<1>3. /\ now' = now /\ polling' = 0 /\ ready' = ready /\ pc' = pc /\ inbox' = inbox
      /\ nextArrival' = nextArrival /\ log' = log /\ rngs' = rngs
      /\ waiting' = waiting \cup {n}
  BY DEF Listen, Pends
<1> HIDE DEF aim
<1>4. /\ queue' = IF AimedAt(Moment, n) THEN queue ELSE (queue \ armed[n]) \cup AimAt(Moment, n)
      /\ nextSeq' = IF AimedAt(Moment, n) THEN nextSeq
                    ELSE nextSeq + Cardinality(AimAt(Moment, n))
      /\ armed' = IF AimedAt(Moment, n) THEN armed ELSE [armed EXCEPT ![n] = AimAt(Moment, n)]
  BY <1>1, <1>2
<1>5. AfterListen(Moment, n) =
        [now |-> now, queue |-> queue', nextSeq |-> nextSeq', ready |-> ready, polling |-> 0,
         pc |-> pc, inbox |-> inbox, nextArrival |-> nextArrival, waiting |-> waiting \cup {n},
         armed |-> armed', log |-> log, rngs |-> Moment.rngs]
  BY <1>4, MomentFields, Zenon DEF AfterListen
<1>6. Moment.rngs = [i \in DOMAIN rngs |-> [key |-> rngs[i].key, place |-> rngs[i].place]]
  BY MomentFields
<1> QED
  BY <1>3, <1>5, <1>6, Zenon DEF Moment

LEMMA NoteIsDue ==
    ASSUME NEW n \in Node, Note(n)
    PROVE  Moment' = AfterNote(system, Moment, n)
<1>1. log' = Append(log, EntryAt(system, Moment, n))
  <2>1. Round(n) = RoundAt(Moment, n) /\ WorldAfter(n) = WorldAt(Moment, n)
    BY Views
  <2> QED
    BY <2>1, MomentFields, Zenon DEF Note, EntryAt
<1>2. /\ now' = now /\ queue' = queue /\ nextSeq' = nextSeq /\ ready' = ready
      /\ polling' = polling /\ inbox' = inbox /\ nextArrival' = nextArrival
      /\ waiting' = waiting /\ armed' = armed /\ rngs' = rngs
      /\ pc' = [pc EXCEPT ![n] = @ + 1]
  BY DEF Note, engine, wires
<1> QED
  BY <1>1, <1>2, MomentFields, Zenon DEF AfterNote, Moment

LEMMA FinishIsDue ==
    ASSUME NEW n \in Node, Finish(n)
    PROVE  Moment' = AfterFinish(Moment)
<1>1. /\ now' = now /\ queue' = queue /\ nextSeq' = nextSeq /\ ready' = ready
      /\ polling' = 0 /\ inbox' = inbox /\ nextArrival' = nextArrival
      /\ waiting' = waiting /\ armed' = armed /\ rngs' = rngs /\ pc' = pc /\ log' = log
  BY DEF Finish, Pends, wires
<1> QED
  BY <1>1, MomentFields, Zenon DEF AfterFinish, Moment

\* Whatever step is taken is the one that is due: a run is said by its streams.
LEMMA StepIsDue ==
    ASSUME Keys, Determined, Step
    PROVE  Follows(system, Moment, Moment', drawn')
<1> DEFINE op == OpAt(system, Moment, polling)
<1>1. /\ Moment.polling = polling /\ Moment.ready = ready /\ Moment.queue = queue
      /\ \A n : Moment.armed[n] = armed[n]
      /\ \A n : Op(n) = OpAt(system, Moment, n)
      /\ \A n : Landed(n) <=> LandedAt(Moment, n)
  BY MomentFields, Views
<1>2. CASE Take
  <2>1. Moment' = AfterTake(Moment)
    BY <1>2, Taken
  <2>2. polling = 0 /\ ready # {}
    BY <1>2 DEF Take
  <2> QED
    BY <1>1, <2>1, <2>2 DEF Follows, After, Reads, Over
<1>3. CASE Advance
  <2>1. Moment' = AfterAdvance(Moment)
    BY <1>3, Advanced
  <2>2. polling = 0 /\ ready = {} /\ queue # {}
    BY <1>3 DEF Advance, Idle
  <2> QED
    BY <1>1, <2>1, <2>2 DEF Follows, After, Reads, Over
<1>4. ASSUME NEW n \in Node, polling = n
      PROVE  /\ Moment.polling # 0 /\ ~ Over(Moment) /\ Moment.polling = n
             /\ OpAt(system, Moment, n) = Op(n)
             /\ LandedAt(Moment, n) <=> Landed(n)
  <2>1. n # 0
    BY DEF Node
  <2> QED
    BY <1>1, <1>4, <2>1 DEF Over
<1>5. ASSUME NEW n \in Node, Think(n)
      PROVE  Follows(system, Moment, Moment', drawn')
  <2>1. polling = n /\ Op(n) = "think" /\ armed[n] = {}
    BY <1>5 DEF Think
  <2>2. /\ PlaceAt(Moment, n, 0) \in DOMAIN drawn'
        /\ Moment' = AfterThink(Moment, n, drawn'[PlaceAt(Moment, n, 0)])
    BY <1>5, ThinkIsDue
  <2> QED
    BY <1>1, <1>4, <2>1, <2>2 DEF Follows, After, Reads
<1>6. ASSUME NEW n \in Node, Thought(n)
      PROVE  Follows(system, Moment, Moment', drawn')
  <2>1. polling = n /\ Op(n) = "think" /\ armed[n] # {}
    BY <1>6 DEF Thought
  <2>2. Moment' = AfterThought(Moment, n)
    BY <1>6, ThoughtIsDue
  <2> QED
    BY <1>1, <1>4, <2>1, <2>2 DEF Follows, After, Reads
<1>7. ASSUME NEW n \in Node, Speak(n)
      PROVE  Follows(system, Moment, Moment', drawn')
  <2>1. polling = n /\ Op(n) = "speak"
    BY <1>7 DEF Speak
  <2>2. /\ PlaceAt(Moment, 0, 1) \in DOMAIN drawn'
        /\ Moment' = AfterSpeak(Moment, n, NeighbourOf(system, n),
                                drawn'[PlaceAt(Moment, 0, 1)])
    BY <1>7, SpeakIsDue
  <2> QED
    BY <1>1, <1>4, <2>1, <2>2 DEF Follows, After, Reads
<1>8. ASSUME NEW n \in Node, Hear(n)
      PROVE  Follows(system, Moment, Moment', drawn')
  <2>1. polling = n /\ Op(n) = "hear" /\ Landed(n)
    BY <1>8 DEF Hear
  <2>2. Moment' = AfterHear(Moment, n)
    BY <1>8, HearIsDue
  <2> QED
    BY <1>1, <1>4, <2>1, <2>2 DEF Follows, After, Reads
<1>9. ASSUME NEW n \in Node, Listen(n)
      PROVE  Follows(system, Moment, Moment', drawn')
  <2>1. polling = n /\ Op(n) = "hear" /\ ~ Landed(n)
    BY <1>9 DEF Listen
  <2>2. Moment' = AfterListen(Moment, n)
    BY <1>9, ListenIsDue
  <2> QED
    BY <1>1, <1>4, <2>1, <2>2 DEF Follows, After, Reads
<1>10. ASSUME NEW n \in Node, Note(n)
       PROVE  Follows(system, Moment, Moment', drawn')
  <2>1. polling = n /\ Op(n) = "note"
    BY <1>10 DEF Note
  <2>2. Moment' = AfterNote(system, Moment, n)
    BY <1>10, NoteIsDue
  <2> QED
    BY <1>1, <1>4, <2>1, <2>2 DEF Follows, After, Reads
<1>11. ASSUME NEW n \in Node, Finish(n)
       PROVE  Follows(system, Moment, Moment', drawn')
  <2>1. polling = n /\ Op(n) = "done"
    BY <1>11 DEF Finish
  <2>2. Moment' = AfterFinish(Moment)
    BY <1>11, FinishIsDue
  <2> QED
    BY <1>1, <1>4, <2>1, <2>2 DEF Follows, After, Reads
<1> QED
  BY <1>2, <1>3, <1>5, <1>6, <1>7, <1>8, <1>9, <1>10, <1>11 DEF Step

\* What followed still follows once more is said of the streams.
LEMMA FollowsOn ==
    ASSUME NEW sys, NEW s, NEW t, NEW streams, NEW more,
           Extends(streams, more), Follows(sys, s, t, streams)
    PROVE  Follows(sys, s, t, more)
<1>1. Reads(sys, s) \subseteq DOMAIN more
  BY DEF Follows, Extends
<1>2. \A p \in Reads(sys, s) : more[p] = streams[p]
  BY DEF Follows, Extends
<1>3. After(sys, s, more) = After(sys, s, streams)
  <2> DEFINE n == s.polling
             op == OpAt(sys, s, n)
  <2>1. CASE n = 0
    BY <2>1 DEF After
  <2>2. CASE n # 0 /\ op = "think" /\ s.armed[n] = {}
    <3>1. PlaceAt(s, n, 0) \in Reads(sys, s)
      BY <2>2 DEF Reads
    <3> QED
      BY <1>2, <2>2, <3>1 DEF After
  <2>3. CASE n # 0 /\ op = "speak"
    <3>1. PlaceAt(s, 0, 1) \in Reads(sys, s)
      BY <2>3 DEF Reads
    <3> QED
      BY <1>2, <2>3, <3>1 DEF After
  <2>4. CASE n # 0 /\ ~ (op = "think" /\ s.armed[n] = {}) /\ op # "speak"
    BY <2>4 DEF After
  <2> QED
    BY <2>1, <2>2, <2>3, <2>4
<1> QED
  BY <1>1, <1>3 DEF Follows

LEMMA StepsExtend ==
    ASSUME Step
    PROVE  Extends(drawn, drawn')
<1>1. ASSUME NEW n \in Node, Think(n)
      PROVE  Extends(drawn, drawn')
  BY <1>1, DrawsExtend DEF Think
<1>2. ASSUME NEW n \in Node, Speak(n)
      PROVE  Extends(drawn, drawn')
  BY <1>2, DrawsExtend DEF Speak
<1>3. CASE UNCHANGED drawn
  BY <1>3 DEF Extends
<1>4. CASE Take \/ Advance
  BY <1>3, <1>4 DEF Take, Advance
<1>5. ASSUME NEW n \in Node, Thought(n) \/ Hear(n) \/ Listen(n) \/ Note(n) \/ Finish(n)
      PROVE  Extends(drawn, drawn')
  BY <1>3, <1>5 DEF Thought, Hear, Listen, Note, Finish
<1> QED
  BY <1>1, <1>2, <1>4, <1>5 DEF Step

--------------------------------------------------------------------------------
(* Waits and messages. *)

LEMMA InstantFacts ==
    /\ Instant \subseteq Nat
    /\ 0 \in Instant
    /\ \A x \in Instant, d \in Nat : SaturatingAdd(x, d) \in Instant /\ SaturatingAdd(x, d) >= x
BY MaxTimeAssumption DEF Instant, SaturatingAdd

LEMMA NodesAreNumbers == Node \subseteq Nat \ {0}
BY SmallSystemsAssumption DEF Node

LEMMA LeastExists ==
    ASSUME NEW T \in SUBSET Nat, T # {}
    PROVE  \E x \in T : \A y \in T : x <= y
<1> DEFINE R == OpToRel(<, Nat)
<1>1. IsWellFoundedOn(R, Nat)
  BY NatLessThanWellFounded
<1>2. PICK x \in T : \A y \in T : <<y, x>> \notin R
  <2> HIDE DEF R
  <2> QED
    BY <1>1, WFMin
<1>3. \A y \in T : ~ (y < x)
  BY <1>2 DEF OpToRel
<1> QED
  BY <1>3

\* Where no number is given twice there is one that comes first.
LEMMA EarliestExists ==
    ASSUME NEW S, S # {},
           \A e \in S : e.at \in Nat /\ e.seq \in Nat,
           \A e \in S : \A f \in S : e.seq = f.seq => e = f
    PROVE  LET e == CHOOSE e \in S : IsEarliest(e, S) IN e \in S /\ IsEarliest(e, S)
<1>1. PICK at \in {e.at : e \in S} : \A y \in {e.at : e \in S} : at <= y
  <2>1. {e.at : e \in S} \in SUBSET Nat /\ {e.at : e \in S} # {}
    OBVIOUS
  <2> QED
    BY <2>1, LeastExists
<1> DEFINE T == {e \in S : e.at = at}
<1>2. PICK seq \in {e.seq : e \in T} : \A y \in {e.seq : e \in T} : seq <= y
  <2>1. {e.seq : e \in T} \in SUBSET Nat /\ {e.seq : e \in T} # {}
    BY <1>1
  <2> QED
    BY <2>1, LeastExists
<1>3. PICK e \in T : e.seq = seq
  BY <1>2
<1>4. ASSUME NEW f \in S, f # e
      PROVE  Before(e, f)
  <2>1. at \in Nat /\ seq \in Nat /\ f.at \in Nat /\ f.seq \in Nat /\ e.at = at /\ e.seq = seq
    BY <1>3
  <2>2. at <= f.at
    BY <1>1
  <2>3. CASE f.at = at
    <3>1. f \in T
      BY <2>3
    <3>2. seq <= f.seq /\ seq # f.seq
      BY <1>2, <1>3, <1>4, <3>1
    <3> QED
      BY <2>1, <2>3, <3>2 DEF Before
  <2>4. CASE f.at # at
    BY <2>1, <2>2, <2>4 DEF Before
  <2> QED
    BY <2>3, <2>4
<1>5. e \in S /\ IsEarliest(e, S)
  BY <1>3, <1>4 DEF IsEarliest
<1> QED
  BY <1>5

LEMMA OpStays ==
    ASSUME NEW n, system' = system, pc'[n] = pc[n]
    PROVE  Op(n)' = Op(n)
BY DEF Op, Script

LEMMA NodeStays ==
    ASSUME system' = system
    PROVE  Node' = Node /\ Event' = Event /\ Message' = Message
BY DEF Node, Event, Message

\* The event the clock is moved to, and the first message of an inbox.
LEMMA EventIsDue ==
    ASSUME Wired, queue # {}
    PROVE  LET e == CHOOSE e \in queue : IsEarliest(e, queue) IN e \in queue /\ IsEarliest(e, queue)
<1>1. \A e \in queue : e.at \in Nat /\ e.seq \in Nat /\ e.waker \in Node /\ e \in armed[e.waker]
  BY InstantFacts DEF Wired, Types, Dues, Event
<1>2. \A e \in queue : \A f \in queue : e.seq = f.seq => e = f
  BY <1>1 DEF Wired, Numbered
<1> QED
  BY <1>1, <1>2, EarliestExists

LEMMA MessageIsFirst ==
    ASSUME Wired, NEW n \in Node, inbox[n] # {}
    PROVE  Earliest(n) \in inbox[n] /\ Earliest(n).at \in Instant
<1>1. \A m \in inbox[n] : m.at \in Instant /\ m.at \in Nat /\ m.seq \in Nat
  <2>1. inbox[n] \subseteq Message
    BY DEF Wired, Types
  <2> QED
    BY <2>1, InstantFacts DEF Message
<1>2. \A m \in inbox[n] : \A k \in inbox[n] : m.seq = k.seq => m = k
  BY DEF Wired, Letters
<1>3. Earliest(n) \in inbox[n]
  BY <1>1, <1>2, EarliestExists DEF Earliest
<1> QED
  BY <1>1, <1>3

LEMMA TakeWired ==
    ASSUME Wired, Take, system' = system
    PROVE  Wired' /\ now' >= now
<1> DEFINE low == Min(ready)
<1>1. low \in ready /\ low \in Node /\ low \in Nat \ {0}
  <2>1. ready \in SUBSET Nat /\ ready # {} /\ ready \subseteq Node
    BY NodesAreNumbers DEF Wired, Types, Take
  <2>2. low \in ready
    BY <2>1, LeastExists DEF Min
  <2> HIDE DEF low
  <2> QED
    BY <2>1, <2>2, NodesAreNumbers
<1>2. /\ polling = 0 /\ polling' = low /\ ready' = ready \ {low}
      /\ now' = now /\ queue' = queue /\ nextSeq' = nextSeq /\ pc' = pc
      /\ inbox' = inbox /\ nextArrival' = nextArrival /\ waiting' = waiting /\ armed' = armed
  BY DEF Take, wires
<1>3. Node' = Node /\ Event' = Event /\ Message' = Message /\ \A n : Op(n)' = Op(n)
  BY <1>2, NodeStays, OpStays
<1> HIDE DEF low
<1>4. Types' /\ now' >= now
  BY <1>1, <1>2, <1>3, InstantFacts DEF Wired, Types
<1>5. Dues' /\ Held' /\ Numbered' /\ Letters'
  BY <1>2, <1>3 DEF Wired, Dues, Held, Numbered, Letters
<1>6. Placed'
  BY <1>1, <1>2, <1>3 DEF Wired, Placed
<1> QED
  BY <1>2, <1>4, <1>5, <1>6 DEF Wired

LEMMA AdvanceWired ==
    ASSUME Wired, Advance, system' = system
    PROVE  Wired' /\ now' >= now
<1> DEFINE e == CHOOSE e \in queue : IsEarliest(e, queue)
<1>1. e \in queue /\ IsEarliest(e, queue)
  BY EventIsDue DEF Advance
<1>2. /\ polling = 0 /\ ready = {} /\ ready' = {e.waker} /\ polling' = polling
      /\ now' = e.at /\ queue' = queue \ {e} /\ nextSeq' = nextSeq /\ pc' = pc
      /\ inbox' = inbox /\ nextArrival' = nextArrival /\ waiting' = waiting /\ armed' = armed
  BY DEF Advance, Idle, wires
<1> HIDE DEF e
<1>3. Node' = Node /\ Event' = Event /\ Message' = Message /\ \A n : Op(n)' = Op(n)
  BY <1>2, NodeStays, OpStays
<1>4. /\ e \in Event /\ e.at \in Instant /\ e.waker \in Node /\ e.at >= now
      /\ e.waker # 0 /\ armed[e.waker] = {e}
  <2>1. e \in Event /\ e \in armed[e.waker] /\ e.at >= now
    BY <1>1 DEF Wired, Types, Dues
  <2>2. e.at \in Instant /\ e.waker \in Node
    BY <2>1 DEF Event
  <2> QED
    BY <2>1, <2>2 DEF Wired, Held, Node
<1>5. Types' /\ now' >= now
  BY <1>2, <1>3, <1>4 DEF Wired, Types
<1>6. Dues'
  <2> SUFFICES ASSUME NEW f \in queue', f # e
               PROVE  f.at >= e.at /\ f \in armed[f.waker]
    BY <1>2 DEF Dues
  <2>1. f \in queue /\ Before(e, f)
    BY <1>1, <1>2 DEF IsEarliest
  <2>2. f.at \in Nat /\ e.at \in Nat
    BY <1>4, <2>1, InstantFacts DEF Wired, Types, Event
  <2> QED
    BY <2>1, <2>2 DEF Before, Wired, Dues
<1>7. Held' /\ Numbered' /\ Letters'
  BY <1>2, <1>3 DEF Wired, Held, Numbered, Letters
<1>8. Placed'
  <2> SUFFICES ASSUME NEW n \in Node
               PROVE  /\ armed[n] # {} => Op(n) \in {"think", "hear"}
                      /\ n \in waiting => Op(n) = "hear"
                      /\ Op(n) = "think" /\ armed[n] \cap queue' # {} => n \notin ready' /\ 0 # n
    BY <1>2, <1>3 DEF Placed
  <2> QED
    BY <1>2, <1>4 DEF Wired, Placed, Node
<1> QED
  BY <1>2, <1>4, <1>5, <1>6, <1>7, <1>8 DEF Wired

\* A node that goes on to what comes next in its script holds nothing and waits for nothing;
\* nothing else changes for the others.
LEMMA GoesOnPlaced ==
    ASSUME Wired, NEW n \in Node, polling = n, system' = system,
           pc' = [pc EXCEPT ![n] = @ + 1],
           polling' = polling, n \notin ready',
           n \notin waiting', waiting' \subseteq waiting,
           armed'[n] = {}, \A m \in Node : m # n => armed'[m] = armed[m],
           queue' \subseteq queue,
           \A m \in ready' : m \in ready \/ m \in waiting
    PROVE  Placed'
<1> SUFFICES ASSUME NEW m \in Node
             PROVE  /\ armed'[m] # {} => Op(m)' \in {"think", "hear"}
                    /\ m \in waiting' => Op(m)' = "hear"
                    /\ Op(m)' = "think" /\ armed'[m] \cap queue' # {} => m \notin ready' /\ polling' # m
  BY NodeStays DEF Placed
<1>1. CASE m = n
  BY <1>1
<1>2. CASE m # n
  <2>1. pc'[m] = pc[m] /\ armed'[m] = armed[m]
    BY <1>2 DEF Wired, Types
  <2>2. Op(m)' = Op(m)
    BY <2>1, OpStays
  <2>3. Op(m) = "think" => m \notin waiting
    BY DEF Wired, Placed
  <2> QED
    BY <1>2, <2>1, <2>2, <2>3 DEF Wired, Placed
<1> QED
  BY <1>1, <1>2

LEMMA ThinkWired ==
    ASSUME Wired, NEW n \in Node, Think(n), system' = system
    PROVE  Wired' /\ now' >= now
<1>1. PICK d \in Thinking :
        LET e == [at |-> SaturatingAdd(now, d), seq |-> nextSeq, waker |-> n] IN
        /\ queue' = queue \cup {e} /\ nextSeq' = nextSeq + 1
        /\ armed' = [armed EXCEPT ![n] = {e}]
  BY DEF Think
<1> DEFINE e == [at |-> SaturatingAdd(now, d), seq |-> nextSeq, waker |-> n]
<1>2. /\ queue' = queue \cup {e} /\ nextSeq' = nextSeq + 1
      /\ armed' = [armed EXCEPT ![n] = {e}]
  BY <1>1
<1>3. e \in Event /\ e.at >= now /\ e.seq = nextSeq /\ e.waker = n
  BY InstantFacts, SmallSystemsAssumption DEF Wired, Types, Event
<1>4. /\ polling = n /\ Op(n) = "think" /\ armed[n] = {} /\ polling' = 0
      /\ now' = now /\ ready' = ready /\ pc' = pc /\ inbox' = inbox
      /\ nextArrival' = nextArrival /\ waiting' = waiting
  BY DEF Think, Pends
<1>5. Node' = Node /\ Event' = Event /\ Message' = Message /\ \A m : Op(m)' = Op(m)
  BY <1>4, NodeStays, OpStays
<1> HIDE DEF e
<1>6. armed'[n] = {e} /\ \A m \in Node : m # n => armed'[m] = armed[m]
  BY <1>2 DEF Wired, Types
<1>7. Types' /\ now' >= now
  BY <1>2, <1>3, <1>4, <1>5, InstantFacts DEF Wired, Types
<1>8. \A m \in Node : \A f \in armed[m] : f \in Event /\ f.seq \in Nat /\ f.seq < nextSeq /\ f.seq # e.seq
  <2>1. nextSeq \in Nat
    BY DEF Wired, Types
  <2>2. \A m \in Node : \A f \in armed[m] : f \in Event /\ f.seq \in Nat /\ f.seq < nextSeq
    BY DEF Wired, Types, Held, Event
  <2> QED
    BY <1>3, <2>1, <2>2
<1>9. \A f \in queue : f.waker \in Node /\ f.waker # n /\ f.at >= now /\ f \in armed[f.waker]
  BY <1>4 DEF Wired, Types, Dues, Event
<1>10. Dues'
  BY <1>2, <1>3, <1>4, <1>6, <1>9 DEF Dues
<1>11. Held'
  <2> SUFFICES ASSUME NEW m \in Node, NEW f \in armed'[m]
               PROVE  f.waker = m /\ f.seq < nextSeq + 1 /\ armed'[m] = {f}
    BY <1>2, <1>5 DEF Held
  <2>1. nextSeq \in Nat
    BY DEF Wired, Types
  <2> QED
    BY <1>3, <1>6, <1>8, <2>1 DEF Wired, Held
<1>12. Numbered'
  <2> SUFFICES ASSUME NEW l \in Node, NEW m \in Node, NEW f \in armed'[l], NEW g \in armed'[m],
                      f.seq = g.seq
               PROVE  f = g
    BY <1>5 DEF Numbered
  <2> QED
    BY <1>3, <1>6, <1>8 DEF Wired, Numbered
<1>13. Placed'
  <2> SUFFICES ASSUME NEW m \in Node
               PROVE  /\ armed'[m] # {} => Op(m) \in {"think", "hear"}
                      /\ m \in waiting => Op(m) = "hear"
                      /\ Op(m) = "think" /\ armed'[m] \cap queue' # {} => m \notin ready /\ 0 # m
    BY <1>4, <1>5 DEF Placed
  <2>1. 0 # m
    BY NodesAreNumbers
  <2>2. CASE m = n
    BY <1>4, <2>1, <2>2 DEF Wired, Placed
  <2>3. CASE m # n
    <3>1. e \notin armed[m]
      BY <1>8
    <3> QED
      BY <1>2, <1>6, <2>1, <2>3, <3>1 DEF Wired, Placed
  <2> QED
    BY <2>2, <2>3
<1>14. Letters'
  BY <1>4, <1>5 DEF Wired, Letters
<1>15. polling' \notin ready'
  BY <1>4, NodesAreNumbers DEF Wired, Types
<1> QED
  BY <1>7, <1>10, <1>11, <1>12, <1>13, <1>14, <1>15 DEF Wired

LEMMA ThoughtWired ==
    ASSUME Wired, NEW n \in Node, Thought(n), system' = system
    PROVE  Wired' /\ now' >= now
<1>1. /\ polling = n /\ Op(n) = "think" /\ armed[n] # {}
      /\ armed' = [armed EXCEPT ![n] = {}] /\ pc' = [pc EXCEPT ![n] = @ + 1]
      /\ now' = now /\ queue' = queue /\ nextSeq' = nextSeq /\ ready' = ready
      /\ polling' = polling /\ inbox' = inbox /\ nextArrival' = nextArrival /\ waiting' = waiting
  BY DEF Thought, engine
<1>2. Node' = Node /\ Event' = Event /\ Message' = Message
  BY NodeStays
<1>3. armed'[n] = {} /\ \A m \in Node : m # n => armed'[m] = armed[m]
  BY <1>1 DEF Wired, Types
<1>4. armed[n] \cap queue = {} /\ n \notin waiting /\ n \notin ready
  BY <1>1 DEF Wired, Placed
<1>5. Types' /\ now' >= now
  BY <1>1, <1>2, InstantFacts DEF Wired, Types
<1>6. Dues'
  <2> SUFFICES ASSUME NEW f \in queue
               PROVE  f.at >= now /\ f \in armed'[f.waker]
    BY <1>1 DEF Dues
  <2>1. f.waker \in Node /\ f.at >= now /\ f \in armed[f.waker]
    BY DEF Wired, Types, Dues, Event
  <2> QED
    BY <1>3, <1>4, <2>1
<1>7. Held' /\ Numbered' /\ Letters'
  BY <1>1, <1>2, <1>3 DEF Wired, Held, Numbered, Letters
<1>8. Placed'
  BY <1>1, <1>3, <1>4, GoesOnPlaced
<1> QED
  BY <1>1, <1>5, <1>6, <1>7, <1>8 DEF Wired

LEMMA SpeakWired ==
    ASSUME Wired, NEW n \in Node, Speak(n), system' = system
    PROVE  Wired' /\ now' >= now
<1> DEFINE to == Neighbour(n)
<1>1. PICK d \in Latency :
        /\ inbox' = [inbox EXCEPT ![to] = @ \cup
                       {[at |-> SaturatingAdd(now, d), seq |-> nextArrival, from |-> n]}]
        /\ ready' = ready \cup (waiting \cap {to})
        /\ waiting' = waiting \ {to}
  BY DEF Speak, WokenBySend
<1> DEFINE s == [at |-> SaturatingAdd(now, d), seq |-> nextArrival, from |-> n]
<1>2. /\ polling = n /\ Op(n) = "speak" /\ pc' = [pc EXCEPT ![n] = @ + 1]
      /\ now' = now /\ queue' = queue /\ nextSeq' = nextSeq /\ armed' = armed
      /\ polling' = polling /\ nextArrival' = nextArrival + 1
  BY DEF Speak
<1>3. Node' = Node /\ Event' = Event /\ Message' = Message
  BY NodeStays
<1>4. s \in Message /\ s.seq = nextArrival
  BY InstantFacts, SmallSystemsAssumption DEF Wired, Types, Message
<1>5. armed[n] = {} /\ n \notin waiting /\ n \notin ready
  BY <1>2 DEF Wired, Placed
<1>6. inbox' = [inbox EXCEPT ![to] = @ \cup {s}]
  BY <1>1
<1> HIDE DEF s, to
<1>7. \A m \in Node : inbox'[m] = IF m = to THEN inbox[m] \cup {s} ELSE inbox[m]
  BY <1>6 DEF Wired, Types
<1>8. Types' /\ now' >= now
  <2>1. inbox' \in [Node -> SUBSET Message]
    BY <1>4, <1>6 DEF Wired, Types
  <2>2. ready' \in SUBSET Node /\ waiting' \in SUBSET Node
    BY <1>1 DEF Wired, Types
  <2>3. DOMAIN pc' = Node /\ nextArrival' \in Nat
    BY <1>2 DEF Wired, Types
  <2>4. now' >= now
    BY <1>2, InstantFacts DEF Wired, Types
  <2> QED
    BY <1>2, <1>3, <2>1, <2>2, <2>3, <2>4 DEF Wired, Types
<1>9. Dues' /\ Held' /\ Numbered'
  BY <1>2, <1>3 DEF Wired, Dues, Held, Numbered
<1>10. Letters'
  <2> SUFFICES ASSUME NEW m \in Node, NEW k \in inbox'[m]
               PROVE  k.seq < nextArrival + 1 /\ \A l \in inbox'[m] : k.seq = l.seq => k = l
    BY <1>2, <1>3 DEF Letters
  <2>1. nextArrival \in Nat
    BY DEF Wired, Types
  <2>2. \A l \in inbox[m] : l.seq \in Nat /\ l.seq < nextArrival
    BY DEF Wired, Types, Letters, Message
  <2>3. \A l \in inbox[m] : \A j \in inbox[m] : l.seq = j.seq => l = j
    BY DEF Wired, Letters
  <2>4. \A l \in inbox'[m] : l = s \/ l \in inbox[m]
    BY <1>7
  <2> QED
    BY <1>4, <2>1, <2>2, <2>3, <2>4
<1>11. Placed'
  BY <1>1, <1>2, <1>5, GoesOnPlaced
<1>12. polling' \notin ready'
  BY <1>1, <1>2, <1>5
<1> QED
  BY <1>8, <1>9, <1>10, <1>11, <1>12 DEF Wired

LEMMA HearWired ==
    ASSUME Wired, NEW n \in Node, Hear(n), system' = system
    PROVE  Wired' /\ now' >= now
<1>1. /\ polling = n /\ Op(n) = "hear"
      /\ inbox' = [inbox EXCEPT ![n] = @ \ {Earliest(n)}]
      /\ queue' = queue \ armed[n] /\ armed' = [armed EXCEPT ![n] = {}]
      /\ waiting' = waiting \ {n} /\ pc' = [pc EXCEPT ![n] = @ + 1]
      /\ now' = now /\ nextSeq' = nextSeq /\ ready' = ready
      /\ polling' = polling /\ nextArrival' = nextArrival
  BY DEF Hear
<1>2. Node' = Node /\ Event' = Event /\ Message' = Message
  BY NodeStays
<1>3. /\ armed'[n] = {} /\ \A m \in Node : m # n => armed'[m] = armed[m]
      /\ \A m \in Node : inbox'[m] \subseteq inbox[m]
  BY <1>1 DEF Wired, Types
<1>4. Types' /\ now' >= now
  BY <1>1, <1>2, InstantFacts DEF Wired, Types
<1>5. Dues'
  <2> SUFFICES ASSUME NEW f \in queue, f \notin armed[n]
               PROVE  f.at >= now /\ f \in armed'[f.waker]
    BY <1>1 DEF Dues
  <2>1. f.waker \in Node /\ f.at >= now /\ f \in armed[f.waker]
    BY DEF Wired, Types, Dues, Event
  <2> QED
    BY <1>3, <2>1
<1>6. Held' /\ Numbered' /\ Letters'
  BY <1>1, <1>2, <1>3 DEF Wired, Held, Numbered, Letters
<1>7. Placed'
  BY <1>1, <1>3, GoesOnPlaced DEF Wired
<1> QED
  BY <1>1, <1>4, <1>5, <1>6, <1>7 DEF Wired

LEMMA ListenWired ==
    ASSUME Wired, NEW n \in Node, Listen(n), system' = system
    PROVE  Wired' /\ now' >= now
<1> DEFINE aim == IF inbox[n] = {} THEN {}
                  ELSE {[at |-> Earliest(n).at, seq |-> nextSeq, waker |-> n]}
<1>1. /\ polling = n /\ Op(n) = "hear" /\ ~ Landed(n)
      /\ now' = now /\ polling' = 0 /\ ready' = ready /\ pc' = pc /\ inbox' = inbox
      /\ nextArrival' = nextArrival /\ waiting' = waiting \cup {n}
  BY DEF Listen, Pends
<1>2. IF Aimed(n) THEN UNCHANGED <<queue, nextSeq, armed>>
      ELSE /\ queue' = (queue \ armed[n]) \cup aim
           /\ nextSeq' = nextSeq + Cardinality(aim)
           /\ armed' = [armed EXCEPT ![n] = aim]
  BY DEF Listen
<1>3. Node' = Node /\ Event' = Event /\ Message' = Message /\ \A m : Op(m)' = Op(m)
  BY <1>1, NodeStays, OpStays
<1>4. \/ aim = {} /\ Cardinality(aim) = 0
      \/ Cardinality(aim) = 1 /\ \E e \in Event : aim = {e} /\ e.at >= now /\ e.seq = nextSeq /\ e.waker = n
  <2>1. CASE inbox[n] = {}
    BY <2>1, FS_EmptySet
  <2>2. CASE inbox[n] # {}
    <3> DEFINE e == [at |-> Earliest(n).at, seq |-> nextSeq, waker |-> n]
    <3>1. Earliest(n).at \in Instant
      BY <2>2, MessageIsFirst
    <3>2. ~ (Earliest(n).at <= now)
      BY <1>1, <2>2 DEF Landed
    <3>3. e.at >= now
      <4>1. Earliest(n).at \in Nat /\ now \in Nat
        BY <3>1, InstantFacts DEF Wired, Types
      <4> QED
        BY <3>2, <4>1
    <3>4. e \in Event /\ e.seq = nextSeq /\ e.waker = n
      BY <3>1 DEF Wired, Types, Event
    <3>5. aim = {e}
      BY <2>2
    <3> HIDE DEF e, aim
    <3>6. Cardinality(aim) = 1
      BY <3>5, FS_Singleton
    <3> QED
      BY <3>3, <3>4, <3>5, <3>6
  <2> QED
    BY <2>1, <2>2
<1> HIDE DEF aim
<1>5. nextSeq \in Nat /\ nextSeq' \in Nat /\ nextSeq' >= nextSeq
  BY <1>2, <1>4 DEF Wired, Types
<1>6. \A m \in Node : m # n => armed'[m] = armed[m]
  BY <1>2 DEF Wired, Types
<1>7. armed'[n] = armed[n] \/ armed'[n] = aim
  BY <1>2 DEF Wired, Types
<1>8. Types' /\ now' >= now
  <2>1. aim \in SUBSET Event
    BY <1>4
  <2>2. queue' \in SUBSET Event /\ armed' \in [Node -> SUBSET Event]
    BY <1>2, <2>1 DEF Wired, Types
  <2>3. waiting' \in SUBSET Node /\ polling' \in {0} \cup Node
    BY <1>1 DEF Wired, Types
  <2>4. now' >= now
    BY <1>1, InstantFacts DEF Wired, Types
  <2> QED
    BY <1>1, <1>3, <1>5, <2>2, <2>3, <2>4 DEF Wired, Types
<1>9. Placed'
  <2> SUFFICES ASSUME NEW m \in Node
               PROVE  /\ armed'[m] # {} => Op(m) \in {"think", "hear"}
                      /\ m \in waiting' => Op(m) = "hear"
                      /\ Op(m) = "think" /\ armed'[m] \cap queue' # {} => m \notin ready /\ 0 # m
    BY <1>1, <1>3 DEF Placed
  <2>1. 0 # m
    BY NodesAreNumbers
  <2>2. CASE m = n
    BY <1>1, <2>1, <2>2 DEF Wired, Placed
  <2>3. CASE m # n
    <3>1. armed'[m] \cap queue' # {} => armed[m] \cap queue # {}
      <4>1. \A f \in armed[m] : f \notin aim
        BY <1>4, <2>3 DEF Wired, Held
      <4> QED
        BY <1>2, <1>6, <2>3, <4>1
    <3> QED
      BY <1>1, <1>6, <2>1, <2>3, <3>1 DEF Wired, Placed
  <2> QED
    BY <2>2, <2>3
<1>10. Letters' /\ polling' \notin ready'
  BY <1>1, <1>3, NodesAreNumbers DEF Wired, Letters, Types
<1>11. CASE Aimed(n)
  <2>1. queue' = queue /\ nextSeq' = nextSeq /\ armed' = armed
    BY <1>2, <1>11
  <2>2. Dues' /\ Held' /\ Numbered'
    BY <1>1, <1>3, <2>1 DEF Wired, Dues, Held, Numbered
  <2> QED
    BY <1>8, <1>9, <1>10, <2>2 DEF Wired
<1>12. CASE ~ Aimed(n)
  <2>1. /\ queue' = (queue \ armed[n]) \cup aim /\ nextSeq' = nextSeq + Cardinality(aim)
        /\ armed'[n] = aim
    BY <1>2, <1>12 DEF Wired, Types
  <2>2. \A m \in Node : \A f \in armed[m] : f.seq \in Nat /\ f.seq < nextSeq
    BY DEF Wired, Types, Held, Event
  <2>3. \A f \in aim : f.at >= now /\ f.seq = nextSeq /\ f.waker = n /\ aim = {f} /\ nextSeq' = nextSeq + 1
    BY <1>4, <2>1
  <2>4. Dues'
    <3> SUFFICES ASSUME NEW f \in queue'
                 PROVE  f.at >= now /\ f \in armed'[f.waker]
      BY <1>1 DEF Dues
    <3>1. CASE f \in aim
      BY <2>1, <2>3, <3>1
    <3>2. CASE f \in queue /\ f \notin armed[n]
      <4>1. f.waker \in Node /\ f.at >= now /\ f \in armed[f.waker]
        BY <3>2 DEF Wired, Types, Dues, Event
      <4> QED
        BY <1>6, <3>2, <4>1
    <3> QED
      BY <2>1, <3>1, <3>2
  <2>5. Held'
    <3> SUFFICES ASSUME NEW m \in Node, NEW f \in armed'[m]
                 PROVE  f.waker = m /\ f.seq < nextSeq' /\ armed'[m] = {f}
      BY <1>3 DEF Held
    <3>1. CASE m = n
      BY <1>5, <2>1, <2>3, <3>1
    <3>2. CASE m # n
      <4>1. f \in armed[m] /\ armed'[m] = armed[m]
        BY <1>6, <3>2
      <4>2. f.seq \in Nat /\ f.seq < nextSeq
        BY <2>2, <4>1
      <4> QED
        BY <1>5, <4>1, <4>2 DEF Wired, Held
    <3> QED
      BY <3>1, <3>2
  <2>6. Numbered'
    <3> SUFFICES ASSUME NEW l \in Node, NEW m \in Node, NEW f \in armed'[l], NEW g \in armed'[m],
                        f.seq = g.seq
                 PROVE  f = g
      BY <1>3 DEF Numbered
    <3>1. (f \in aim \/ f \in armed[l]) /\ (g \in aim \/ g \in armed[m])
      BY <1>6, <2>1
    <3> QED
      BY <1>5, <2>2, <2>3, <3>1 DEF Wired, Numbered
  <2> QED
    BY <1>8, <1>9, <1>10, <2>4, <2>5, <2>6 DEF Wired
<1> QED
  BY <1>11, <1>12

LEMMA NoteWired ==
    ASSUME Wired, NEW n \in Node, Note(n), system' = system
    PROVE  Wired' /\ now' >= now
<1>1. /\ polling = n /\ Op(n) = "note" /\ pc' = [pc EXCEPT ![n] = @ + 1]
      /\ now' = now /\ queue' = queue /\ nextSeq' = nextSeq /\ ready' = ready
      /\ polling' = polling /\ inbox' = inbox /\ nextArrival' = nextArrival
      /\ waiting' = waiting /\ armed' = armed
  BY DEF Note, engine, wires
<1>2. Node' = Node /\ Event' = Event /\ Message' = Message
  BY NodeStays
<1>3. armed[n] = {} /\ n \notin waiting /\ n \notin ready
  BY <1>1 DEF Wired, Placed
<1>4. Types' /\ now' >= now
  BY <1>1, <1>2, InstantFacts DEF Wired, Types
<1>5. Dues' /\ Held' /\ Numbered' /\ Letters'
  BY <1>1, <1>2 DEF Wired, Dues, Held, Numbered, Letters
<1>6. Placed'
  BY <1>1, <1>3, GoesOnPlaced
<1> QED
  BY <1>1, <1>4, <1>5, <1>6 DEF Wired

LEMMA FinishWired ==
    ASSUME Wired, NEW n \in Node, Finish(n), system' = system
    PROVE  Wired' /\ now' >= now
<1>1. /\ polling' = 0 /\ pc' = pc
      /\ now' = now /\ queue' = queue /\ nextSeq' = nextSeq /\ ready' = ready
      /\ inbox' = inbox /\ nextArrival' = nextArrival /\ waiting' = waiting /\ armed' = armed
  BY DEF Finish, Pends, wires
<1>2. Node' = Node /\ Event' = Event /\ Message' = Message /\ \A m : Op(m)' = Op(m)
  BY <1>1, NodeStays, OpStays
<1>3. Types' /\ now' >= now
  BY <1>1, <1>2, InstantFacts DEF Wired, Types
<1>4. Dues' /\ Held' /\ Numbered' /\ Letters'
  BY <1>1, <1>2 DEF Wired, Dues, Held, Numbered, Letters
<1>5. Placed' /\ polling' \notin ready'
  BY <1>1, <1>2, NodesAreNumbers DEF Wired, Placed, Types
<1> QED
  BY <1>3, <1>4, <1>5 DEF Wired

\* The clock does not go back, and waits and messages stay as they should be.
LEMMA StepWired ==
    ASSUME Wired, Step, system' = system
    PROVE  Wired' /\ now' >= now
BY TakeWired, AdvanceWired, ThinkWired, ThoughtWired, SpeakWired, HearWired, ListenWired,
   NoteWired, FinishWired DEF Step

\* The generators of a run keep to its keys.
LEMMA DrawsKeyed ==
    ASSUME Keys, NEW i \in {0} \cup Node, system' = system, fork' = fork, now' = now,
           NEW before, NEW behind, NEW value, NEW values,
           Draws(i, before, behind, value, values)
    PROVE  Keys'
<1> DEFINE r == Drawing(rngs[i])
           new == [r EXCEPT !.place = @ + before + 1 + behind]
<1>1. rngs' = [rngs EXCEPT ![i] = new]
  BY DEF Draws
<1>2. i \in DOMAIN rngs /\ DOMAIN rngs = {0} \cup Node
  BY DEF Keys
<1>3. r = [key |-> r.key, place |-> r.place, after |-> r.after]
  BY DEF Keys, Drawing, Reseeded
<1>4. \/ /\ r.key = Key(RunSeed, i)
         /\ r.after = (IF fork = <<>> THEN NoKey ELSE Key(fork[1].seed, i))
      \/ /\ fork # <<>> /\ Past(fork)
         /\ r.key = Key(fork[1].seed, i) /\ r.after = NoKey
  BY DEF Keys, Drawing, Reseeded
<1> HIDE DEF r
<1>5. /\ new = [key |-> new.key, place |-> new.place, after |-> new.after]
      /\ new.key = r.key /\ new.after = r.after
  <2>1. ASSUME NEW k, NEW p, NEW a, r = [key |-> k, place |-> p, after |-> a]
        PROVE  new = [key |-> k, place |-> p + before + 1 + behind, after |-> a]
    BY <2>1
  <2>2. new = [key |-> r.key, place |-> r.place + before + 1 + behind, after |-> r.after]
    BY <1>3, <2>1
  <2> HIDE DEF new
  <2> QED
    BY <2>2
<1> HIDE DEF new
<1>6. DOMAIN rngs' = {0} \cup Node /\ \A j \in {0} \cup Node : rngs'[j] = IF j = i THEN new ELSE rngs[j]
  BY <1>1, <1>2
<1>7. Node' = Node /\ (Past(fork)' <=> Past(fork))
  BY NodeStays DEF Past
<1> QED
  BY <1>4, <1>5, <1>6, <1>7 DEF Keys

LEMMA ForkedFacts ==
    ASSUME Forked, fork # <<>>
    PROVE  fork[1].at \in Instant /\ fork[1].at \in Nat
<1>1. PICK at \in Instant, s \in ForkSeeds : fork = <<[at |-> at, seed |-> s]>>
  BY DEF Forked
<1>2. fork[1] = [at |-> at, seed |-> s]
  BY <1>1
<1>3. fork[1].at = at
  BY <1>2
<1> QED
  BY <1>3, InstantFacts

LEMMA StepKeyed ==
    ASSUME Wired, Keys, Forked, Step, system' = system, fork' = fork
    PROVE  Keys'
<1>1. ASSUME NEW n \in Node, Think(n)
      PROVE  Keys'
  BY <1>1, DrawsKeyed DEF Think
<1>2. ASSUME NEW n \in Node, Speak(n)
      PROVE  Keys'
  BY <1>2, DrawsKeyed DEF Speak
<1>3. CASE UNCHANGED rngs
  <2>1. now' >= now /\ now' \in Nat /\ now \in Nat
    BY StepWired, InstantFacts DEF Wired, Types
  <2>2. fork # <<>> => fork[1].at \in Nat
    BY ForkedFacts
  <2>3. Node' = Node
    BY NodeStays
  <2>4. fork # <<>> /\ Past(fork) => Past(fork)'
    BY <2>1, <2>2 DEF Past
  <2> QED
    BY <1>3, <2>3, <2>4 DEF Keys
<1>4. CASE Take \/ Advance
  BY <1>3, <1>4 DEF Take, Advance
<1>5. ASSUME NEW n \in Node, Thought(n) \/ Hear(n) \/ Listen(n) \/ Note(n) \/ Finish(n)
      PROVE  Keys'
  BY <1>3, <1>5 DEF Thought, Hear, Listen, Note, Finish
<1> QED
  BY <1>1, <1>2, <1>4, <1>5 DEF Step

--------------------------------------------------------------------------------
(* What was and what is to come. *)

LEMMA SeqFacts ==
    ASSUME NEW s, IsSeq(s)
    PROVE  Len(s) \in Nat /\ DOMAIN s = 1 .. Len(s)
BY DEF IsSeq

LEMMA AppendFacts ==
    ASSUME NEW s, IsSeq(s), NEW e
    PROVE  /\ IsSeq(Append(s, e)) /\ Len(Append(s, e)) = Len(s) + 1
           /\ Append(s, e)[Len(s) + 1] = e
           /\ \A i \in 1 .. Len(s) : Append(s, e)[i] = s[i]
<1>1. PICK S : s \in Seq(S)
  BY DEF IsSeq
<1> DEFINE T == S \cup {e}
<1>2. s \in Seq(T) /\ e \in T
  BY <1>1
<1> HIDE DEF T
<1>3. /\ Append(s, e) \in Seq(T) /\ Len(Append(s, e)) = Len(s) + 1
      /\ Append(s, e)[Len(s) + 1] = e
      /\ \A i \in 1 .. Len(s) : Append(s, e)[i] = s[i]
  BY <1>2
<1> QED
  BY <1>3 DEF IsSeq

LEMMA InSeq ==
    ASSUME NEW S, NEW s \in Seq(S)
    PROVE  IsSeq(s)
BY DEF IsSeq

LEMMA NothingYet == IsSeq(<<>>)
<1>1. <<>> \in Seq({})
  OBVIOUS
<1> QED
  BY <1>1, InSeq, Zenon

LEMMA EmptyLen ==
    ASSUME NEW s, s = <<>>
    PROVE  Len(s) = 0
OBVIOUS

LEMMA NothingIn ==
    ASSUME NEW s, s = <<>>
    PROVE  DOMAIN s = {}
BY EmptyLen

\* A step records one thing at most, at the instant it is taken.
LEMMA StepRecords ==
    ASSUME Step
    PROVE  log' = log \/ (now' = now /\ \E e : e.at = now /\ log' = Append(log, e))
<1>1. ASSUME NEW n \in Node, Note(n)
      PROVE  now' = now /\ \E e : e.at = now /\ log' = Append(log, e)
  <2> DEFINE e == IF system = "ring"
                  THEN [at |-> now, of |-> n, line |-> Round(n), world |-> WorldAfter(n)]
                  ELSE [at |-> now, of |-> n, line |-> pc[n], world |-> <<>>]
  <2>1. now' = now /\ log' = Append(log, e)
    BY <1>1 DEF Note, engine
  <2>2. e.at = now
    OBVIOUS
  <2> QED
    BY <2>1, <2>2
<1>2. CASE Take \/ Advance
  BY <1>2 DEF Take, Advance
<1>3. ASSUME NEW n \in Node, Think(n) \/ Speak(n) \/ Thought(n) \/ Hear(n) \/ Listen(n) \/ Finish(n)
      PROVE  log' = log
  BY <1>3 DEF Think, Speak, Thought, Hear, Listen, Finish
<1> QED
  BY <1>1, <1>2, <1>3 DEF Step

\* So what was recorded stands, and what comes is of this instant.
LEMMA LogGrows ==
    ASSUME Step, IsSeq(log)
    PROVE  /\ IsSeq(log')
           /\ \A j \in DOMAIN log : j \in DOMAIN log' /\ log'[j] = log[j]
           /\ \A j \in DOMAIN log' : j \notin DOMAIN log => log'[j].at = now /\ now' = now
<1>1. CASE log' = log
  BY <1>1
<1>2. ASSUME NEW e, e.at = now, log' = Append(log, e), now' = now
      PROVE  /\ IsSeq(log')
             /\ \A j \in DOMAIN log : j \in DOMAIN log' /\ log'[j] = log[j]
             /\ \A j \in DOMAIN log' : j \notin DOMAIN log => log'[j].at = now /\ now' = now
  <2>1. Len(log) \in Nat /\ DOMAIN log = 1 .. Len(log)
    BY SeqFacts
  <2>2. /\ IsSeq(log') /\ Len(log') = Len(log) + 1 /\ log'[Len(log) + 1] = e
        /\ \A j \in 1 .. Len(log) : log'[j] = log[j]
    BY <1>2, AppendFacts
  <2>3. DOMAIN log' = 1 .. Len(log) + 1
    BY <2>2, SeqFacts
  <2>4. \A j \in DOMAIN log' : j \notin DOMAIN log => j = Len(log) + 1
    BY <2>1, <2>3
  <2> QED
    BY <1>2, <2>1, <2>2, <2>3, <2>4
<1> QED
  BY <1>1, <1>2, StepRecords

LEMMA RunTimely ==
    ASSUME Wired, Sequences, Timely, Run
    PROVE  Sequences' /\ Timely'
<1>1. Step /\ course' = Append(course, Moment) /\ system' = system /\ first' = first
  BY DEF Run
<1>2. /\ IsSeq(course') /\ Len(course') = Len(course) + 1
      /\ course'[Len(course) + 1] = Moment
      /\ \A i \in 1 .. Len(course) : course'[i] = course[i]
  BY <1>1, AppendFacts DEF Sequences
<1>3. Len(course) \in Nat /\ DOMAIN course = 1 .. Len(course) /\ DOMAIN course' = 1 .. Len(course) + 1
  BY <1>2, SeqFacts DEF Sequences
<1>4. /\ IsSeq(log')
      /\ \A j \in DOMAIN log : j \in DOMAIN log' /\ log'[j] = log[j]
      /\ \A j \in DOMAIN log' : j \notin DOMAIN log => log'[j].at = now /\ now' = now
  BY <1>1, LogGrows DEF Sequences
<1>5. Sequences'
  BY <1>1, <1>2, <1>4 DEF Sequences
<1>6. now' >= now /\ now \in Instant /\ now \in Nat /\ now' \in Nat
  BY <1>1, StepWired, InstantFacts DEF Wired, Types
<1>7. \A j \in DOMAIN log' : log'[j].at \in Instant
  BY <1>4, <1>6 DEF Timely
<1>8. ASSUME NEW i \in DOMAIN course'
      PROVE  course'[i].now \in Instant /\ course'[i].now <= now' /\ Recorded(course'[i], log')
  <2>1. CASE i \in DOMAIN course
    <3> DEFINE c == course[i]
    <3>1. c.now \in Instant /\ c.now <= now /\ Recorded(c, log) /\ course'[i] = c
      BY <1>2, <1>3, <2>1 DEF Timely
    <3> HIDE DEF c
    <3>2. c.now \in Nat /\ c.now <= now'
      <4>1. c.now \in Nat
        BY <3>1, InstantFacts
      <4> QED
        BY <1>6, <3>1, <4>1
    <3>3. Recorded(c, log')
      <4>1. \A j \in DOMAIN c.log : j \in DOMAIN log' /\ c.log[j] = log'[j]
        BY <1>4, <3>1 DEF Recorded
      <4>2. \A j \in DOMAIN log' : j \notin DOMAIN c.log => log'[j].at >= c.now
        BY <1>4, <1>6, <3>1, <3>2 DEF Recorded
      <4> QED
        BY <4>1, <4>2 DEF Recorded
    <3> QED
      BY <3>1, <3>2, <3>3
  <2>2. CASE i = Len(course) + 1
    <3>1. course'[i] = Moment /\ Moment.now = now /\ Moment.log = log
      BY <1>2, <2>2, MomentFields
    <3>2. Recorded(Moment, log')
      BY <1>4, <1>6, <3>1 DEF Recorded
    <3> QED
      BY <1>6, <3>1, <3>2
  <2> QED
    BY <1>3, <2>1, <2>2
<1>9. Timely'
  BY <1>7, <1>8 DEF Timely
<1> QED
  BY <1>5, <1>9

LEMMA RunLed ==
    ASSUME Wired, Keys, Sequences, Led, Run, fork = <<>>
    PROVE  Led'
<1>1. Step /\ course' = Append(course, Moment) /\ system' = system
  BY DEF Run
<1> DEFINE whole == Append(course, Moment)
           k == Len(course)
           m == Moment'
<1>2. k \in Nat /\ DOMAIN course = 1 .. k
  BY SeqFacts DEF Sequences
<1>3. /\ IsSeq(whole) /\ Len(whole) = k + 1 /\ whole[k + 1] = Moment
      /\ \A i \in 1 .. k : whole[i] = course[i]
  BY AppendFacts DEF Sequences
<1>4. DOMAIN whole = 1 .. k + 1
  BY <1>3, SeqFacts
<1> HIDE DEF m
<1>5. Append(whole, m)[k + 2] = m /\ \A i \in 1 .. k + 1 : Append(whole, m)[i] = whole[i]
  BY <1>2, <1>3, AppendFacts
<1>6. Follows(system, Moment, m, drawn') /\ Extends(drawn, drawn')
  BY <1>1, StepIsDue, StepsExtend DEF Determined, m
<1>7. \A i \in 1 .. k : Follows(system, course[i], whole[i + 1], drawn)
  BY <1>2 DEF Led
<1>8. Append(whole, m)[1] = Begun
  BY <1>2, <1>5 DEF Led
<1> HIDE DEF whole, k
<1>9. \A i \in 1 .. k + 1 : Follows(system, whole[i], Append(whole, m)[i + 1], drawn')
  <2> SUFFICES ASSUME NEW i \in 1 .. k + 1
               PROVE  Follows(system, whole[i], Append(whole, m)[i + 1], drawn')
    OBVIOUS
  <2>1. CASE i \in 1 .. k
    <3>1. Follows(system, course[i], whole[i + 1], drawn')
      BY <1>6, <1>7, <2>1, FollowsOn
    <3>2. i + 1 \in 1 .. k + 1 /\ whole[i] = course[i]
      BY <1>2, <1>3, <2>1
    <3> QED
      BY <1>5, <3>1, <3>2
  <2>2. CASE i = k + 1
    <3>1. i + 1 = k + 2
      BY <1>2, <2>2
    <3> QED
      BY <1>3, <1>5, <1>6, <2>2, <3>1
  <2>3. i \in 1 .. k \/ i = k + 1
    BY <1>2
  <2> QED
    BY <2>1, <2>2, <2>3
<1>10. course' = whole /\ Begun' = Begun
  BY <1>1, NodeStays DEF whole, Begun
<1> QED
  BY <1>1, <1>4, <1>8, <1>9, <1>10 DEF Led, m

LEMMA RunWent ==
    ASSUME Went, Run
    PROVE  Went'
<1>1. Step /\ system' = system /\ first' = first /\ fork' = fork
  BY DEF Run
<1>2. Extends(drawn, drawn')
  BY <1>1, StepsExtend
<1>3. Begun' = Begun /\ Instant' = Instant
  BY <1>1, NodeStays DEF Begun
<1>4. ASSUME fork # <<>>, NEW i \in 1 .. Len(first.course) - 1
      PROVE  Follows(system, first.course[i], first.course[i + 1], drawn')
  BY <1>2, <1>4, FollowsOn DEF Went
<1> QED
  BY <1>1, <1>3, <1>4 DEF Went

\* A run that is determined goes where the first one went.
LEMMA GoesBeside ==
    ASSUME Wired, Keys, Sequences, Went, Beside, Run, fork # <<>>, Determined
    PROVE  /\ Len(course) + 2 \in DOMAIN first.course
           /\ Moment = first.course[Len(course) + 1]
           /\ Moment' = first.course[Len(course) + 2]
<1> DEFINE k == Len(course)
           c == first.course
<1>1. Step
  BY DEF Run
<1>2. k \in Nat /\ Len(c) \in Nat /\ DOMAIN c = 1 .. Len(c)
  BY SeqFacts DEF Sequences
<1>3. k < Len(c) /\ Moment = c[k + 1]
  BY DEF Beside
<1> DEFINE m == Moment'
<1>4. Follows(system, Moment, m, drawn') /\ Extends(drawn, drawn')
  BY <1>1, StepIsDue, StepsExtend
<1>5. Over(c[Len(c)]) /\ \A i \in 1 .. Len(c) - 1 : Follows(system, c[i], c[i + 1], drawn)
  BY DEF Went
<1> HIDE DEF m, k, c
<1>6. k + 1 # Len(c)
  BY <1>3, <1>4, <1>5 DEF Follows
<1>7. k + 1 \in 1 .. Len(c) - 1 /\ k + 2 \in 1 .. Len(c) /\ (k + 1) + 1 = k + 2
  <2>1. ASSUME NEW a \in Nat, NEW b \in Nat, a < b, a + 1 # b
        PROVE  a + 1 \in 1 .. b - 1 /\ a + 2 \in 1 .. b /\ (a + 1) + 1 = a + 2
    BY <2>1
  <2> QED
    BY <1>2, <1>3, <1>6, <2>1
<1>8. Follows(system, c[k + 1], c[k + 2], drawn)
  BY <1>5, <1>7
<1>9. Follows(system, c[k + 1], c[k + 2], drawn')
  BY <1>4, <1>8, FollowsOn
<1>10. m = c[k + 2]
  BY <1>3, <1>4, <1>9 DEF Follows
<1> QED
  BY <1>2, <1>3, <1>7, <1>10 DEF m, k, c

LEMMA RunRetraced ==
    ASSUME Wired, Keys, Sequences, Timely, Forked, Went, Beside, Retraced, Overtaken, Run,
           fork # <<>>
    PROVE  Beside' /\ Retraced' /\ Overtaken'
<1> DEFINE k == Len(course)
           c == first.course
           at == fork[1].at
           m == Moment'
<1>1. /\ Step /\ course' = Append(course, Moment) /\ system' = system
      /\ first' = first /\ fork' = fork
  BY DEF Run
<1>2. /\ k \in Nat /\ DOMAIN course = 1 .. k
      /\ Len(course') = k + 1 /\ DOMAIN course' = 1 .. k + 1
      /\ course'[k + 1] = Moment /\ \A i \in 1 .. k : course'[i] = course[i]
  BY <1>1, AppendFacts, SeqFacts DEF Sequences
<1>3. /\ \A j \in DOMAIN log : j \in DOMAIN log' /\ log'[j] = log[j]
      /\ \A j \in DOMAIN log' : j \notin DOMAIN log => log'[j].at = now /\ now' = now
  BY <1>1, LogGrows DEF Sequences
<1>4. /\ now \in Nat /\ now' \in Nat /\ now' >= now /\ at \in Nat
      /\ Moment.now = now /\ Moment.log = log
  BY <1>1, StepWired, InstantFacts, ForkedFacts, MomentFields DEF Wired, Types
<1>5. m.now = now' /\ m.log = log'
  BY DEF Moment
<1>6. Determined =>
        /\ k + 2 \in DOMAIN c /\ Moment = c[k + 1] /\ m = c[k + 2]
  BY GoesBeside
<1>7. k + 2 \in DOMAIN c => k + 1 < Len(c)
  BY <1>2, SeqFacts DEF Sequences
<1>8. /\ Determined <=> now <= at \/ fork[1].seed = RunSeed
      /\ Determined' <=> now' <= at \/ fork[1].seed = RunSeed
      /\ Past(fork) <=> now > at
      /\ Past(fork)' <=> now' > at
  BY <1>1, <1>4 DEF Determined, Past
<1> HIDE DEF k, c, m, at
<1>9. Beside'
  <2>1. ASSUME Determined'
        PROVE  Len(course') < Len(c) /\ m = c[Len(course') + 1]
    <3>1. Determined
      BY <1>4, <1>8, <2>1
    <3>2. k + 1 + 1 = k + 2
      BY <1>2
    <3> QED
      BY <1>2, <1>6, <1>7, <3>1, <3>2
  <2> QED
    BY <1>1, <2>1 DEF Beside, c, m
<1>10. ASSUME NEW i \in DOMAIN course',
              course'[i].now <= at \/ fork[1].seed = RunSeed
       PROVE  i < Len(c) /\ course'[i] = c[i]
  <2>1. CASE i \in 1 .. k
    BY <1>2, <1>10, <2>1 DEF Retraced, c, at
  <2>2. CASE i = k + 1
    BY <1>2, <1>4, <1>6, <1>7, <1>8, <1>10, <2>2
  <2>3. i \in 1 .. k \/ i = k + 1
    BY <1>2
  <2> QED
    BY <2>1, <2>2, <2>3
<1>11. ASSUME NEW j \in DOMAIN log', log'[j].at <= at
       PROVE  j \in DOMAIN first.log /\ log'[j] = first.log[j]
  <2>1. CASE j \in DOMAIN log
    BY <1>3, <1>11, <2>1 DEF Retraced, at
  <2>2. CASE j \notin DOMAIN log
    <3>1. Determined
      BY <1>3, <1>8, <1>11, <2>2
    <3>2. k + 2 \in DOMAIN c /\ log' = c[k + 2].log
      BY <1>5, <1>6, <3>1
    <3>3. Recorded(c[k + 2], first.log)
      BY <3>2 DEF Went, c
    <3> QED
      BY <3>2, <3>3 DEF Recorded
  <2> QED
    BY <2>1, <2>2
<1>12. Retraced'
  BY <1>1, <1>10, <1>11 DEF Retraced, c, at
<1>13. ASSUME Past(fork)'
       PROVE  \E i \in DOMAIN c :
                 /\ c[i].now > at
                 /\ \A j \in DOMAIN c[i].log : j \in DOMAIN log' /\ log'[j] = c[i].log[j]
  <2>1. CASE Past(fork)
    <3>1. PICK i \in DOMAIN c :
             /\ c[i].now > at
             /\ \A j \in DOMAIN c[i].log : j \in DOMAIN log /\ log[j] = c[i].log[j]
      BY <2>1 DEF Overtaken, c, at
    <3> QED
      BY <1>3, <3>1
  <2>2. CASE ~ Past(fork)
    <3>1. Determined
      BY <1>4, <1>8, <2>2
    <3>2. k + 2 \in DOMAIN c /\ c[k + 2].now = now' /\ c[k + 2].log = log'
      BY <1>5, <1>6, <3>1
    <3> QED
      BY <1>8, <1>13, <3>2
  <2> QED
    BY <2>1, <2>2
<1>14. Overtaken'
  BY <1>1, <1>13 DEF Overtaken, c, at
<1> QED
  BY <1>9, <1>12, <1>14

LEMMA RunKeeps ==
    ASSUME IInv, Run
    PROVE  IInv'
<1>1. Step /\ system' = system /\ first' = first /\ fork' = fork
  BY DEF Run
<1>2. Wired' /\ Keys'
  BY <1>1, StepWired, StepKeyed DEF IInv
<1>3. Forked'
  BY <1>1 DEF IInv, Forked
<1>4. Sequences' /\ Timely'
  BY RunTimely DEF IInv
<1>5. Led'
  <2>1. CASE fork = <<>>
    BY <2>1, RunLed DEF IInv
  <2>2. CASE fork # <<>>
    BY <1>1, <2>2 DEF Led
  <2> QED
    BY <2>1, <2>2
<1>6. Went'
  BY RunWent DEF IInv
<1>7. Beside' /\ Retraced' /\ Overtaken'
  <2>1. CASE fork = <<>>
    BY <1>1, <2>1 DEF Beside, Retraced, Overtaken
  <2>2. CASE fork # <<>>
    BY <2>2, RunRetraced DEF IInv
  <2> QED
    BY <2>1, <2>2
<1> QED
  BY <1>2, <1>3, <1>4, <1>5, <1>6, <1>7 DEF IInv

\* A run begins with nothing on its way.
LEMMA BeginsWired ==
    ASSUME now = 0, queue = {}, nextSeq = 0, ready = Node, polling = 0,
           pc = [n \in Node |-> 1],
           inbox = [n \in Node |-> {}], nextArrival = 0, waiting = {},
           armed = [n \in Node |-> {}]
    PROVE  Wired
<1>1. Types
  BY InstantFacts DEF Types
<1>2. Dues /\ Held /\ Numbered /\ Placed /\ Letters
  BY DEF Dues, Held, Numbered, Placed, Letters
<1> QED
  BY <1>1, <1>2, NodesAreNumbers DEF Wired

LEMMA BeginsKeyed ==
    ASSUME rngs = Generators(fork)
    PROVE  Keys
BY DEF Keys, Generators, KeyAfter

LEMMA BeginsBegun ==
    ASSUME rngs = Generators(fork), log = <<>>,
           now = 0, queue = {}, nextSeq = 0, ready = Node, polling = 0,
           pc = [n \in Node |-> 1],
           inbox = [n \in Node |-> {}], nextArrival = 0, waiting = {},
           armed = [n \in Node |-> {}]
    PROVE  Moment = Begun
<1>1. [i \in DOMAIN rngs |-> [key |-> rngs[i].key, place |-> rngs[i].place]]
        = [i \in {0} \cup Node |-> [key |-> Key(RunSeed, i), place |-> 0]]
  BY DEF Generators
<1> QED
  BY <1>1, Zenon DEF Moment, Begun

LEMMA AppendToNothing ==
    ASSUME NEW e
    PROVE  Append(<<>>, e)[1] = e
<1>1. Append(<<>>, e)[Len(<<>>) + 1] = e /\ Len(<<>>) = 0
  BY NothingYet, EmptyLen, AppendFacts
<1> QED
  BY <1>1

LEMMA InitKept ==
    ASSUME Init
    PROVE  IInv
<1>1. Wired /\ Keys /\ Moment = Begun
  <2>1. /\ rngs = Generators(fork) /\ log = <<>>
        /\ now = 0 /\ queue = {} /\ nextSeq = 0 /\ ready = Node /\ polling = 0
        /\ pc = [n \in Node |-> 1]
        /\ inbox = [n \in Node |-> {}] /\ nextArrival = 0 /\ waiting = {}
        /\ armed = [n \in Node |-> {}]
    BY Zenon DEF Init
  <2> QED
    BY <2>1, BeginsWired, BeginsKeyed, BeginsBegun
<1>2. fork = <<>> /\ log = <<>> /\ course = <<>> /\ first = NotYet
  BY DEF Init
<1>3. Sequences
  <2>1. first.log = <<>> /\ first.course = <<>>
    BY <1>2 DEF NotYet
  <2> QED
    BY <1>2, <2>1, NothingYet, Zenon DEF Sequences
<1>4. Timely
  BY <1>2, NothingIn DEF Timely
<1>5. Led
  BY <1>1, <1>2, NothingIn, AppendToNothing DEF Led
<1>6. Forked /\ Went /\ Beside /\ Retraced /\ Overtaken
  BY <1>2 DEF Forked, Went, Beside, Retraced, Overtaken
<1> QED
  BY <1>1, <1>3, <1>4, <1>5, <1>6 DEF IInv

\* Of a run that is over nothing is to come.
LEMMA RanIsOver ==
    ASSUME Wired, Ran
    PROVE  Over(Moment)
<1>1. ASSUME NEW e \in queue
      PROVE  FALSE
  <2>1. e.waker \in Node /\ e \in armed[e.waker]
    BY <1>1 DEF Wired, Types, Dues, Event
  <2>2. Op(e.waker) \in {"think", "hear"} /\ Op(e.waker) = "done"
    BY <2>1 DEF Wired, Placed, Ran
  <2> QED
    BY <2>2
<1>2. queue = {}
  BY <1>1
<1> QED
  BY <1>2, MomentFields DEF Over, Ran, Idle

\* The forked run begins where the first one began.
LEMMA ForkBegins ==
    ASSUME Wired, Forked, Timely, NEW i \in DOMAIN log, NEW s \in ForkSeeds, ForkAt(i, s)
    PROVE  Wired' /\ Keys' /\ Forked' /\ Moment' = Begun /\ Begun' = Begun
<1>1. /\ now' = 0 /\ queue' = {} /\ nextSeq' = 0 /\ ready' = Node /\ polling' = 0
      /\ pc' = [n \in Node |-> 1]
      /\ inbox' = [n \in Node |-> {}] /\ nextArrival' = 0 /\ waiting' = {}
      /\ armed' = [n \in Node |-> {}] /\ log' = <<>>
      /\ system' = system /\ rngs' = Generators(fork')
      /\ fork' = <<[at |-> log[i].at, seed |-> s]>>
  BY DEF ForkAt
<1>2. Node' = Node /\ Event' = Event /\ Message' = Message
  BY <1>1, NodeStays
<1>3. Types'
  BY <1>1, <1>2, InstantFacts DEF Types
<1>4. Dues' /\ Held' /\ Numbered' /\ Placed' /\ Letters'
  BY <1>1, <1>2 DEF Dues, Held, Numbered, Placed, Letters
<1>5. Wired'
  BY <1>1, <1>3, <1>4, NodesAreNumbers DEF Wired
<1>6. fork' # <<>> /\ rngs' = [j \in {0} \cup Node |->
                       [key |-> Key(RunSeed, j), place |-> 0, after |-> Key(fork'[1].seed, j)]]
  BY <1>1 DEF Generators, KeyAfter
<1>7. Keys'
  BY <1>2, <1>6 DEF Keys
<1>8. Forked'
  <2>1. log[i].at \in Instant
    BY DEF Timely
  <2> QED
    BY <1>1, <2>1 DEF Forked
<1>9. [j \in DOMAIN rngs' |-> [key |-> rngs'[j].key, place |-> rngs'[j].place]]
        = [j \in {0} \cup Node |-> [key |-> Key(RunSeed, j), place |-> 0]]
  BY <1>6
<1>10. Moment' = Begun
  BY <1>1, <1>9, Zenon DEF Moment, Begun
<1>11. Begun' = Begun
  BY <1>2 DEF Begun
<1> QED
  BY <1>5, <1>7, <1>8, <1>10, <1>11

\* What the first run left behind.
LEMMA ForkLeaves ==
    ASSUME Wired, Sequences, Timely, Led, NEW i \in DOMAIN log, NEW s \in ForkSeeds,
           ForkAt(i, s), Begun' = Begun
    PROVE  Went' /\ Sequences'
<1>1. /\ Ran /\ fork = <<>> /\ system' = system /\ drawn' = drawn
      /\ first' = [log |-> log, course |-> Append(course, Moment)]
      /\ log' = <<>> /\ course' = <<>>
  BY DEF ForkAt
<1> DEFINE whole == Append(course, Moment)
           k == Len(course)
<1>2. first'.log = log /\ first'.course = whole
  BY <1>1
<1>3. /\ k \in Nat /\ DOMAIN course = 1 .. k
      /\ IsSeq(whole) /\ Len(whole) = k + 1 /\ whole[k + 1] = Moment
      /\ \A j \in 1 .. k : whole[j] = course[j]
  BY AppendFacts, SeqFacts DEF Sequences
<1>4. DOMAIN whole = 1 .. k + 1
  BY <1>3, SeqFacts
<1>5. Sequences'
  <2>1. IsSeq(log') /\ IsSeq(course')
    BY <1>1, NothingYet, Zenon
  <2>2. IsSeq(first'.log) /\ IsSeq(first'.course)
    BY <1>2, <1>3 DEF Sequences
  <2> QED
    BY <2>1, <2>2, Zenon DEF Sequences
<1>6. whole[1] = Begun /\ \A j \in 1 .. k : Follows(system, course[j], whole[j + 1], drawn)
  BY <1>1, <1>3 DEF Led
<1>7. Over(Moment) /\ Moment.log = log /\ Moment.now = now
  BY <1>1, RanIsOver, MomentFields
<1>8. \A j \in DOMAIN log : log[j].at \in Instant
  BY DEF Timely
<1>9. now \in Instant /\ Recorded(Moment, log)
  BY <1>7 DEF Wired, Types, Recorded
<1>10. \A j \in 1 .. k : course[j].now \in Instant /\ Recorded(course[j], log)
  BY <1>3 DEF Timely
<1> HIDE DEF whole, k
<1>11. ASSUME NEW j \in 1 .. k + 1
       PROVE  whole[j].now \in Instant /\ Recorded(whole[j], log)
  <2>1. CASE j \in 1 .. k
    BY <1>3, <1>10, <2>1
  <2>2. CASE j = k + 1
    BY <1>3, <1>7, <1>9, <2>2
  <2>3. j \in 1 .. k \/ j = k + 1
    BY <1>3
  <2> QED
    BY <2>1, <2>2, <2>3
<1>12. \A j \in 1 .. Len(whole) - 1 : Follows(system, whole[j], whole[j + 1], drawn)
  <2>1. Len(whole) - 1 = k
    BY <1>3
  <2> QED
    BY <1>3, <1>6, <2>1
<1>13. Len(whole) > 0 /\ Over(whole[Len(whole)]) /\ whole[Len(whole)].log = log
  BY <1>3, <1>7
<1>14. Went'
  BY <1>1, <1>2, <1>4, <1>6, <1>8, <1>11, <1>12, <1>13, Zenon DEF Went
<1> QED
  BY <1>5, <1>14

LEMMA ForkKeeps ==
    ASSUME IInv, NEW i \in DOMAIN log, NEW s \in ForkSeeds, ForkAt(i, s)
    PROVE  IInv'
<1>1. /\ fork' = <<[at |-> log[i].at, seed |-> s]>>
      /\ log' = <<>> /\ course' = <<>> /\ now' = 0
  BY DEF ForkAt
<1>2. Wired' /\ Keys' /\ Forked' /\ Moment' = Begun /\ Begun' = Begun
  BY ForkBegins DEF IInv
<1>3. Went' /\ Sequences'
  BY <1>2, ForkLeaves DEF IInv
<1>4. fork' # <<>> /\ Len(course') = 0 /\ DOMAIN course' = {} /\ DOMAIN log' = {}
  BY <1>1, EmptyLen, NothingIn
<1>5. Timely' /\ Retraced' /\ Led'
  BY <1>4 DEF Timely, Retraced, Led
<1>6. Beside'
  <2>1. Len(first'.course) > 0 /\ first'.course[1] = Moment'
    BY <1>2, <1>3, <1>4 DEF Went
  <2>2. Len(course') < Len(first'.course) /\ Moment' = first'.course[Len(course') + 1]
    BY <1>4, <2>1
  <2> QED
    BY <2>2 DEF Beside
<1>7. Overtaken'
  <2>1. fork'[1].at \in Nat
    <3>1. log[i].at \in Nat
      BY InstantFacts DEF IInv, Timely
    <3> QED
      BY <1>1, <3>1
  <2>2. ~ Past(fork)'
    BY <1>1, <2>1 DEF Past
  <2> QED
    BY <2>2 DEF Overtaken
<1> QED
  BY <1>2, <1>3, <1>5, <1>6, <1>7 DEF IInv

LEMMA StutterKeeps ==
    ASSUME IInv, UNCHANGED vars
    PROVE  IInv'
<1>1. /\ system' = system /\ fork' = fork /\ drawn' = drawn /\ rngs' = rngs /\ now' = now
      /\ queue' = queue /\ nextSeq' = nextSeq /\ ready' = ready /\ polling' = polling /\ pc' = pc
      /\ inbox' = inbox /\ nextArrival' = nextArrival /\ waiting' = waiting /\ armed' = armed
      /\ log' = log /\ course' = course /\ first' = first
  BY DEF vars, engine, wires
<1>2. Node' = Node /\ Event' = Event /\ Message' = Message /\ \A n : Op(n)' = Op(n)
  BY <1>1, NodeStays, OpStays
<1>3. Moment' = Moment /\ Begun' = Begun /\ Past(fork)' = Past(fork)
  BY <1>1, <1>2 DEF Moment, Begun, Past
<1>4. Wired'
  <2>1. Types'
    BY <1>1, <1>2 DEF IInv, Wired, Types
  <2>2. Dues' /\ Held' /\ Numbered' /\ Letters'
    BY <1>1, <1>2 DEF IInv, Wired, Dues, Held, Numbered, Letters
  <2>3. Placed'
    BY <1>1, <1>2 DEF IInv, Wired, Placed
  <2> QED
    BY <1>1, <2>1, <2>2, <2>3 DEF IInv, Wired
<1>5. Keys' /\ Forked' /\ Sequences' /\ Timely'
  BY <1>1, <1>2, <1>3, Zenon DEF IInv, Keys, Forked, Sequences, Timely
<1>6. Led' /\ Went'
  BY <1>1, <1>3, Zenon DEF IInv, Led, Went
<1>7. Beside' /\ Retraced' /\ Overtaken'
  BY <1>1, <1>3, Zenon DEF IInv, Beside, Determined, Retraced, Overtaken
<1> QED
  BY <1>4, <1>5, <1>6, <1>7 DEF IInv

LEMMA NextKeeps ==
    ASSUME IInv, [Next]_vars
    PROVE  IInv'
<1>1. CASE Run
  BY <1>1, RunKeeps
<1>2. CASE \E i \in DOMAIN log, s \in ForkSeeds : ForkAt(i, s)
  BY <1>2, ForkKeeps
<1>3. CASE UNCHANGED vars
  BY <1>3, StutterKeeps
<1> QED
  BY <1>1, <1>2, <1>3 DEF Next

--------------------------------------------------------------------------------
(* What this comes to. *)

LEMMA IInvAlways == Spec => []IInv
<1>1. Init => IInv
  BY InitKept
<1>2. IInv /\ [Next]_vars => IInv'
  BY NextKeeps
<1> QED
  BY <1>1, <1>2, PTL DEF Spec

\* Up to the instant of its fork a forked run has been where the first one was, step for step,
\* and has recorded all that the first one did (`ForkedRng`, fork.rs).
THEOREM AForkIsTheRun == Spec => []ForkIsTheRunUpToItsInstant
<1>1. ASSUME IInv, fork # <<>>
      PROVE  /\ \A i \in DOMAIN course : course[i].now <= fork[1].at => course[i] = first.course[i]
             /\ \A i \in DOMAIN log : log[i].at <= fork[1].at => log[i] = first.log[i]
  BY <1>1 DEF IInv, Retraced
<1>2. ASSUME IInv, fork # <<>>, now > fork[1].at,
             NEW j \in DOMAIN first.log, first.log[j].at <= fork[1].at
      PROVE  j \in DOMAIN log /\ log[j] = first.log[j]
  <2>1. PICK i \in DOMAIN first.course :
           /\ first.course[i].now > fork[1].at
           /\ \A l \in DOMAIN first.course[i].log :
                  l \in DOMAIN log /\ log[l] = first.course[i].log[l]
    BY <1>2 DEF IInv, Overtaken, Past
  <2> DEFINE c == first.course[i]
  <2>2. c.now \in Instant /\ first.log[j].at \in Instant /\ Recorded(c, first.log)
    BY <1>2 DEF IInv, Went
  <2>3. c.now \in Nat /\ first.log[j].at \in Nat /\ fork[1].at \in Nat
    BY <1>2, <2>2, InstantFacts, ForkedFacts DEF IInv
  <2>4. c.now > fork[1].at /\ \A l \in DOMAIN c.log : l \in DOMAIN log /\ log[l] = c.log[l]
    BY <2>1
  <2> HIDE DEF c
  <2>5. j \in DOMAIN c.log
    BY <1>2, <2>2, <2>3, <2>4 DEF Recorded
  <2>6. c.log[j] = first.log[j]
    BY <2>2, <2>5 DEF Recorded
  <2> QED
    BY <2>4, <2>5, <2>6
<1>3. IInv => ForkIsTheRunUpToItsInstant
  BY <1>1, <1>2 DEF ForkIsTheRunUpToItsInstant
<1> QED
  BY <1>3, IInvAlways, PTL

\* A sequence that another one begins with.
LEMMA BeginsWith ==
    ASSUME NEW s, NEW t, IsSeq(s), IsSeq(t), Len(s) <= Len(t),
           \A i \in DOMAIN s : s[i] = t[i]
    PROVE  IsPrefix(s, t)
<1>1. PICK S : s \in Seq(S)
  BY DEF IsSeq
<1>2. PICK T : t \in Seq(T)
  BY DEF IsSeq
<1>3. s \in Seq(S \cup T) /\ t \in Seq(S \cup T)
  BY <1>1, <1>2
<1>4. Len(s) \in Nat /\ Len(t) \in Nat /\ DOMAIN s = 1 .. Len(s) /\ DOMAIN t = 1 .. Len(t)
  BY SeqFacts
<1>5. SubSeq(t, 1, Len(s)) = s
  BY <1>3, <1>4
<1> QED
  BY <1>5 DEF IsPrefix

\* A run forked to its own seed is the run again (`forked`, fork.rs).
THEOREM AForkToItself == Spec => []ForkToItselfChangesNothing
<1>1. ASSUME IInv, fork # <<>>, fork[1].seed = RunSeed
      PROVE  /\ IsPrefix(log, first.log) /\ IsPrefix(course, first.course)
             /\ Ran => log = first.log
  <2> DEFINE k == Len(course)
             c == first.course
  <2>1. Determined /\ Sequences /\ Wired
    BY <1>1 DEF Determined, IInv
  <2>2. k < Len(c) /\ Moment = c[k + 1]
    BY <1>1, <2>1 DEF IInv, Beside
  <2>3. k \in Nat /\ Len(c) \in Nat /\ DOMAIN course = 1 .. k /\ DOMAIN c = 1 .. Len(c)
    BY <2>1, SeqFacts DEF Sequences
  <2>4. \A i \in DOMAIN course : course[i] = c[i]
    BY <1>1 DEF IInv, Retraced
  <2>5. IsPrefix(course, c)
    BY <2>1, <2>2, <2>3, <2>4, BeginsWith DEF Sequences
  <2>6. k + 1 \in DOMAIN c
    BY <2>2, <2>3
  <2>7. Recorded(c[k + 1], first.log)
    BY <1>1, <2>6 DEF IInv, Went
  <2>8. \A j \in DOMAIN log : j \in DOMAIN first.log /\ log[j] = first.log[j]
    BY <2>2, <2>7, MomentFields DEF Recorded
  <2>9. Len(log) <= Len(first.log)
    <3>1. /\ Len(log) \in Nat /\ DOMAIN log = 1 .. Len(log)
          /\ Len(first.log) \in Nat /\ DOMAIN first.log = 1 .. Len(first.log)
      BY <2>1, SeqFacts DEF Sequences
    <3> QED
      BY <2>8, <3>1
  <2>10. IsPrefix(log, first.log)
    BY <2>1, <2>8, <2>9, BeginsWith DEF Sequences
  <2>11. ASSUME Ran
         PROVE  log = first.log
    <3>1. Over(c[k + 1])
      BY <2>1, <2>2, <2>11, RanIsOver
    <3>2. \A i \in 1 .. Len(c) - 1 : ~ Over(c[i])
      BY <1>1 DEF IInv, Went, Follows
    <3>3. c[Len(c)].log = first.log
      BY <1>1 DEF IInv, Went
    <3> HIDE DEF k, c
    <3>4. k + 1 = Len(c)
      <4>1. ASSUME NEW a \in Nat, NEW b \in Nat, a < b, a + 1 # b
            PROVE  a + 1 \in 1 .. b - 1
        BY <4>1
      <4>2. k + 1 \notin 1 .. Len(c) - 1
        BY <3>1, <3>2
      <4> QED
        BY <2>2, <2>3, <4>1, <4>2
    <3>5. Moment.log = log
      BY MomentFields
    <3> QED
      BY <2>2, <3>3, <3>4, <3>5
  <2> QED
    BY <2>5, <2>10, <2>11
<1>2. IInv => ForkToItselfChangesNothing
  BY <1>1 DEF ForkToItselfChangesNothing
<1> QED
  BY <1>2, IInvAlways, PTL

--------------------------------------------------------------------------------
(* The worlds that are written down, and the way back. *)

\* A node of a tree, above nodes of any kind.
LeafNode == [kind : {"leaf"}, bytes : Seq(Byte)]
NodeOver(nodes) == LeafNode \cup [kind : {"branch"}, children : Some(nodes)]

LEMMA NamesAreNumbers == Name \subseteq Nat
BY WorldsAssumption DEF Name

\* A set of names has a first.
LEMMA FirstIs ==
    ASSUME NEW T \in SUBSET Name, T # {}
    PROVE  FirstWrong(T) \in T /\ \A n \in T : FirstWrong(T) <= n
<1> DEFINE R == OpToRel(<, Nat)
<1>1. IsWellFoundedOn(R, Nat)
  BY NatLessThanWellFounded
<1>2. PICK x \in T : \A n \in T : <<n, x>> \notin R
  <2> HIDE DEF R
  <2> QED
    BY <1>1, WFMin, NamesAreNumbers
<1>3. \A n \in T : ~ (n < x)
  BY <1>2, NamesAreNumbers DEF OpToRel
<1>4. \A n \in T : x <= n
  BY <1>3, NamesAreNumbers
<1> QED
  BY <1>4 DEF FirstWrong

\* One byte before others comes off again.
LEMMA TagComesOff ==
    ASSUME NEW tag \in Byte, NEW rest \in Seq(Byte)
    PROVE  /\ <<tag>> \o rest \in Seq(Byte) /\ <<tag>> \o rest # <<>>
           /\ Head(<<tag>> \o rest) = tag /\ Tail(<<tag>> \o rest) = rest
OBVIOUS

\* And is put before them again.
LEMMA TagGoesOn ==
    ASSUME NEW bytes \in Seq(Byte), bytes # <<>>
    PROVE  /\ Head(bytes) \in Byte /\ Tail(bytes) \in Seq(Byte)
           /\ <<Head(bytes)>> \o Tail(bytes) = bytes
OBVIOUS

LEMMA ReadOrWrong ==
    /\ \A value : IsRead(Read(value)) /\ Read(value).value = value
    /\ \A why, path : /\ ~ IsRead(Wrong(why, path)) /\ Wrong(why, path).why = why
                      /\ Wrong(why, path).path = path
BY DEF IsRead, Read, Wrong

LEMMA ValueIsOne ==
    ASSUME NEW value
    PROVE  value \in Value <=>
             \/ value = Flag(TRUE) \/ value = Flag(FALSE)
             \/ \E n \in Number : value = Count(n) \/ value = Stamp(n)
             \/ \E text \in Text : value = Said(text)
BY Zenon DEF Value

\* How each value is written.
LEMMA TagWrites ==
    /\ WriteValue(Flag(TRUE)) = <<0>> \o <<1>> /\ WriteValue(Flag(FALSE)) = <<0>> \o <<0>>
    /\ \A n \in Number : /\ WriteValue(Count(n)) = <<1>> \o LittleEndian(n)
                         /\ WriteValue(Stamp(n)) = <<3>> \o LittleEndian(n)
    /\ \A text \in Text : WriteValue(Said(text)) = <<2>> \o text
<1>1. WriteValue(Flag(TRUE)) = <<0, 1>> /\ WriteValue(Flag(FALSE)) = <<0, 0>>
  BY DEF WriteValue, Flag, FLAG_TAG
<1>2. <<0, 1>> = <<0>> \o <<1>> /\ <<0, 0>> = <<0>> \o <<0>>
  OBVIOUS
<1>3. \A n : /\ WriteValue(Count(n)) = <<1>> \o LittleEndian(n)
             /\ WriteValue(Stamp(n)) = <<3>> \o LittleEndian(n)
  BY DEF WriteValue, Count, Stamp, COUNT_TAG, INSTANT_TAG
<1>4. \A text : WriteValue(Said(text)) = <<2>> \o text
  BY DEF WriteValue, Said, TEXT_TAG
<1> QED
  BY <1>1, <1>2, <1>3, <1>4

\* What stands behind each tag.
LEMMA TagReads ==
    ASSUME NEW tag \in Byte, NEW rest \in Seq(Byte)
    PROVE  LET result == ReadValue(<<tag>> \o rest)
           IN /\ tag = 0 => result = ReadFlag(rest)
              /\ tag = 1 => result = ReadNumber("count", rest)
              /\ tag = 2 => result = ReadText(rest)
              /\ tag = 3 => result = ReadNumber("instant", rest)
              /\ tag \notin {0, 1, 2, 3} => result = Wrong("UnknownKind", <<>>)
<1> DEFINE bytes == <<tag>> \o rest
<1>1. bytes # <<>> /\ Head(bytes) = tag /\ Tail(bytes) = rest
  BY TagComesOff
<1> HIDE DEF bytes
<1>2. tag \in Nat
  BY WorldsAssumption
<1>3. ReadValue(bytes) =
        CASE tag = 0 -> ReadFlag(rest) [] tag = 1 -> ReadNumber("count", rest)
          [] tag = 2 -> ReadText(rest) [] tag = 3 -> ReadNumber("instant", rest)
          [] OTHER -> Wrong("UnknownKind", <<>>)
  BY <1>1 DEF ReadValue, FLAG_TAG, COUNT_TAG, TEXT_TAG, INSTANT_TAG
<1>4. /\ tag = 0 => ReadValue(bytes) = ReadFlag(rest)
      /\ tag = 1 => ReadValue(bytes) = ReadNumber("count", rest)
      /\ tag = 2 => ReadValue(bytes) = ReadText(rest)
      /\ tag = 3 => ReadValue(bytes) = ReadNumber("instant", rest)
      /\ tag \notin {0, 1, 2, 3} => ReadValue(bytes) = Wrong("UnknownKind", <<>>)
  BY <1>2, <1>3
<1> QED
  BY <1>4 DEF bytes

LEMMA ReadsNumber ==
    ASSUME NEW kind, NEW rest \in Seq(Byte)
    PROVE  /\ \A n \in Number : rest = LittleEndian(n) => ReadNumber(kind, rest) = Read([kind |-> kind, of |-> n])
           /\ (\A n \in Number : rest # LittleEndian(n)) => ~ IsRead(ReadNumber(kind, rest))
<1>1. ASSUME NEW n \in Number, rest = LittleEndian(n)
      PROVE  ReadNumber(kind, rest) = Read([kind |-> kind, of |-> n])
  <2>1. Eight(rest) # {}
    BY <1>1 DEF Eight
  <2>2. (CHOOSE m \in Number : LittleEndian(m) = rest) = n
    BY <1>1, WorldsAssumption
  <2> QED
    BY <2>1, <2>2 DEF ReadNumber
<1>2. ASSUME \A n \in Number : rest # LittleEndian(n) PROVE ~ IsRead(ReadNumber(kind, rest))
  <2>1. Eight(rest) = {}
    BY <1>2 DEF Eight
  <2> QED
    BY <2>1, ReadOrWrong DEF ReadNumber
<1> QED
  BY <1>1, <1>2

LEMMA ReadsFlag ==
    /\ ReadFlag(<<1>>) = Read(Flag(TRUE)) /\ ReadFlag(<<0>>) = Read(Flag(FALSE))
    /\ \A rest : rest # <<0>> /\ rest # <<1>> => ~ IsRead(ReadFlag(rest))
<1>1. Len(<<1>>) = 1 /\ Len(<<0>>) = 1 /\ <<0>> # <<1>>
  OBVIOUS
<1>2. ReadFlag(<<1>>) = Read(Flag(TRUE))
  BY <1>1, Zenon DEF ReadFlag
<1>3. ReadFlag(<<0>>) = Read(Flag(FALSE))
  <2>1. (<<0>> = <<1>>) = FALSE
    BY <1>1, Zenon
  <2>2. ReadFlag(<<0>>) = Read(Flag(<<0>> = <<1>>))
    BY <1>1, Zenon DEF ReadFlag
  <2> QED
    BY <2>1, <2>2, Zenon
<1>4. \A rest : rest # <<0>> /\ rest # <<1>> => ~ IsRead(ReadFlag(rest))
  BY ReadOrWrong DEF ReadFlag
<1> QED
  BY <1>2, <1>3, <1>4

\* Every value reads back from the bytes it is written as.
LEMMA ValueReadsBack ==
    ASSUME NEW value \in Value
    PROVE  /\ WriteValue(value) \in Seq(Byte)
           /\ ReadValue(WriteValue(value)) = Read(value)
<1>1. /\ {0, 1, 2, 3} \subseteq Byte /\ <<0>> \in Seq(Byte) /\ <<1>> \in Seq(Byte)
      /\ \A n \in Number : LittleEndian(n) \in Seq(Byte)
      /\ \A text \in Text : text \in Seq(Byte)
  BY WorldsAssumption
<1>2. CASE value = Flag(TRUE)
  <2>1. WriteValue(value) = <<0>> \o <<1>> /\ <<1>> \in Seq(Byte) /\ 0 \in Byte
    BY <1>1, <1>2, TagWrites
  <2>2. ReadValue(<<0>> \o <<1>>) = ReadFlag(<<1>>)
    BY <2>1, TagReads
  <2>3. ReadFlag(<<1>>) = Read(value)
    BY <1>2, <2>1, ReadsFlag
  <2> QED
    BY <2>1, <2>2, <2>3, TagComesOff
<1>3. CASE value = Flag(FALSE)
  <2>1. WriteValue(value) = <<0>> \o <<0>> /\ <<0>> \in Seq(Byte) /\ 0 \in Byte
    BY <1>1, <1>3, TagWrites
  <2>2. ReadValue(<<0>> \o <<0>>) = ReadFlag(<<0>>)
    BY <2>1, TagReads
  <2>3. ReadFlag(<<0>>) = Read(value)
    BY <1>3, <2>1, ReadsFlag
  <2> QED
    BY <2>1, <2>2, <2>3, TagComesOff
<1>4. ASSUME NEW n \in Number, value = Count(n)
      PROVE  WriteValue(value) \in Seq(Byte) /\ ReadValue(WriteValue(value)) = Read(value)
  <2>1. WriteValue(value) = <<1>> \o LittleEndian(n) /\ LittleEndian(n) \in Seq(Byte) /\ 1 \in Byte
    BY <1>1, <1>4, TagWrites
  <2>2. ReadValue(<<1>> \o LittleEndian(n)) = ReadNumber("count", LittleEndian(n))
    BY <2>1, TagReads
  <2>3. ReadNumber("count", LittleEndian(n)) = Read(value)
    BY <1>4, <2>1, ReadsNumber DEF Count
  <2> QED
    BY <2>1, <2>2, <2>3, TagComesOff
<1>5. ASSUME NEW n \in Number, value = Stamp(n)
      PROVE  WriteValue(value) \in Seq(Byte) /\ ReadValue(WriteValue(value)) = Read(value)
  <2>1. WriteValue(value) = <<3>> \o LittleEndian(n) /\ LittleEndian(n) \in Seq(Byte) /\ 3 \in Byte
    BY <1>1, <1>5, TagWrites
  <2>2. ReadValue(<<3>> \o LittleEndian(n)) = ReadNumber("instant", LittleEndian(n))
    BY <2>1, TagReads
  <2>3. ReadNumber("instant", LittleEndian(n)) = Read(value)
    BY <1>5, <2>1, ReadsNumber DEF Stamp
  <2> QED
    BY <2>1, <2>2, <2>3, TagComesOff
<1>6. ASSUME NEW text \in Text, value = Said(text)
      PROVE  WriteValue(value) \in Seq(Byte) /\ ReadValue(WriteValue(value)) = Read(value)
  <2>1. WriteValue(value) = <<2>> \o text /\ text \in Seq(Byte) /\ 2 \in Byte
    BY <1>1, <1>6, TagWrites
  <2>2. ReadValue(<<2>> \o text) = ReadText(text)
    BY <2>1, TagReads
  <2>3. ReadText(text) = Read(value)
    BY <1>6, <2>1, TagWrites DEF ReadText
  <2> QED
    BY <2>1, <2>2, <2>3, TagComesOff
<1> QED
  BY <1>2, <1>3, <1>4, <1>5, <1>6, ValueIsOne

\* No other bytes are read: what is read is written as the bytes it was read from.
LEMMA ValueReadsExactly ==
    ASSUME NEW bytes \in Seq(Byte), IsRead(ReadValue(bytes))
    PROVE  /\ ReadValue(bytes).value \in Value
           /\ WriteValue(ReadValue(bytes).value) = bytes
<1>1. bytes # <<>>
  BY ReadOrWrong DEF ReadValue
<1> DEFINE tag == Head(bytes)
           rest == Tail(bytes)
           read == \E value \in Value : ReadValue(bytes) = Read(value) /\ WriteValue(value) = bytes
<1>2. tag \in Byte /\ rest \in Seq(Byte) /\ <<tag>> \o rest = bytes
  BY <1>1, TagGoesOn
<1> SUFFICES read
  BY ReadOrWrong
<1> HIDE DEF tag, rest
<1>3. tag \in {0, 1, 2, 3}
  <2>1. tag \notin {0, 1, 2, 3} => ReadValue(<<tag>> \o rest) = Wrong("UnknownKind", <<>>)
    BY <1>2, TagReads
  <2>2. ReadValue(<<tag>> \o rest) = ReadValue(bytes)
    BY <1>2
  <2>3. tag \notin {0, 1, 2, 3} => ~ IsRead(ReadValue(bytes))
    <3>1. ~ IsRead(Wrong("UnknownKind", <<>>))
      BY ReadOrWrong
    <3> QED
      BY <2>1, <2>2, <3>1, Zenon
  <2> QED
    BY <2>3
<1>4. CASE tag = 0
  <2>1. ReadValue(bytes) = ReadFlag(rest)
    BY <1>2, <1>4, TagReads
  <2>2. rest = <<0>> \/ rest = <<1>>
    BY <2>1, ReadsFlag
  <2>3. Flag(TRUE) \in Value /\ Flag(FALSE) \in Value
    BY ValueIsOne
  <2>4. rest = <<1>> => ReadValue(bytes) = Read(Flag(TRUE)) /\ WriteValue(Flag(TRUE)) = bytes
    BY <1>2, <1>4, <2>1, ReadsFlag, TagWrites
  <2>5. rest = <<0>> => ReadValue(bytes) = Read(Flag(FALSE)) /\ WriteValue(Flag(FALSE)) = bytes
    BY <1>2, <1>4, <2>1, ReadsFlag, TagWrites
  <2> QED
    BY <2>2, <2>3, <2>4, <2>5
<1>5. CASE tag = 1
  <2>1. ReadValue(bytes) = ReadNumber("count", rest)
    BY <1>2, <1>5, TagReads
  <2>2. PICK n \in Number : rest = LittleEndian(n)
    BY <1>2, <2>1, ReadsNumber
  <2>3. ReadValue(bytes) = Read(Count(n)) /\ Count(n) \in Value /\ WriteValue(Count(n)) = bytes
    BY <1>2, <1>5, <2>1, <2>2, ReadsNumber, TagWrites, ValueIsOne DEF Count
  <2> QED
    BY <2>3
<1>6. CASE tag = 2
  <2>1. ReadValue(bytes) = ReadText(rest)
    BY <1>2, <1>6, TagReads
  <2>2. rest \in Text /\ ReadValue(bytes) = Read(Said(rest))
    BY <2>1, ReadOrWrong DEF ReadText
  <2>3. Said(rest) \in Value /\ WriteValue(Said(rest)) = bytes
    BY <1>2, <1>6, <2>2, TagWrites, ValueIsOne
  <2> QED
    BY <2>2, <2>3
<1>7. CASE tag = 3
  <2>1. ReadValue(bytes) = ReadNumber("instant", rest)
    BY <1>2, <1>7, TagReads
  <2>2. PICK n \in Number : rest = LittleEndian(n)
    BY <1>2, <2>1, ReadsNumber
  <2>3. ReadValue(bytes) = Read(Stamp(n)) /\ Stamp(n) \in Value /\ WriteValue(Stamp(n)) = bytes
    BY <1>2, <1>7, <2>1, <2>2, ReadsNumber, TagWrites, ValueIsOne DEF Stamp
  <2> QED
    BY <2>3
<1> QED
  BY <1>3, <1>4, <1>5, <1>6, <1>7

\* Bytes that are not read are refused without a place of their own.
LEMMA ValueRefused ==
    ASSUME NEW bytes \in Seq(Byte), ~ IsRead(ReadValue(bytes))
    PROVE  ReadValue(bytes).path = <<>>
<1>1. CASE bytes = <<>>
  BY <1>1, ReadOrWrong DEF ReadValue
<1>2. CASE bytes # <<>>
  <2> DEFINE tag == Head(bytes)
             rest == Tail(bytes)
  <2>1. tag \in Byte /\ rest \in Seq(Byte) /\ <<tag>> \o rest = bytes
    BY <1>2, TagGoesOn
  <2> HIDE DEF tag, rest
  <2>2. /\ tag = 0 => ReadValue(bytes) = ReadFlag(rest)
        /\ tag = 1 => ReadValue(bytes) = ReadNumber("count", rest)
        /\ tag = 2 => ReadValue(bytes) = ReadText(rest)
        /\ tag = 3 => ReadValue(bytes) = ReadNumber("instant", rest)
        /\ tag \notin {0, 1, 2, 3} => ReadValue(bytes) = Wrong("UnknownKind", <<>>)
    BY <2>1, TagReads
  <2>3. ~ IsRead(ReadFlag(rest)) => ReadFlag(rest).path = <<>>
    BY ReadOrWrong DEF ReadFlag
  <2>4. \A kind : ~ IsRead(ReadNumber(kind, rest)) => ReadNumber(kind, rest).path = <<>>
    BY ReadOrWrong DEF ReadNumber
  <2>5. ~ IsRead(ReadText(rest)) => ReadText(rest).path = <<>>
    BY ReadOrWrong DEF ReadText
  <2> QED
    BY <2>2, <2>3, <2>4, <2>5, ReadOrWrong
<1> QED
  BY <1>1, <1>2

\* All of a map is read, or it is refused at the first name that is not.
LEMMA GatheredIs ==
    ASSUME NEW names \in SUBSET Name, NEW results, DOMAIN results = names
    PROVE  \/ /\ \A n \in names : IsRead(results[n])
              /\ Gathered(results) = Read([n \in names |-> results[n].value])
           \/ \E least \in names :
                 /\ ~ IsRead(results[least])
                 /\ \A n \in names : ~ IsRead(results[n]) => least <= n
                 /\ Gathered(results) = Wrong(results[least].why, <<least>> \o results[least].path)
<1> DEFINE wrong == {n \in names : ~ IsRead(results[n])}
<1>1. Gathered(results) =
        IF wrong = {} THEN Read([n \in names |-> results[n].value])
        ELSE Wrong(results[FirstWrong(wrong)].why, <<FirstWrong(wrong)>> \o results[FirstWrong(wrong)].path)
  BY DEF Gathered
<1>2. CASE wrong = {}
  BY <1>1, <1>2
<1>3. CASE wrong # {}
  <2>1. FirstWrong(wrong) \in wrong /\ \A n \in wrong : FirstWrong(wrong) <= n
    BY <1>3, FirstIs
  <2> QED
    BY <1>1, <1>3, <2>1
<1> QED
  BY <1>2, <1>3

LEMMA BranchParts ==
    ASSUME NEW nodes, NEW node \in NodeOver(nodes), IsBranch(node)
    PROVE  /\ node = Branch(node.children) /\ DOMAIN node.children \in SUBSET Name
           /\ node.children = [n \in DOMAIN node.children |-> node.children[n]]
           /\ \A n \in DOMAIN node.children : node.children[n] \in nodes
BY DEF NodeOver, LeafNode, Some, IsBranch, Branch

LEMMA LeafBytes ==
    ASSUME NEW nodes, NEW node \in NodeOver(nodes), ~ IsBranch(node)
    PROVE  node = Leaf(node.bytes) /\ node.bytes \in Seq(Byte)
BY DEF NodeOver, LeafNode, IsBranch, Leaf

LEMMA NodeKinds ==
    /\ \A bytes : ~ IsBranch(Leaf(bytes)) /\ Leaf(bytes).bytes = bytes
    /\ \A children : IsBranch(Branch(children)) /\ Branch(children).children = children
    /\ \A bytes, children : Leaf(bytes) # Branch(children)
BY DEF IsBranch, Leaf, Branch

Fields == {Leaf(WriteValue(value)) : value \in Value}

\* A field is read as the value it is written from, or is no value's.
LEMMA FieldIs ==
    ASSUME NEW nodes, NEW node \in NodeOver(nodes)
    PROVE  LET result == ReadField(node)
           IN \/ /\ IsRead(result) /\ result = Read(result.value) /\ result.value \in Value
                 /\ node = Leaf(WriteValue(result.value)) /\ node \in Fields
              \/ ~ IsRead(result) /\ result.path = <<>> /\ node \notin Fields
<1>1. CASE IsBranch(node)
  BY <1>1, ReadOrWrong, NodeKinds DEF ReadField, Fields
<1>2. CASE ~ IsBranch(node)
  <2>1. node = Leaf(node.bytes) /\ node.bytes \in Seq(Byte) /\ ReadField(node) = ReadValue(node.bytes)
    BY <1>2, LeafBytes DEF ReadField
  <2>2. CASE IsRead(ReadValue(node.bytes))
    <3>1. /\ ReadValue(node.bytes).value \in Value
          /\ WriteValue(ReadValue(node.bytes).value) = node.bytes
      BY <2>1, <2>2, ValueReadsExactly
    <3>2. ReadValue(node.bytes) = Read(ReadValue(node.bytes).value)
      BY <3>1, ValueReadsBack, ReadOrWrong
    <3> QED
      BY <2>1, <2>2, <3>1, <3>2 DEF Fields
  <2>3. CASE ~ IsRead(ReadValue(node.bytes))
    <3>1. ReadValue(node.bytes).path = <<>>
      BY <2>1, <2>3, ValueRefused
    <3>2. ASSUME NEW value \in Value, node = Leaf(WriteValue(value)) PROVE FALSE
      <4>1. node.bytes = WriteValue(value)
        BY <3>2, NodeKinds
      <4> QED
        BY <2>3, <4>1, ValueReadsBack, ReadOrWrong
    <3> QED
      BY <2>1, <2>3, <3>1, <3>2 DEF Fields
  <2> QED
    BY <2>2, <2>3
<1> QED
  BY <1>1, <1>2

\* The fields of a resource that are no value's.
OffFields(node) == {f \in DOMAIN node.children : node.children[f] \notin Fields}

LEMMA ResourceReadsBack ==
    ASSUME NEW resource \in Resource
    PROVE  /\ SnapshotOfResource(resource) \in NodeOver(LeafNode)
           /\ ReadResource(SnapshotOfResource(resource)) = Read(resource)
<1>1. PICK names \in SUBSET Name : resource \in [names -> Value]
  BY DEF Resource, Some
<1> DEFINE children == [field \in names |-> Leaf(WriteValue(resource[field]))]
<1>2. SnapshotOfResource(resource) = Branch(children)
  BY <1>1 DEF SnapshotOfResource
<1>3. \A f \in names : /\ children[f] \in LeafNode
                       /\ ReadField(children[f]) = Read(resource[f])
  BY <1>1, ValueReadsBack, NodeKinds DEF LeafNode, Leaf, ReadField
<1>4. children \in [names -> LeafNode] /\ DOMAIN children = names
  BY <1>3
<1> HIDE DEF children
<1>5. Branch(children) \in NodeOver(LeafNode)
  BY <1>4 DEF NodeOver, Branch, Some
<1> DEFINE results == [f \in names |-> ReadField(children[f])]
<1>6. ReadResource(Branch(children)) = Gathered(results)
  BY <1>4, NodeKinds DEF ReadResource
<1>7. \A f \in names : results[f] = Read(resource[f])
  BY <1>3
<1>8. DOMAIN results = names
  OBVIOUS
<1> HIDE DEF results
<1>9. Gathered(results) = Read([n \in names |-> results[n].value])
  <2>1. \A f \in names : IsRead(results[f])
    BY <1>7, ReadOrWrong
  <2>2. names \in SUBSET Name
    BY <1>1
  <2> QED
    BY <1>8, <2>1, <2>2, GatheredIs
<1>10. [n \in names |-> results[n].value] = resource
  BY <1>1, <1>7, ReadOrWrong
<1> QED
  BY <1>2, <1>5, <1>6, <1>9, <1>10

LEMMA ResourceIs ==
    ASSUME NEW nodes, NEW node \in NodeOver(NodeOver(nodes))
    PROVE  LET result == ReadResource(node)
           IN \/ /\ IsRead(result) /\ result.value \in Resource
                 /\ node = SnapshotOfResource(result.value)
                 /\ IsBranch(node) /\ OffFields(node) = {}
              \/ ~ IsRead(result) /\ ~ IsBranch(node) /\ result.path = <<>>
              \/ /\ ~ IsRead(result) /\ IsBranch(node)
                 /\ \E least \in OffFields(node) :
                       /\ result.path = <<least>>
                       /\ \A f \in OffFields(node) : least <= f
<1>1. CASE ~ IsBranch(node)
  BY <1>1, ReadOrWrong DEF ReadResource
<1>2. CASE IsBranch(node)
  <2> DEFINE names == DOMAIN node.children
             results == [f \in names |-> ReadField(node.children[f])]
             read == [n \in names |-> results[n].value]
  <2>1. /\ node = Branch(node.children) /\ names \in SUBSET Name
        /\ node.children = [n \in names |-> node.children[n]]
        /\ \A n \in names : node.children[n] \in NodeOver(nodes)
    BY <1>2, BranchParts
  <2>2. ReadResource(node) = Gathered(results)
    BY <1>2 DEF ReadResource
  <2>3. /\ DOMAIN results = names
        /\ \A f \in names : results[f] = ReadField(node.children[f])
    OBVIOUS
  <2>4. DOMAIN read = names /\ \A f \in names : read[f] = results[f].value
    OBVIOUS
  <2>5. \A f \in names : IF IsRead(results[f])
                         THEN /\ results[f].value \in Value /\ f \notin OffFields(node)
                              /\ node.children[f] = Leaf(WriteValue(results[f].value))
                         ELSE results[f].path = <<>> /\ f \in OffFields(node)
    BY <2>1, <2>3, FieldIs DEF OffFields
  <2>6. OffFields(node) \subseteq names
    BY DEF OffFields
  <2>0. read = [n \in names |-> results[n].value]
    OBVIOUS
  <2> HIDE DEF results, read
  <2>7. CASE (\A f \in names : IsRead(results[f])) /\ Gathered(results) = Read(read)
    <3>1. read \in [names -> Value]
      BY <2>5, <2>7, <2>0
    <3>2. read \in Resource
      BY <2>1, <3>1 DEF Resource, Some
    <3>3. node.children = [f \in names |-> Leaf(WriteValue(read[f]))]
      BY <2>1, <2>4, <2>5, <2>7
    <3>4. node = SnapshotOfResource(read)
      BY <2>1, <2>4, <3>3 DEF SnapshotOfResource
    <3>5. OffFields(node) = {}
      BY <2>5, <2>6, <2>7
    <3> QED
      BY <1>2, <2>2, <2>7, <3>2, <3>4, <3>5, ReadOrWrong
  <2>8. ASSUME NEW least \in names, ~ IsRead(results[least]),
               \A n \in names : ~ IsRead(results[n]) => least <= n,
               Gathered(results) = Wrong(results[least].why, <<least>> \o results[least].path)
        PROVE  /\ ~ IsRead(ReadResource(node)) /\ least \in OffFields(node)
               /\ ReadResource(node).path = <<least>>
               /\ \A f \in OffFields(node) : least <= f
    <3>1. results[least].path = <<>> /\ least \in OffFields(node)
      BY <2>5, <2>8
    <3>2. <<least>> \o <<>> = <<least>>
      OBVIOUS
    <3>3. \A f \in OffFields(node) : least <= f
      BY <2>5, <2>6, <2>8
    <3> QED
      BY <2>2, <2>8, <3>1, <3>2, <3>3, ReadOrWrong
  <2>9. \/ (\A f \in names : IsRead(results[f])) /\ Gathered(results) = Read(read)
        \/ \E least \in names :
              /\ ~ IsRead(results[least])
              /\ \A n \in names : ~ IsRead(results[n]) => least <= n
              /\ Gathered(results) = Wrong(results[least].why, <<least>> \o results[least].path)
    <3>1. names \in SUBSET Name /\ DOMAIN results = names
      BY <2>1, <2>3
    <3> HIDE DEF names
    <3>2. \/ /\ \A n \in names : IsRead(results[n])
             /\ Gathered(results) = Read([n \in names |-> results[n].value])
          \/ \E least \in names :
                /\ ~ IsRead(results[least])
                /\ \A n \in names : ~ IsRead(results[n]) => least <= n
                /\ Gathered(results) = Wrong(results[least].why, <<least>> \o results[least].path)
      BY <3>1, GatheredIs
    <3> QED
      BY <2>0, <3>2
  <2>10. CASE \E least \in names :
              /\ ~ IsRead(results[least])
              /\ \A n \in names : ~ IsRead(results[n]) => least <= n
              /\ Gathered(results) = Wrong(results[least].why, <<least>> \o results[least].path)
    BY <1>2, <2>8, <2>10
  <2> QED
    BY <2>7, <2>9, <2>10
<1> QED
  BY <1>1, <1>2

\* A world comes back from the tree it is hashed and kept as, whatever is in it (`Snapshot for
\* World`, `World::try_from`).
THEOREM WorldsComeBack == \A world \in World : ReadWorld(Snapshot(world)) = Read(world)
<1> SUFFICES ASSUME NEW world \in World PROVE ReadWorld(Snapshot(world)) = Read(world)
  OBVIOUS
<1>1. PICK names \in SUBSET Name : world \in [names -> Resource]
  BY DEF World, Some
<1> DEFINE children == [name \in names |-> SnapshotOfResource(world[name])]
           results == [name \in names |-> ReadResource(children[name])]
<1>2. Snapshot(world) = Branch(children) /\ DOMAIN children = names
  BY <1>1 DEF Snapshot
<1>3. \A name \in names : children[name] = SnapshotOfResource(world[name])
  OBVIOUS
<1> HIDE DEF children
<1>4. ReadWorld(Branch(children)) = Gathered(results)
  BY <1>2, NodeKinds DEF ReadWorld
<1>5. \A name \in names : results[name] = Read(world[name])
  BY <1>1, <1>3, ResourceReadsBack
<1>6. DOMAIN results = names
  OBVIOUS
<1> HIDE DEF results
<1>7. Gathered(results) = Read([n \in names |-> results[n].value])
  <2>1. \A name \in names : IsRead(results[name])
    BY <1>5, ReadOrWrong
  <2>2. names \in SUBSET Name
    BY <1>1
  <2> QED
    BY <1>6, <2>1, <2>2, GatheredIs
<1>8. [n \in names |-> results[n].value] = world
  BY <1>1, <1>5, ReadOrWrong
<1> QED
  BY <1>2, <1>4, <1>7, <1>8

\* The places of a branch that are off: a part that has none, or a field of one.
LEMMA OffPlacesAre ==
    ASSUME NEW node, IsBranch(node)
    PROVE  \A place : place \in OffPlaces(node) <=>
              \E name \in DOMAIN node.children :
                 \/ ~ IsBranch(node.children[name]) /\ place = <<name>>
                 \/ /\ IsBranch(node.children[name])
                    /\ \E field \in OffFields(node.children[name]) : place = <<name, field>>
BY DEF OffPlaces, OffFields, Fields

\* A pair, put together and taken apart.
LEMMA PairIs ==
    ASSUME NEW x, NEW y
    PROVE  <<x>> \o <<y>> = <<x, y>> /\ SubSeq(<<x, y>>, 1, 1) = <<x>>
<1> DEFINE S == {x, y}
           s == <<x>>
           t == <<y>>
           pair == <<x, y>>
           joined == s \o t
           part == SubSeq(pair, 1, 1)
<1>1. /\ s \in Seq(S) /\ Len(s) = 1 /\ s[1] = x /\ t \in Seq(S) /\ Len(t) = 1 /\ t[1] = y
      /\ pair \in Seq(S) /\ Len(pair) = 2 /\ pair[1] = x /\ pair[2] = y
  OBVIOUS
<1> HIDE DEF S, s, t, pair
<1>2. /\ joined \in Seq(S) /\ Len(joined) = 1 + 1
      /\ \A i \in 1 .. 1 + 1 : joined[i] = IF i <= 1 THEN s[i] ELSE t[i - 1]
  BY <1>1, ConcatProperties
<1>3. /\ part \in Seq(S) /\ Len(part) = 1
      /\ \A i \in 1 .. 1 - 1 + 1 : part[i] = pair[1 + i - 1]
  <2>1. \A i \in 1 .. 1 : pair[i] \in S
    BY <1>1, ElementOfSeq
  <2> QED
    BY <2>1, SubSeqProperties
<1> HIDE DEF joined, part
<1>4. joined = pair
  BY <1>1, <1>2
<1>5. part = s
  BY <1>1, <1>3
<1> QED
  BY <1>4, <1>5 DEF joined, part, pair, s, t

\* Paths whose first names differ, and those whose second do.
LEMMA SoonerAt ==
    /\ \A m, n \in Nat : \A p, q : m < n /\ p \in {<<m>>} \cup {<<m, f>> : f \in Nat}
                                        /\ q \in {<<n>>} \cup {<<n, f>> : f \in Nat} => Sooner(p, q)
    /\ \A n, f, g \in Nat : f < g => Sooner(<<n, f>>, <<n, g>>)
<1>1. ASSUME NEW m \in Nat, NEW n \in Nat, NEW p, NEW q, m < n,
             p \in {<<m>>} \cup {<<m, f>> : f \in Nat}, q \in {<<n>>} \cup {<<n, f>> : f \in Nat}
      PROVE  Sooner(p, q)
  <2>1. p \in Seq(Nat) /\ q \in Seq(Nat) /\ Len(p) \in {1, 2} /\ Len(q) \in {1, 2}
        /\ p[1] = m /\ q[1] = n
    <3>1. \A i \in Nat : /\ <<i>> \in Seq(Nat) /\ Len(<<i>>) = 1 /\ <<i>>[1] = i
                         /\ \A f \in Nat : /\ <<i, f>> \in Seq(Nat) /\ Len(<<i, f>>) = 2
                                          /\ <<i, f>>[1] = i
      OBVIOUS
    <3>2. p \in Seq(Nat) /\ Len(p) \in {1, 2} /\ p[1] = m
      <4>1. CASE p = <<m>>
        BY <3>1, <4>1
      <4>2. ASSUME NEW f \in Nat, p = <<m, f>>
            PROVE  p \in Seq(Nat) /\ Len(p) \in {1, 2} /\ p[1] = m
        BY <3>1, <4>2
      <4> QED
        BY <1>1, <4>1, <4>2
    <3>3. q \in Seq(Nat) /\ Len(q) \in {1, 2} /\ q[1] = n
      <4>1. CASE q = <<n>>
        BY <3>1, <4>1
      <4>2. ASSUME NEW f \in Nat, q = <<n, f>>
            PROVE  q \in Seq(Nat) /\ Len(q) \in {1, 2} /\ q[1] = n
        BY <3>1, <4>2
      <4> QED
        BY <1>1, <4>1, <4>2
    <3> QED
      BY <3>2, <3>3
  <2>2. 1 \in DOMAIN p \cap DOMAIN q
    BY <2>1
  <2>3. SubSeq(p, 1, 1 - 1) = SubSeq(q, 1, 1 - 1)
    BY <2>1
  <2> QED
    BY <1>1, <2>1, <2>2, <2>3 DEF Sooner
<1>2. ASSUME NEW n \in Nat, NEW f \in Nat, NEW g \in Nat, f < g PROVE Sooner(<<n, f>>, <<n, g>>)
  <2>1. 2 \in DOMAIN <<n, f>> \cap DOMAIN <<n, g>> /\ <<n, f>>[2] < <<n, g>>[2]
    BY <1>2
  <2>2. SubSeq(<<n, f>>, 1, 2 - 1) = <<n>> /\ SubSeq(<<n, g>>, 1, 2 - 1) = <<n>>
    <3>1. 2 - 1 = 1
      OBVIOUS
    <3> QED
      BY <3>1, PairIs
  <2> QED
    BY <2>1, <2>2 DEF Sooner
<1> QED
  BY <1>1, <1>2

\* A tree is read as a world only if it is, to the byte, the one that world is kept as; any other
\* is refused, at the first place of it that no world has, however deep it is (`World::try_from`).
THEOREM TreesAreReadExactly ==
    ASSUME NEW nodes, NEW node \in NodeOver(NodeOver(NodeOver(nodes)))
    PROVE  /\ ReadsExactly(node)
           /\ IsRead(ReadWorld(node)) => ReadWorld(node).value \in World
<1>1. CASE ~ IsBranch(node)
  <2>1. ReadWorld(node) = Wrong("NotAWorld", <<>>) /\ OffPlaces(node) = {<<>>}
    BY <1>1 DEF ReadWorld, OffPlaces
  <2> QED
    BY <2>1, ReadOrWrong DEF ReadsExactly
<1>2. CASE IsBranch(node)
  <2> DEFINE names == DOMAIN node.children
             results == [n \in names |-> ReadResource(node.children[n])]
             read == [n \in names |-> results[n].value]
  <2>1. /\ node = Branch(node.children) /\ names \in SUBSET Name
        /\ node.children = [n \in names |-> node.children[n]]
        /\ \A n \in names : node.children[n] \in NodeOver(NodeOver(nodes))
    BY <1>2, BranchParts
  <2>2. ReadWorld(node) = Gathered(results)
    BY <1>2 DEF ReadWorld
  <2>3. /\ DOMAIN results = names
        /\ \A n \in names : results[n] = ReadResource(node.children[n])
    OBVIOUS
  <2>4. DOMAIN read = names /\ \A n \in names : read[n] = results[n].value
    OBVIOUS
  <2>5. read = [n \in names |-> results[n].value]
    OBVIOUS
  <2> HIDE DEF results, read
  <2>6. \A n \in names : IsRead(results[n]) =>
           /\ results[n].value \in Resource
           /\ node.children[n] = SnapshotOfResource(results[n].value)
           /\ IsBranch(node.children[n]) /\ OffFields(node.children[n]) = {}
    BY <2>1, <2>3, ResourceIs
  <2>7. \A n \in names : ~ IsRead(results[n]) =>
           \/ ~ IsBranch(node.children[n]) /\ results[n].path = <<>>
           \/ /\ IsBranch(node.children[n])
              /\ \E least \in OffFields(node.children[n]) :
                    /\ results[n].path = <<least>>
                    /\ \A f \in OffFields(node.children[n]) : least <= f
    BY <2>1, <2>3, ResourceIs
  <2>8. \/ (\A n \in names : IsRead(results[n])) /\ Gathered(results) = Read(read)
        \/ \E least \in names :
              /\ ~ IsRead(results[least])
              /\ \A n \in names : ~ IsRead(results[n]) => least <= n
              /\ Gathered(results) = Wrong(results[least].why, <<least>> \o results[least].path)
    <3>1. names \in SUBSET Name /\ DOMAIN results = names
      BY <2>1, <2>3
    <3> HIDE DEF names
    <3>2. \/ /\ \A n \in names : IsRead(results[n])
             /\ Gathered(results) = Read([n \in names |-> results[n].value])
          \/ \E least \in names :
                /\ ~ IsRead(results[least])
                /\ \A n \in names : ~ IsRead(results[n]) => least <= n
                /\ Gathered(results) = Wrong(results[least].why, <<least>> \o results[least].path)
      BY <3>1, GatheredIs
    <3> QED
      BY <2>5, <3>2
  <2>9. CASE (\A n \in names : IsRead(results[n])) /\ Gathered(results) = Read(read)
    <3>1. read \in [names -> Resource]
      BY <2>5, <2>6, <2>9
    <3>2. read \in World
      BY <2>1, <3>1 DEF World, Some
    <3>3. node.children = [n \in names |-> SnapshotOfResource(read[n])]
      BY <2>1, <2>4, <2>6, <2>9
    <3>4. Snapshot(read) = node
      BY <2>1, <2>4, <3>3 DEF Snapshot
    <3> QED
      BY <2>2, <2>9, <3>2, <3>4, ReadOrWrong DEF ReadsExactly
  <2>10. ASSUME NEW least \in names, ~ IsRead(results[least]),
                \A n \in names : ~ IsRead(results[n]) => least <= n,
                Gathered(results) = Wrong(results[least].why, <<least>> \o results[least].path)
         PROVE  /\ ReadsExactly(node)
                /\ IsRead(ReadWorld(node)) => ReadWorld(node).value \in World
    <3> DEFINE path == <<least>> \o results[least].path
    <3>1. ~ IsRead(ReadWorld(node)) /\ ReadWorld(node).path = path
      <4>1. ReadWorld(node) = Wrong(results[least].why, path)
        BY <2>2, <2>10
      <4> HIDE DEF path
      <4> QED
        BY <4>1, ReadOrWrong
    <3>2. names \subseteq Nat /\ \A n \in names : IsBranch(node.children[n]) =>
                                    OffFields(node.children[n]) \subseteq Nat
      <4>1. ASSUME NEW n \in names, IsBranch(node.children[n])
            PROVE  OffFields(node.children[n]) \subseteq Nat
        <5>1. DOMAIN node.children[n].children \in SUBSET Name
          BY <2>1, <4>1, BranchParts
        <5> QED
          BY <5>1, NamesAreNumbers DEF OffFields
      <4> QED
        BY <2>1, <4>1, NamesAreNumbers
    <3>3. /\ path \in OffPlaces(node)
          /\ \/ ~ IsBranch(node.children[least]) /\ path = <<least>>
             \/ /\ IsBranch(node.children[least])
                /\ \E field \in OffFields(node.children[least]) :
                      /\ path = <<least, field>>
                      /\ \A f \in OffFields(node.children[least]) : field <= f
      <4>1. CASE ~ IsBranch(node.children[least]) /\ results[least].path = <<>>
        <5>1. path = <<least>>
          BY <4>1
        <5> QED
          BY <1>2, <4>1, <5>1, OffPlacesAre
      <4>2. ASSUME NEW field \in OffFields(node.children[least]), IsBranch(node.children[least]),
                   results[least].path = <<field>>,
                   \A f \in OffFields(node.children[least]) : field <= f
            PROVE  /\ path \in OffPlaces(node)
                   /\ \E f \in OffFields(node.children[least]) :
                         /\ path = <<least, f>>
                         /\ \A g \in OffFields(node.children[least]) : f <= g
        <5>1. path = <<least, field>>
          <6>1. path = <<least>> \o <<field>>
            BY <4>2
          <6> QED
            BY <6>1, PairIs
        <5> QED
          BY <1>2, <4>2, <5>1, OffPlacesAre
      <4> QED
        BY <2>7, <2>10, <4>1, <4>2
    <3> HIDE DEF path, names
    <3>4. ASSUME NEW place \in OffPlaces(node) PROVE place = path \/ Sooner(path, place)
      <4>1. PICK name \in names :
               \/ ~ IsBranch(node.children[name]) /\ place = <<name>>
               \/ /\ IsBranch(node.children[name])
                  /\ \E field \in OffFields(node.children[name]) : place = <<name, field>>
        BY <1>2, <3>4, OffPlacesAre DEF names
      <4>2. ~ IsRead(results[name])
        BY <2>6, <4>1
      <4>3. least <= name /\ least \in Nat /\ name \in Nat
        BY <2>10, <3>2, <4>2
      <4>4. CASE least < name
        <5>1. /\ path \in {<<least>>} \cup {<<least, f>> : f \in Nat}
              /\ place \in {<<name>>} \cup {<<name, f>> : f \in Nat}
          BY <3>2, <3>3, <4>1
        <5> QED
          BY <4>3, <4>4, <5>1, SoonerAt
      <4>5. CASE least = name /\ ~ IsBranch(node.children[name])
        BY <3>3, <4>1, <4>5
      <4>6. CASE least = name /\ IsBranch(node.children[name])
        <5>1. PICK f \in OffFields(node.children[name]) : place = <<name, f>>
          BY <4>1, <4>6
        <5>2. PICK field \in OffFields(node.children[name]) : path = <<name, field>> /\ field <= f
          BY <3>3, <4>6, <5>1
        <5>3. f \in Nat /\ field \in Nat
          BY <3>2, <4>6
        <5>4. field = f \/ field < f
          BY <5>2, <5>3
        <5> QED
          BY <4>3, <5>1, <5>2, <5>3, <5>4, SoonerAt
      <4> QED
        BY <4>3, <4>4, <4>5, <4>6
    <3> QED
      BY <3>1, <3>3, <3>4 DEF ReadsExactly
  <2> QED
    BY <2>8, <2>9, <2>10
<1> QED
  BY <1>1, <1>2
================================================================================
