------------------------- MODULE ReconcilerRunsProofs -------------------------
(***************************************************************************)
(* A run of systems/reconciler.rs by the clock is a run of the loop that   *)
(* has no clock: proofs for any timelines, any troubles and any constants  *)
(* that stand to each other as those of the code do.                       *)
(***************************************************************************)
EXTENDS ReconcilerRuns, WellFoundedInduction, TLAPS

Kinds == {"list", "listing", "apply"}
Tag == {0, 1}

\* What is known of the values alone, and that every fault is over when it must be.
RTypes ==
    /\ timeline \in Timelines /\ stage \in 0 .. Len(timeline)
    /\ now \in Nat /\ since \in Nat /\ next \in Nat /\ pass \in 1 .. Passes + 1
    /\ gone \in BOOLEAN /\ look \in {"resting", "waiting"} /\ turn \in Tag
    /\ \A r \in DOMAIN due : due[r] \in Nat
    /\ \A i \in DOMAIN faults :
          faults[i].during.end \in Nat /\ faults[i].during.end <= Healed

\* What is on the wire.
Wires ==
    \A m \in wire :
       /\ m.kind \in Kinds /\ m.at \in Nat /\ m.tag \in Tag
       /\ m.to = (IF m.kind = "listing" THEN "controller" ELSE "server")
       /\ m.kind = "listing" => m.body.tag = m.tag

\* No two messages say the same, and a request has no answer before it is there.
Single ==
    /\ \A m, n \in wire :
          m.kind = n.kind /\ m.tag = n.tag /\ (m.kind = "apply" => m.body = n.body) => m = n
    /\ \A m, n \in wire : m.kind = "list" => n.kind # "listing"

\* What has landed is taken before time moves.
Prompt ==
    /\ ~ gone => \A m \in wire : m.to = "server" => m.at >= now
    /\ MorePasses /\ look = "waiting" => \A m \in wire : m.to = "controller" => m.at >= now

\* Where the clock stands in the pass, and how far the server has come by it.
Clock ==
    /\ since <= now
    /\ stage > 0 => timeline[stage].at <= since
    /\ look = "waiting" => MorePasses
    /\ MorePasses =>
          /\ Opens(pass) <= next /\ next + Patience <= Opens(pass + 1)
          /\ look = "resting" => now <= next
          /\ look = "waiting" => next <= now /\ now <= next + Patience

\* What is left of this look and of the one before, and when the last of it lands.
OnTheWay ==
    /\ ~ MorePasses => \A m \in wire : m.kind = "apply"
    /\ MorePasses =>
       \A m \in wire :
          /\ m.kind = "list" =>
                look = "waiting" /\ m.tag = turn /\ \E l \in Latency : m.at <= next + l
          /\ m.kind = "listing" =>
                look = "waiting" /\ m.tag = turn /\ \E l, k \in Latency : m.at <= next + (l + k)
          /\ m.kind = "apply" =>
                IF m.tag = turn THEN look = "resting" /\ m.at < next
                ELSE \E l \in Latency : m.at <= next + l

\* The server has heard from the controller not long ago, or the faults are not long over.
Heard ==
    MorePasses =>
       /\ ~ gone
       /\ next <= since + Period \/ next <= Healed + Period
       /\ look = "waiting" /\ next >= Healed =>
             since >= next \/ \E m \in wire : m.kind = "list"

RInv == RTypes /\ Wires /\ Single /\ Prompt /\ Clock /\ OnTheWay /\ Heard

--------------------------------------------------------------------------------
(* Arithmetic. *)

LEMMA OpensFacts ==
    /\ \A n \in Nat : Opens(n) \in Nat /\ Opens(n + 1) = Opens(n) + Period
    /\ Opens(1) = Period
    /\ Healed \in Nat /\ Period <= Healed /\ Period > 0
<1>1. Period \in Nat /\ Period > 0 /\ Passes \in Nat /\ ClearPasses \in 0 .. Passes
  BY RunsAssumption
<1>2. ASSUME NEW n \in Nat PROVE Opens(n) \in Nat /\ Opens(n + 1) = Opens(n) + Period
  BY <1>1, SMT DEF Opens
<1>3. Opens(1) = Period
  BY <1>1 DEF Opens
<1>4. PICK n \in Nat : Passes + 1 - ClearPasses = n + 1
  <2>1. Passes - ClearPasses \in Nat /\ Passes + 1 - ClearPasses = (Passes - ClearPasses) + 1
    BY <1>1
  <2> QED
    BY <2>1
<1>5. Healed = Opens(n) + Period
  BY <1>2, <1>4 DEF Healed
<1> QED
  BY <1>1, <1>2, <1>3, <1>5

LEMMA TimesFacts ==
    /\ Healed < MaxTime
    /\ Patience \in Nat /\ Period \in Nat /\ Requeue \in Nat /\ Quiet \in Nat
    /\ Latency \subseteq Nat /\ Patience <= Period
    /\ \A l, k \in Latency : l + k < Patience
    /\ \A l \in Latency : l < Patience /\ l < Requeue /\ Period + l < Quiet
    /\ \A t \in Timelines : \A l \in Latency : Healed + Period + l < t[Len(t)].at + Quiet
    /\ \E l \in Latency : l \in Nat
<1>1. Healed = (Passes + 1 - ClearPasses) * Period
  BY DEF Healed, Opens
<1>2. /\ Healed < MaxTime
      /\ \A l, k \in Latency : l + k < Patience
      /\ Patience <= Period
      /\ \A l \in Latency : l < Requeue /\ Period + l < Quiet
      /\ \A t \in Timelines : \A l \in Latency : Healed + Period + l < t[Len(t)].at + Quiet
  BY <1>1, TimesAssumption, Zenon
<1>3. /\ Patience \in Nat /\ Period \in Nat /\ Requeue \in Nat /\ Quiet \in Nat
      /\ Latency \subseteq Nat /\ Latency # {}
  BY RunsAssumption
<1>4. ASSUME NEW l \in Latency PROVE l < Patience
  <2>1. l + l < Patience /\ l \in Nat
    BY <1>2, <1>3
  <2> QED
    BY <1>3, <2>1
<1> QED
  BY <1>2, <1>3, <1>4

LEMMA LeastOfMany ==
    ASSUME NEW T \in SUBSET Nat, T # {}
    PROVE  Min(T) \in T /\ \A y \in T : Min(T) <= y
<1> DEFINE R == OpToRel(<, Nat)
<1>1. IsWellFoundedOn(R, Nat)
  BY NatLessThanWellFounded
<1>2. PICK x \in T : \A y \in T : <<y, x>> \notin R
  <2> HIDE DEF R
  <2> QED
    BY <1>1, WFMin
<1>3. ASSUME NEW y \in T PROVE x <= y
  <2>1. ~ (y < x)
    BY <1>2 DEF OpToRel
  <2> QED
    BY <2>1
<1> QED
  BY <1>3 DEF Min

\* A timeline, and when its changes are made.
LEMMA TimelineFacts ==
    ASSUME NEW t \in Timelines
    PROVE  /\ Len(t) \in Nat /\ Len(t) > 0 /\ DOMAIN t = 1 .. Len(t)
           /\ \A i \in 1 .. Len(t) : t[i].at \in Nat
<1> DEFINE Entry == [at : Nat, wanted : [Region -> {"primary", "standby", "nothing"}]]
<1>1. t \in Seq(Entry) /\ t # <<>>
  BY RunsAssumption
<1>2. \A e \in Entry : e.at \in Nat
  OBVIOUS
<1> HIDE DEF Entry
<1>3. /\ Len(t) \in Nat /\ Len(t) > 0 /\ DOMAIN t = 1 .. Len(t)
      /\ \A i \in 1 .. Len(t) : t[i] \in Entry
  BY <1>1
<1> QED
  BY <1>2, <1>3

--------------------------------------------------------------------------------
(* The wire. *)

Message(to, l, kind, tag, body) ==
    [to |-> to, at |-> now + l, kind |-> kind, tag |-> tag, body |-> body]

\* No fault is in force once they are over.
LEMMA NoneInForce ==
    ASSUME RTypes, now >= Healed, NEW from, NEW to
    PROVE  InForce(faults, from, to, now) = {}
<1> SUFFICES ASSUME NEW i \in DOMAIN faults, HoldsAt(faults[i].during, now) PROVE FALSE
  BY DEF InForce, Applies
<1>1. faults[i].during.end \in Nat /\ faults[i].during.end <= Healed /\ now \in Nat
  BY DEF RTypes
<1>2. Healed \in Nat /\ Healed < MaxTime /\ MaxTime \in Nat
  BY OpensFacts, TimesFacts, MaxTimeAssumption
<1> QED
  BY <1>1, <1>2 DEF HoldsAt

\* A message that is sent gets there within its time or not at all, and once the faults
\* are over it gets there.
LEMMA SentIs ==
    ASSUME NEW from, NEW to, NEW kind, NEW tag, NEW body,
           NEW sent \in Sent(from, to, kind, tag, body)
    PROVE  /\ sent = {} \/ \E l \in Latency : sent = {Message(to, l, kind, tag, body)}
           /\ RTypes /\ now >= Healed => sent # {}
<1> DEFINE Delivered == {{Message(to, l, kind, tag, body)} : l \in Latency}
           odds == LossOdds(faults, from, to, now, NoOdds)
<1>1. Sent(from, to, kind, tag, body) =
         IF Partitioned(faults, from, to, now) THEN {{}}
         ELSE UNION {IF dropped THEN {{}} ELSE Delivered : dropped \in Draws(odds)}
  BY DEF Sent, Message
<1>2. sent = {} \/ sent \in Delivered
  <2> HIDE DEF Delivered, odds
  <2>1. CASE Partitioned(faults, from, to, now)
    BY <1>1, <2>1
  <2>2. CASE ~ Partitioned(faults, from, to, now)
    <3>1. PICK dropped \in Draws(odds) : sent \in IF dropped THEN {{}} ELSE Delivered
      BY <1>1, <2>2
    <3> QED
      BY <3>1
  <2> QED
    BY <2>1, <2>2
<1>3. ASSUME RTypes, now >= Healed PROVE sent # {}
  <2>1. InForce(faults, from, to, now) = {}
    BY <1>3, NoneInForce
  <2>2. FirstApplying(faults, from, to, now) = {}
    BY <2>1 DEF FirstApplying
  <2>3. ~ Partitioned(faults, from, to, now) /\ odds = NoOdds
    BY <2>2 DEF Partitioned, LossOdds
  <2>4. Draws(NoOdds) = {FALSE}
    <3>1. NoOdds.numerator = 0 /\ NoOdds.denominator = 1
      BY DEF NoOdds
    <3>2. ASSUME NEW b \in BOOLEAN PROVE b \in Draws(NoOdds) <=> b = FALSE
      BY <3>1 DEF Draws
    <3>3. Draws(NoOdds) \subseteq BOOLEAN
      BY DEF Draws
    <3> QED
      BY <3>2, <3>3
  <2>5. sent \in Delivered
    <3> HIDE DEF Delivered, odds
    <3>1. PICK dropped \in Draws(odds) : sent \in IF dropped THEN {{}} ELSE Delivered
      BY <1>1, <2>3
    <3>2. dropped = FALSE
      BY <2>3, <2>4, <3>1
    <3> QED
      BY <3>1, <3>2
  <2> QED
    BY <2>5
<1> QED
  BY <1>2, <1>3

LEMMA MessageIs ==
    ASSUME NEW to, NEW l, NEW kind, NEW tag, NEW body, NEW m, m = Message(to, l, kind, tag, body)
    PROVE  m.to = to /\ m.at = now + l /\ m.kind = kind /\ m.tag = tag /\ m.body = body
BY DEF Message

\* What is taken has landed, and for the server, just now.
LEMMA TakenIs ==
    ASSUME NEW node, NEW m \in Taken(node)
    PROVE  m \in wire /\ m.to = node /\ m.at <= now
BY DEF Taken

--------------------------------------------------------------------------------
(* The invariant, action by action: the server. *)

\* A pass goes on only while there are passes.
LEMMA PassFacts ==
    ASSUME RInv
    PROVE  /\ now \in Nat /\ since \in Nat /\ next \in Nat /\ pass \in Nat
           /\ Opens(pass) \in Nat /\ Opens(pass + 1) = Opens(pass) + Period
           /\ Opens(pass + 1) \in Nat
<1>1. now \in Nat /\ since \in Nat /\ next \in Nat /\ pass \in 1 .. Passes + 1
  BY DEF RInv, RTypes
<1>2. pass \in Nat /\ pass + 1 \in Nat
  BY <1>1, RunsAssumption
<1>3. Opens(pass) \in Nat /\ Opens(pass + 1) = Opens(pass) + Period /\ Opens(pass + 1) \in Nat
  BY <1>2, OpensFacts
<1> QED
  BY <1>1, <1>2, <1>3

\* Whatever the server is waiting for, it is over before long.
LEMMA WaitFacts ==
    ASSUME RInv
    PROVE  /\ WaitEnds \in Nat
           /\ Awaited \subseteq Nat
           /\ Awaited = {} => stage = Len(timeline) /\ WaitEnds = since + Quiet
<1>1. /\ timeline \in Timelines /\ stage \in 0 .. Len(timeline) /\ since \in Nat
      /\ \A r \in DOMAIN due : due[r] \in Nat
  BY DEF RInv, RTypes
<1>2. /\ Len(timeline) \in Nat /\ \A i \in 1 .. Len(timeline) : timeline[i].at \in Nat
  BY <1>1, TimelineFacts
<1>3. MoreChanges => timeline[stage + 1].at \in Nat
  BY <1>1, <1>2 DEF MoreChanges
<1>4. Awaited \subseteq Nat
  BY <1>1, <1>3 DEF Awaited
<1>5. Awaited = {} => stage = Len(timeline) /\ WaitEnds = since + Quiet
  <2> SUFFICES ASSUME Awaited = {} PROVE stage = Len(timeline) /\ WaitEnds = since + Quiet
    OBVIOUS
  <2>1. ~ MoreChanges
    BY DEF Awaited
  <2> QED
    BY <1>1, <1>2, <2>1 DEF MoreChanges, WaitEnds
<1>6. WaitEnds \in Nat
  <2>1. CASE Awaited = {}
    <3>1. since + Quiet \in Nat
      BY <1>1, TimesFacts
    <3> QED
      BY <1>5, <2>1, <3>1
  <2>2. CASE Awaited # {}
    <3>1. WaitEnds = Min(Awaited)
      BY <2>2 DEF WaitEnds
    <3> QED
      BY <1>4, <2>2, <3>1, LeastOfMany
  <2> QED
    BY <2>1, <2>2
<1> QED
  BY <1>4, <1>5, <1>6

LEMMA StageFacts ==
    ASSUME RInv
    PROVE  stage > 0 => timeline[stage].at \in Nat /\ timeline[stage].at <= now
<1>1. /\ timeline \in Timelines /\ stage \in 0 .. Len(timeline) /\ since \in Nat
      /\ since <= now /\ now \in Nat
      /\ stage > 0 => timeline[stage].at <= since
  BY DEF RInv, RTypes, Clock
<1>2. /\ Len(timeline) \in Nat /\ \A i \in 1 .. Len(timeline) : timeline[i].at \in Nat
  BY <1>1, TimelineFacts
<1> SUFFICES ASSUME stage > 0 PROVE timeline[stage].at \in Nat /\ timeline[stage].at <= now
  OBVIOUS
<1>3. stage \in 1 .. Len(timeline)
  BY <1>1, <1>2
<1> QED
  BY <1>1, <1>2, <1>3

\* The server does something, and goes round again.
LEMMA RoundKeeps ==
    ASSUME RInv, Round, ~ gone, gone' = gone,
           wire' \subseteq wire,
           stage' \in 0 .. Len(timeline), stage' > 0 => timeline[stage'].at <= now,
           \A r \in DOMAIN due' : due'[r] \in Nat
    PROVE  RInv'
<1>1. /\ RTypes /\ Wires /\ Single /\ Prompt /\ Clock /\ OnTheWay /\ Heard
  BY DEF RInv
<1>2. /\ since' = now /\ timeline' = timeline /\ faults' = faults
      /\ UNCHANGED <<now, pass, next, look, turn>>
  BY DEF Round, fixed, controller
<1>3. /\ now \in Nat /\ since \in Nat /\ next \in Nat /\ since <= now /\ now <= now
  BY <1>1, PassFacts DEF Clock
<1>4. MorePasses' = MorePasses
  BY <1>2 DEF MorePasses
<1>5. RTypes'
  BY <1>1, <1>2 DEF RTypes
<1>6. Wires' /\ Single'
  BY <1>1 DEF Wires, Single
<1>7. Prompt'
  BY <1>1, <1>2, <1>4 DEF Prompt
<1>8. Clock'
  BY <1>1, <1>2, <1>3, <1>4 DEF Clock
<1>9. OnTheWay'
  BY <1>1, <1>2, <1>4 DEF OnTheWay
<1>10. Heard'
  <2> SUFFICES ASSUME MorePasses PROVE
         /\ ~ gone'
         /\ next' <= since' + Period \/ next' <= Healed + Period
         /\ look' = "waiting" /\ next' >= Healed =>
               since' >= next' \/ \E m \in wire' : m.kind = "list"
    BY <1>4 DEF Heard
  <2>1. next <= since + Period \/ next <= Healed + Period
    BY <1>1 DEF Heard
  <2>2. next <= now + Period \/ next <= Healed + Period
    BY <1>3, <2>1, TimesFacts
  <2>3. look = "waiting" => now >= next
    BY <1>1, <1>3 DEF Clock
  <2> QED
    BY <1>2, <2>2, <2>3
<1> QED
  BY <1>5, <1>6, <1>7, <1>8, <1>9, <1>10 DEF RInv

--------------------------------------------------------------------------------
(* The loop that has no clock, as the run by the clock shows it. *)

ListsIn(W) == {m.tag : m \in {l \in W : l.kind = "list"}}
ListingsIn(W) == {m.body : m \in {l \in W : l.kind = "listing"}}
AsksIn(W) == {[tag |-> m.tag, action |-> m.body] : m \in {a \in W : a.kind = "apply"}}

LEMMA WireSums ==
    ASSUME NEW V, NEW S
    PROVE  /\ ListsIn(V \cup S) = ListsIn(V) \cup ListsIn(S)
           /\ ListingsIn(V \cup S) = ListingsIn(V) \cup ListingsIn(S)
           /\ AsksIn(V \cup S) = AsksIn(V) \cup AsksIn(S)
           /\ ListsIn({}) = {} /\ ListingsIn({}) = {} /\ AsksIn({}) = {}
<1>1. ListsIn(V \cup S) = ListsIn(V) \cup ListsIn(S) /\ ListsIn({}) = {}
  BY DEF ListsIn
<1>2. ListingsIn(V \cup S) = ListingsIn(V) \cup ListingsIn(S) /\ ListingsIn({}) = {}
  BY DEF ListingsIn
<1>3. AsksIn(V \cup S) = AsksIn(V) \cup AsksIn(S) /\ AsksIn({}) = {}
  BY DEF AsksIn
<1> QED
  BY <1>1, <1>2, <1>3

LEMMA OneMessage ==
    ASSUME NEW m
    PROVE  /\ ListsIn({m}) = IF m.kind = "list" THEN {m.tag} ELSE {}
           /\ ListingsIn({m}) = IF m.kind = "listing" THEN {m.body} ELSE {}
           /\ AsksIn({m}) = IF m.kind = "apply" THEN {[tag |-> m.tag, action |-> m.body]} ELSE {}
<1>1. ListsIn({m}) = IF m.kind = "list" THEN {m.tag} ELSE {}
  BY DEF ListsIn
<1>2. ListingsIn({m}) = IF m.kind = "listing" THEN {m.body} ELSE {}
  BY DEF ListingsIn
<1>3. AsksIn({m}) = IF m.kind = "apply" THEN {[tag |-> m.tag, action |-> m.body]} ELSE {}
  BY DEF AsksIn
<1> QED
  BY <1>1, <1>2, <1>3

\* What is taken off the wire is gone from what the loop has there: nothing else says the same.
LEMMA WireWithout ==
    ASSUME RInv, NEW m \in wire
    PROVE  LET W == wire \ {m} IN
           /\ ListsIn(W) = IF m.kind = "list" THEN ListsIn(wire) \ {m.tag} ELSE ListsIn(wire)
           /\ ListingsIn(W) = IF m.kind = "listing" THEN ListingsIn(wire) \ {m.body}
                              ELSE ListingsIn(wire)
           /\ AsksIn(W) = IF m.kind = "apply"
                          THEN AsksIn(wire) \ {[tag |-> m.tag, action |-> m.body]}
                          ELSE AsksIn(wire)
<1> DEFINE W == wire \ {m}
<1>1. /\ Wires
      /\ \A a, b \in wire :
            a.kind = b.kind /\ a.tag = b.tag /\ (a.kind = "apply" => a.body = b.body) => a = b
  BY DEF RInv, Single
<1>2. ListsIn(W) = IF m.kind = "list" THEN ListsIn(wire) \ {m.tag} ELSE ListsIn(wire)
  BY <1>1 DEF ListsIn
<1>3. ListingsIn(W) = IF m.kind = "listing" THEN ListingsIn(wire) \ {m.body}
                      ELSE ListingsIn(wire)
  <2>1. \A a, b \in wire : a.kind = "listing" /\ b.kind = "listing" /\ a.body = b.body => a = b
    BY <1>1 DEF Wires
  <2> QED
    BY <2>1 DEF ListingsIn
<1>4. AsksIn(W) = IF m.kind = "apply"
                  THEN AsksIn(wire) \ {[tag |-> m.tag, action |-> m.body]}
                  ELSE AsksIn(wire)
  <2>1. \A a, b \in wire : a.kind = "apply" /\ b.kind = "apply"
            /\ [tag |-> a.tag, action |-> a.body] = [tag |-> b.tag, action |-> b.body] => a = b
    BY <1>1
  <2> QED
    BY <2>1 DEF AsksIn
<1> QED
  BY <1>2, <1>3, <1>4

\* What the loop sees of the wire when something is taken off it and something put on it.
LEMMA WireStep ==
    ASSUME RInv, NEW m \in wire, NEW sent, wire' = (wire \ {m}) \cup sent
    PROVE  /\ ListsIn(wire') = (IF m.kind = "list" THEN ListsIn(wire) \ {m.tag} ELSE ListsIn(wire))
                                \cup ListsIn(sent)
           /\ ListingsIn(wire') = (IF m.kind = "listing" THEN ListingsIn(wire) \ {m.body}
                                   ELSE ListingsIn(wire)) \cup ListingsIn(sent)
           /\ AsksIn(wire') = (IF m.kind = "apply"
                               THEN AsksIn(wire) \ {[tag |-> m.tag, action |-> m.body]}
                               ELSE AsksIn(wire)) \cup AsksIn(sent)
<1> DEFINE W == wire \ {m}
<1>1. /\ ListsIn(W) = IF m.kind = "list" THEN ListsIn(wire) \ {m.tag} ELSE ListsIn(wire)
      /\ ListingsIn(W) = IF m.kind = "listing" THEN ListingsIn(wire) \ {m.body}
                         ELSE ListingsIn(wire)
      /\ AsksIn(W) = IF m.kind = "apply"
                     THEN AsksIn(wire) \ {[tag |-> m.tag, action |-> m.body]}
                     ELSE AsksIn(wire)
  BY WireWithout
<1>2. wire' = W \cup sent
  OBVIOUS
<1> HIDE DEF W
<1>3. /\ ListsIn(W \cup sent) = ListsIn(W) \cup ListsIn(sent)
      /\ ListingsIn(W \cup sent) = ListingsIn(W) \cup ListingsIn(sent)
      /\ AsksIn(W \cup sent) = AsksIn(W) \cup AsksIn(sent)
  BY WireSums
<1> QED
  BY <1>1, <1>2, <1>3, Zenon

--------------------------------------------------------------------------------
(* The server's steps. *)

\* A change moves the wishes of the loop's timeline with it.
LEMMA WishesAre ==
    /\ Len(Changes) = Len(timeline)
    /\ Loop!Wanted = Wanted
BY DEF Changes, Wanted, Loop!Wanted

LEMMA AnswerStep ==
    ASSUME RInv, Answer
    PROVE  RInv' /\ Loop!Next
<1>1. PICK m \in Hears("list") :
        /\ \E sent \in Sent("server", "controller", "listing", m.tag,
                            [tag |-> m.tag, wanted |-> Wanted, role |-> role, phase |-> phase]) :
              wire' = (wire \ {m}) \cup sent
        /\ Round
        /\ UNCHANGED <<stage, role, phase, lost, due, gone, spoiled>>
  BY DEF Answer
<1> DEFINE body == [tag |-> m.tag, wanted |-> Wanted, role |-> role, phase |-> phase]
<1>2. PICK sent \in Sent("server", "controller", "listing", m.tag, body) :
        wire' = (wire \ {m}) \cup sent
  BY <1>1
<1>3. m \in wire /\ m.to = "server" /\ m.at <= now /\ m.kind = "list" /\ ~ gone
  BY TakenIs DEF Hears
<1>4. /\ RTypes /\ Wires /\ Single /\ Prompt /\ Clock /\ OnTheWay /\ Heard
  BY DEF RInv
<1>5. m.tag \in Tag /\ m.at = now /\ now \in Nat
  <2>1. m.tag \in Tag /\ m.at \in Nat
    BY <1>3, <1>4 DEF Wires
  <2>2. m.at >= now
    BY <1>3, <1>4 DEF Prompt
  <2> QED
    BY <1>3, <2>1, <2>2, PassFacts
<1>6. sent = {} \/ \E l \in Latency : sent = {Message("controller", l, "listing", m.tag, body)}
  BY SentIs
<1>7. \A s \in sent : /\ s.to = "controller" /\ s.kind = "listing" /\ s.tag = m.tag
                     /\ s.body = body
                     /\ \E l \in Latency : s.at = now + l
  BY <1>6 DEF Message
<1>8. \A s, t \in sent : s = t
  BY <1>6
<1>9. RInv'
  <2>1. /\ since' = now /\ timeline' = timeline /\ faults' = faults
        /\ UNCHANGED <<now, pass, next, look, turn>>
        /\ UNCHANGED <<stage, due, gone>>
    BY <1>1 DEF Round, fixed, controller
  <2>2. /\ now \in Nat /\ since \in Nat /\ next \in Nat /\ since <= now /\ now <= now
    BY <1>4, PassFacts DEF Clock
  <2>3. MorePasses' = MorePasses
    BY <2>1 DEF MorePasses
  <2>4. RTypes'
    BY <1>4, <2>1 DEF RTypes
  <2>5. Wires'
    <3> SUFFICES ASSUME NEW s \in wire'
                 PROVE  /\ s.kind \in Kinds /\ s.at \in Nat /\ s.tag \in Tag
                        /\ s.to = (IF s.kind = "listing" THEN "controller" ELSE "server")
                        /\ s.kind = "listing" => s.body.tag = s.tag
      BY DEF Wires
    <3>1. CASE s \in wire
      BY <1>4, <3>1 DEF Wires
    <3>2. CASE s \in sent
      <4>1. s.kind = "listing" /\ s.to = "controller" /\ s.tag \in Tag /\ s.at \in Nat
        BY <1>5, <1>7, <3>2, TimesFacts
      <4>2. s.body.tag = s.tag
        BY <1>7, <3>2
      <4> QED
        BY <4>1, <4>2 DEF Kinds
    <3> QED
      BY <1>2, <3>1, <3>2
  <2>6. Single'
    <3>1. \A s \in wire : s.kind # "listing" 
      BY <1>3, <1>4 DEF Single
    <3>2. \A s \in wire : s.kind = "list" /\ s # m => s.tag # m.tag
      BY <1>3, <1>4 DEF Single
    <3>3. \A s \in wire : s.kind = "list" => s = m
      <4>1. MorePasses
        BY <1>3, <1>4 DEF OnTheWay
      <4> QED
        BY <1>3, <1>4, <3>2, <4>1 DEF OnTheWay
    <3>4. \A s, t \in wire' : s.kind = t.kind /\ s.tag = t.tag
              /\ (s.kind = "apply" => s.body = t.body) => s = t
      BY <1>2, <1>4, <1>7, <1>8, <3>1 DEF Single
    <3>5. \A s, t \in wire' : s.kind = "list" => t.kind # "listing"
      BY <1>2, <1>7, <3>3
    <3> QED
      BY <3>4, <3>5 DEF Single
  <2>7. Prompt'
    <3>1. \A s \in sent : s.to = "controller" /\ s.at >= now
      BY <1>7, <2>2, TimesFacts
    <3> QED
      BY <1>2, <1>4, <2>1, <2>3, <3>1 DEF Prompt
  <2>8. Clock'
    <3>1. stage > 0 => timeline[stage].at <= now
      BY StageFacts
    <3> QED
      BY <1>4, <2>1, <2>2, <2>3, <3>1 DEF Clock
  <2>9. OnTheWay'
    <3>0. MorePasses
      BY <1>3, <1>4 DEF OnTheWay
    <3>1. PICK l \in Latency : look = "waiting" /\ m.tag = turn /\ now <= next + l
      BY <1>3, <1>4, <1>5, <3>0 DEF OnTheWay
    <3>2. \A s \in sent : /\ s.kind = "listing" /\ s.tag = turn
                         /\ \E j, k \in Latency : s.at <= next + (j + k)
      <4> SUFFICES ASSUME NEW s \in sent PROVE \E j, k \in Latency : s.at <= next + (j + k)
        BY <1>7, <3>1
      <4>1. PICK k \in Latency : s.at = now + k
        BY <1>7
      <4>2. l \in Nat /\ k \in Nat
        BY TimesFacts
      <4>3. s.at <= next + (l + k)
        BY <2>2, <3>1, <4>1, <4>2
      <4> QED
        BY <4>3
    <3> QED
      BY <1>2, <1>4, <2>1, <2>3, <3>0, <3>1, <3>2 DEF OnTheWay
  <2>10. Heard'
    <3>0. MorePasses
      BY <1>3, <1>4 DEF OnTheWay
    <3>1. next <= since + Period \/ next <= Healed + Period
      BY <1>4, <3>0 DEF Heard
    <3>2. next <= now + Period \/ next <= Healed + Period
      BY <2>2, <3>1, TimesFacts
    <3>3. look = "waiting" => now >= next
      BY <1>4, <2>2, <3>0 DEF Clock
    <3> QED
      BY <1>3, <2>1, <3>2, <3>3 DEF Heard
  <2> QED
    BY <2>4, <2>5, <2>6, <2>7, <2>8, <2>9, <2>10 DEF RInv
<1>10. Loop!Answer(m.tag)
  <2>1. m.tag \in ListsIn(wire)
    BY <1>3 DEF ListsIn
  <2>2. /\ ListsIn(wire') = (ListsIn(wire) \ {m.tag}) \cup ListsIn(sent)
        /\ ListingsIn(wire') = ListingsIn(wire) \cup ListingsIn(sent)
        /\ AsksIn(wire') = AsksIn(wire) \cup AsksIn(sent)
    BY <1>2, <1>3, WireStep
  <2>3. ListsIn(sent) = {} /\ AsksIn(sent) = {}
    BY <1>7 DEF ListsIn, AsksIn
  <2>4. ListingsIn(sent) \in Loop!Carried({body})
    <3>1. ListingsIn(sent) = {} \/ ListingsIn(sent) = {body}
      BY <1>6, <1>7 DEF ListingsIn
    <3>2. now >= Healed => ListingsIn(sent) = {body}
      <4>1. now >= Healed => sent # {}
        BY <1>4, SentIs
      <4> QED
        BY <1>7, <4>1 DEF ListingsIn
    <3> QED
      BY <3>1, <3>2 DEF Loop!Carried
  <2>5. /\ UNCHANGED <<timeline, stage, role, phase, lost, due, look, turn, now>>
        /\ Loop!Wanted = Wanted
    BY <1>1, WishesAre DEF Round, fixed, controller
  <2>6. \E carried \in Loop!Carried({[tag |-> m.tag, wanted |-> Loop!Wanted, role |-> role,
                                      phase |-> phase]}) :
           ListingsIn(wire)' = ListingsIn(wire) \cup carried
    BY <2>2, <2>4, <2>5
  <2>7. /\ ListsIn(wire)' = ListsIn(wire) \ {m.tag}
        /\ AsksIn(wire)' = AsksIn(wire)
    BY <2>2, <2>3
  <2> QED
    BY <2>1, <2>5, <2>6, <2>7
       DEF Loop!Answer, Loop!serverVars, Loop!controlVars, ListsIn, ListingsIn, AsksIn, Changes
<1> QED
  BY <1>5, <1>9, <1>10 DEF Loop!Next, Loop!Serve, Loop!Tag, Tag

AskOf(m) == [tag |-> m.tag, action |-> m.body]

LEMMA HeardAsk ==
    ASSUME RInv, NEW m \in Hears("apply"), wire' = wire \ {m}
    PROVE  /\ ~ gone /\ wire' \subseteq wire
           /\ AskOf(m) \in AsksIn(wire) /\ AsksIn(wire)' = AsksIn(wire) \ {AskOf(m)}
           /\ UNCHANGED <<ListsIn(wire), ListingsIn(wire)>>
           /\ AskOf(m).action = m.body
<1>1. m \in wire /\ m.kind = "apply" /\ ~ gone
  BY TakenIs DEF Hears
<1>2. AskOf(m) \in AsksIn(wire) /\ AskOf(m).action = m.body
  BY <1>1 DEF AsksIn, AskOf
<1>3. /\ ListsIn(wire \ {m}) = ListsIn(wire)
      /\ ListingsIn(wire \ {m}) = ListingsIn(wire)
      /\ AsksIn(wire \ {m}) = AsksIn(wire) \ {AskOf(m)}
  BY <1>1, WireWithout DEF AskOf
<1> QED
  BY <1>1, <1>2, <1>3

\* The types the rounds of the server leave its instants in.
LEMMA DueFacts ==
    ASSUME RInv
    PROVE  /\ \A r \in DOMAIN due : due[r] \in Nat
           /\ \A r : \A takes \in Nat :
                 /\ DOMAIN Armed(r, takes) = DOMAIN due \cup {r}
                 /\ \A q \in DOMAIN due \cup {r} : Armed(r, takes)[q] \in Nat
           /\ \A r : /\ DOMAIN Disarmed(r) = DOMAIN due \ {r}
                     /\ \A q \in DOMAIN due \ {r} : Disarmed(r)[q] \in Nat
<1>1. now \in Nat /\ \A r \in DOMAIN due : due[r] \in Nat
  BY DEF RInv, RTypes
<1>2. ASSUME NEW r, NEW takes \in Nat
      PROVE  /\ DOMAIN Armed(r, takes) = DOMAIN due \cup {r}
             /\ \A q \in DOMAIN due \cup {r} : Armed(r, takes)[q] \in Nat
  BY <1>1 DEF Armed
<1>3. ASSUME NEW r
      PROVE  /\ DOMAIN Disarmed(r) = DOMAIN due \ {r}
             /\ \A q \in DOMAIN due \ {r} : Disarmed(r)[q] \in Nat
  BY <1>1 DEF Disarmed
<1> QED
  BY <1>1, <1>2, <1>3

\* A round of the server that leaves the timeline where it is keeps the invariant.
LEMMA RoundHere ==
    ASSUME RInv, Round, ~ gone, UNCHANGED <<stage, gone>>, wire' \subseteq wire,
           \A r \in DOMAIN due' : due'[r] \in Nat
    PROVE  RInv'
<1>1. stage' \in 0 .. Len(timeline) /\ (stage' > 0 => timeline[stage'].at <= now)
  BY StageFacts DEF RInv, RTypes
<1> QED
  BY <1>1, RoundKeeps

LEMMA CreateStep ==
    ASSUME RInv, Create
    PROVE  RInv' /\ Loop!Next
<1>1. PICK m \in Hears("apply"), takes \in Provisioning :
        LET r == m.body.region
            refused == role[r] # "none"
                         \/ (m.body.role = "primary" /\ \E q \in Region : role[q] = "primary")
        IN /\ m.body.kind = "create"
           /\ wire' = wire \ {m}
           /\ role' = IF refused THEN role ELSE [role EXCEPT ![r] = m.body.role]
           /\ phase' = IF refused THEN phase ELSE [phase EXCEPT ![r] = "provisioning"]
           /\ due' = IF refused THEN due ELSE Armed(r, takes)
           /\ UNCHANGED <<stage, lost, gone>>
           /\ Round
  BY DEF Create
<1> DEFINE r == m.body.region
           refused == role[r] # "none"
                         \/ (m.body.role = "primary" /\ \E q \in Region : role[q] = "primary")
<1>2. takes \in Nat
  BY RunsAssumption
<1>3. /\ ~ gone /\ wire' \subseteq wire
      /\ AskOf(m) \in AsksIn(wire) /\ AsksIn(wire)' = AsksIn(wire) \ {AskOf(m)}
      /\ UNCHANGED <<ListsIn(wire), ListingsIn(wire)>>
      /\ AskOf(m).action = m.body
  BY <1>1, HeardAsk
<1>4. DOMAIN due' = IF refused THEN DOMAIN due ELSE DOMAIN due \cup {r}
  BY <1>1, <1>2, DueFacts
<1>5. \A q \in DOMAIN due' : due'[q] \in Nat
  BY <1>1, <1>2, DueFacts
<1>6. RInv'
  BY <1>1, <1>3, <1>5, RoundHere
<1>7. Loop!Create(AskOf(m))
  <2>1. UNCHANGED <<timeline, stage, lost, look, turn, now>>
    BY <1>1 DEF Round, fixed, controller
  <2>2. refused <=> role[r] # "none" \/ (m.body.role = "primary" /\ Loop!HasPrimary(role))
    BY DEF Loop!HasPrimary
  <2>3. IF role[r] # "none" \/ (m.body.role = "primary" /\ Loop!HasPrimary(role))
        THEN UNCHANGED <<role, phase, DOMAIN due>>
        ELSE /\ role' = [role EXCEPT ![r] = m.body.role]
             /\ phase' = [phase EXCEPT ![r] = "provisioning"]
             /\ (DOMAIN due)' = DOMAIN due \cup {r}
    <3> HIDE DEF refused
    <3>1. CASE refused
      BY <1>1, <1>4, <2>2, <3>1 DEF refused
    <3>2. CASE ~ refused
      BY <1>1, <1>4, <2>2, <3>2 DEF refused
    <3> QED
      BY <3>1, <3>2
  <2> QED
    BY <1>1, <1>3, <2>1, <2>3
       DEF Loop!Create, Loop!controlVars, ListsIn, ListingsIn, AsksIn, Changes
<1> QED
  BY <1>3, <1>6, <1>7 DEF Loop!Next, Loop!Serve, AsksIn

LEMMA PromoteStep ==
    ASSUME RInv, Promote
    PROVE  RInv' /\ Loop!Next
<1>1. PICK m \in Hears("apply") :
        LET r == m.body.region
            refused == role[r] # "standby" \/ phase[r] # "ready"
        IN /\ m.body.kind = "promote"
           /\ wire' = wire \ {m}
           /\ role' = IF refused THEN role ELSE Loop!SteppedDown(r)
           /\ UNCHANGED <<stage, phase, lost, due, gone>>
           /\ Round
  BY DEF Promote
<1> DEFINE r == m.body.region
<1>3. /\ ~ gone /\ wire' \subseteq wire
      /\ AskOf(m) \in AsksIn(wire) /\ AsksIn(wire)' = AsksIn(wire) \ {AskOf(m)}
      /\ UNCHANGED <<ListsIn(wire), ListingsIn(wire)>>
      /\ AskOf(m).action = m.body
  BY <1>1, HeardAsk
<1>5. \A q \in DOMAIN due' : due'[q] \in Nat
  BY <1>1, DueFacts
<1>6. RInv'
  BY <1>1, <1>3, <1>5, RoundHere
<1>7. Loop!Promote(AskOf(m))
  <2>1. UNCHANGED <<timeline, stage, lost, phase, due, look, turn, now>>
    BY <1>1 DEF Round, fixed, controller
  <2>2. role' = IF role[r] = "standby" /\ phase[r] = "ready" THEN Loop!SteppedDown(r) ELSE role
    <3>1. CASE role[r] = "standby" /\ phase[r] = "ready"
      BY <1>1, <3>1
    <3>2. CASE ~ (role[r] = "standby" /\ phase[r] = "ready")
      BY <1>1, <3>2
    <3> QED
      BY <3>1, <3>2
  <2> QED
    BY <1>1, <1>3, <2>1, <2>2
       DEF Loop!Promote, Loop!controlVars, ListsIn, ListingsIn, AsksIn, Changes
<1> QED
  BY <1>3, <1>6, <1>7 DEF Loop!Next, Loop!Serve, AsksIn

LEMMA DeleteStep ==
    ASSUME RInv, Delete
    PROVE  RInv' /\ Loop!Next
<1>1. PICK m \in Hears("apply") :
        LET r == m.body.region
        IN /\ m.body.kind = "delete"
           /\ wire' = wire \ {m}
           /\ role' = [role EXCEPT ![r] = "none"]
           /\ phase' = [phase EXCEPT ![r] = "provisioning"]
           /\ lost' = (lost \/ (role[r] = "primary" /\ ~ Loop!StandbyInSync))
           /\ due' = Disarmed(r)
           /\ UNCHANGED <<stage, gone>>
           /\ Round
  BY DEF Delete
<1> DEFINE r == m.body.region
<1>3. /\ ~ gone /\ wire' \subseteq wire
      /\ AskOf(m) \in AsksIn(wire) /\ AsksIn(wire)' = AsksIn(wire) \ {AskOf(m)}
      /\ UNCHANGED <<ListsIn(wire), ListingsIn(wire)>>
      /\ AskOf(m).action = m.body
  BY <1>1, HeardAsk
<1>4. (DOMAIN due)' = DOMAIN due \ {r}
  BY <1>1, DueFacts
<1>5. \A q \in DOMAIN due' : due'[q] \in Nat
  BY <1>1, DueFacts
<1>6. RInv'
  BY <1>1, <1>3, <1>5, RoundHere
<1>7. Loop!Delete(AskOf(m))
  <2>1. UNCHANGED <<timeline, stage, look, turn, now>>
    BY <1>1 DEF Round, fixed, controller
  <2> QED
    BY <1>1, <1>3, <1>4, <2>1
       DEF Loop!Delete, Loop!controlVars, ListsIn, ListingsIn, AsksIn, Changes
<1> QED
  BY <1>3, <1>6, <1>7 DEF Loop!Next, Loop!Serve, AsksIn

LEMMA ChangeStep ==
    ASSUME RInv, Change
    PROVE  RInv' /\ Loop!Next
<1>1. /\ ~ gone /\ MoreChanges /\ timeline[stage + 1].at <= now
      /\ stage' = stage + 1
      /\ UNCHANGED <<wire, role, phase, lost, due, gone>>
      /\ Round
  BY DEF Change, GivesUp
<1>2. stage \in 0 .. Len(timeline) /\ Len(timeline) \in Nat /\ stage < Len(timeline)
  BY <1>1, TimelineFacts DEF RInv, RTypes, MoreChanges
<1>3. stage' \in 0 .. Len(timeline) /\ (stage' > 0 => timeline[stage'].at <= now)
  BY <1>1, <1>2
<1>4. \A r \in DOMAIN due' : due'[r] \in Nat
  BY <1>1, DueFacts
<1>5. RInv'
  BY <1>1, <1>3, <1>4, RoundKeeps
<1>6. Loop!Change
  <2>1. UNCHANGED <<timeline, look, turn, now>>
    BY <1>1 DEF Round, fixed, controller
  <2>2. stage < Len(Changes)
    BY <1>2, WishesAre
  <2> QED
    BY <1>1, <2>1, <2>2 DEF Loop!Change, Loop!MoreChanges, Loop!wireVars, Loop!controlVars, Changes
<1> QED
  BY <1>5, <1>6 DEF Loop!Next

LEMMA AdvanceStep ==
    ASSUME RInv, NEW r \in Region, Advance(r)
    PROVE  RInv' /\ Loop!Next
<1>1. /\ ~ gone /\ r \in DOMAIN due
      /\ phase' = [phase EXCEPT ![r] = Loop!Matured(r)]
      /\ IF Loop!Matured(r) = "catching up"
         THEN \E takes \in CatchingUp : due' = Armed(r, takes)
         ELSE due' = Disarmed(r)
      /\ UNCHANGED <<wire, stage, role, lost, gone>>
      /\ Round
  BY DEF Advance, GivesUp
<1>2. /\ (DOMAIN due)' = IF Loop!Matured(r) = "catching up" THEN DOMAIN due ELSE DOMAIN due \ {r}
      /\ \A q \in DOMAIN due' : due'[q] \in Nat
  <2>1. CASE Loop!Matured(r) = "catching up"
    <3>1. PICK takes \in CatchingUp : due' = Armed(r, takes)
      BY <1>1, <2>1
    <3>2. takes \in Nat
      BY RunsAssumption
    <3>3. DOMAIN due \cup {r} = DOMAIN due
      BY <1>1
    <3>4. DOMAIN due' = DOMAIN due /\ \A q \in DOMAIN due : due'[q] \in Nat
      BY <3>1, <3>2, <3>3, DueFacts
    <3> QED
      BY <2>1, <3>4
  <2>2. CASE Loop!Matured(r) # "catching up"
    BY <1>1, <2>2, DueFacts
  <2> QED
    BY <2>1, <2>2
<1>3. RInv'
  BY <1>1, <1>2, RoundHere
<1>4. Loop!Advance(r)
  <2>1. UNCHANGED <<timeline, look, turn, now>>
    BY <1>1 DEF Round, fixed, controller
  <2> QED
    BY <1>1, <1>2, <2>1 DEF Loop!Advance, Loop!wireVars, Loop!controlVars, Changes
<1> QED
  BY <1>3, <1>4 DEF Loop!Next, Loop!Mature

\* While the controller goes on asking, the server does not stop: QUIET is longer than from
\* one look that is heard to the next, wherever the faults are over.
LEMMA NotDeserted ==
    ASSUME RInv, Leave
    PROVE  ~ MorePasses
<1> SUFFICES ASSUME MorePasses PROVE FALSE
  OBVIOUS
<1>1. ~ gone /\ now >= WaitEnds /\ Awaited = {}
  BY DEF Leave, GivesUp
<1>2. stage = Len(timeline) /\ now >= since + Quiet
  BY <1>1, WaitFacts
<1>3. timeline \in Timelines
  BY DEF RInv, RTypes
<1>4. /\ now \in Nat /\ since \in Nat /\ next \in Nat
      /\ Healed \in Nat /\ Period \in Nat /\ Patience \in Nat /\ Quiet \in Nat
      /\ Patience <= Period
  BY PassFacts, OpensFacts, TimesFacts
<1>5. timeline[stage].at \in Nat /\ timeline[stage].at <= since
  <2>1. stage > 0
    BY <1>2, <1>3, TimelineFacts
  <2>2. timeline[stage].at <= since
    BY <2>1 DEF RInv, Clock
  <2> QED
    BY <2>1, <2>2, StageFacts
<1>6. ASSUME NEW l \in Latency PROVE l \in Nat /\ Healed + Period + l < now /\ since + Period + l < now
  <2>1. l \in Nat /\ Period + l < Quiet
    BY TimesFacts
  <2>2. Healed + Period + l < timeline[stage].at + Quiet
    BY <1>2, <1>3, TimesFacts
  <2> QED
    BY <1>2, <1>4, <1>5, <2>1, <2>2
<1>7. next <= since + Period \/ next <= Healed + Period
  BY DEF RInv, Heard
<1>8. ASSUME NEW l \in Latency PROVE next + l < now
  BY <1>4, <1>6, <1>7
<1>9. look = "waiting"
  <2>1. PICK l \in Latency : l \in Nat
    BY TimesFacts
  <2>2. next < now
    BY <1>4, <1>8, <2>1
  <2>3. look = "resting" => now <= next
    BY DEF RInv, Clock
  <2>4. look \in {"resting", "waiting"}
    BY DEF RInv, RTypes
  <2> QED
    BY <1>4, <2>2, <2>3, <2>4
<1>10. now <= next + Patience
  BY <1>9 DEF RInv, Clock
<1>11. next >= Healed
  <2>1. PICK l \in Latency : l \in Nat /\ Healed + Period + l < now
    BY <1>6, TimesFacts
  <2> QED
    BY <1>4, <1>10, <2>1
<1>12. since >= next \/ \E m \in wire : m.kind = "list"
  BY <1>9, <1>11 DEF RInv, Heard
<1>13. CASE since >= next
  <2>1. PICK l \in Latency : l \in Nat /\ since + Period + l < now
    BY <1>6, TimesFacts
  <2> QED
    BY <1>4, <1>10, <1>13, <2>1
<1>14. CASE \E m \in wire : m.kind = "list"
  <2>1. PICK m \in wire : m.kind = "list"
    BY <1>14
  <2>2. m.to = "server" /\ m.at \in Nat
    BY <2>1 DEF RInv, Wires
  <2>3. m.at >= now
    BY <1>1, <2>2 DEF RInv, Prompt
  <2>4. PICK l \in Latency : m.at <= next + l
    BY <2>1 DEF RInv, OnTheWay
  <2>5. next + l < now /\ l \in Nat
    BY <1>6, <1>8
  <2> QED
    BY <1>4, <2>2, <2>3, <2>4, <2>5
<1> QED
  BY <1>12, <1>13, <1>14

LEMMA LeaveStep ==
    ASSUME RInv, Leave
    PROVE  RInv' /\ UNCHANGED Loop!vars
<1>1. /\ gone' = TRUE
      /\ UNCHANGED <<fixed, now, wire, stage, role, phase, lost, due, since, controller, spoiled>>
  BY DEF Leave
<1>2. UNCHANGED <<timeline, faults, now, wire, stage, role, phase, lost, due, since,
                  pass, next, look, turn>>
  BY <1>1 DEF fixed, controller
<1>3. ~ MorePasses /\ ~ MorePasses'
  BY <1>2, NotDeserted DEF MorePasses
<1>4. /\ RTypes /\ Wires /\ Single /\ Prompt /\ Clock /\ OnTheWay /\ Heard
  BY DEF RInv
<1>5. RTypes' /\ Wires' /\ Single'
  BY <1>1, <1>2, <1>4 DEF RTypes, Wires, Single
<1>6. Prompt' /\ OnTheWay' /\ Heard'
  BY <1>1, <1>2, <1>3, <1>4 DEF Prompt, OnTheWay, Heard
<1>7. Clock'
  BY <1>2, <1>3, <1>4 DEF Clock
<1>8. UNCHANGED Loop!vars
  BY <1>2 DEF Loop!vars, Changes
<1> QED
  BY <1>5, <1>6, <1>7, <1>8 DEF RInv

--------------------------------------------------------------------------------
(* The controller's steps. *)

LEMMA LookBegins ==
    ASSUME RInv, MorePasses, look = "resting", now >= next, look' = "waiting",
           UNCHANGED <<fixed, now, server, pass, next, turn>>,
           NEW body, NEW sent \in Sent("controller", "server", "list", turn, body),
           wire' = wire \cup sent
    PROVE  RInv' /\ Loop!Look
<1>1. /\ MorePasses /\ look = "resting" /\ now >= next /\ look' = "waiting"
      /\ UNCHANGED <<fixed, now, server, pass, next, turn>>
  OBVIOUS
<1>2. UNCHANGED <<timeline, faults, now, stage, role, phase, lost, due, since, gone, pass, next, turn>>
  BY <1>1 DEF fixed, server
<1>3. wire' = wire \cup sent
  OBVIOUS
<1>4. /\ RTypes /\ Wires /\ Single /\ Prompt /\ Clock /\ OnTheWay /\ Heard
  BY DEF RInv
<1>5. now \in Nat /\ next \in Nat /\ now = next /\ ~ gone
  <2>1. now <= next
    BY <1>1, <1>4 DEF Clock
  <2> QED
    BY <1>1, <1>4, <2>1, PassFacts DEF Heard
<1>6. MorePasses'
  BY <1>1, <1>2 DEF MorePasses
<1>7. turn \in Tag
  BY <1>4 DEF RTypes
<1>8. /\ sent = {} \/ \E l \in Latency : sent = {Message("server", l, "list", turn, body)}
      /\ now >= Healed => sent # {}
  BY <1>4, SentIs
<1>9. /\ \A s \in sent : /\ s.to = "server" /\ s.kind = "list" /\ s.tag = turn
                         /\ \E l \in Latency : s.at = now + l
      /\ \A s, t \in sent : s = t
  BY <1>8 DEF Message
<1>10. \A m \in wire : m.kind = "apply" /\ m.tag # turn
  <2> SUFFICES ASSUME NEW m \in wire PROVE m.kind = "apply" /\ m.tag # turn
    OBVIOUS
  <2>1. m.kind = "apply" /\ m.to = "server" /\ m.at \in Nat
    BY <1>1, <1>4 DEF Wires, OnTheWay, Kinds
  <2>2. m.at >= now
    BY <1>4, <1>5, <2>1 DEF Prompt
  <2>3. m.tag = turn => m.at < next
    BY <1>1, <1>4, <2>1 DEF OnTheWay
  <2> QED
    BY <1>5, <2>1, <2>2, <2>3
<1>11. RInv'
  <2>1. RTypes'
    BY <1>1, <1>2, <1>4 DEF RTypes
  <2>2. Wires'
    <3> SUFFICES ASSUME NEW s \in wire'
                 PROVE  /\ s.kind \in Kinds /\ s.at \in Nat /\ s.tag \in Tag
                        /\ s.to = (IF s.kind = "listing" THEN "controller" ELSE "server")
                        /\ s.kind = "listing" => s.body.tag = s.tag
      BY DEF Wires
    <3>1. CASE s \in wire
      BY <1>4, <3>1 DEF Wires
    <3>2. CASE s \in sent
      <4>1. s.kind = "list" /\ s.to = "server" /\ s.tag \in Tag /\ s.at \in Nat
        BY <1>5, <1>7, <1>9, <3>2, TimesFacts
      <4> QED
        BY <4>1 DEF Kinds
    <3> QED
      BY <1>3, <3>1, <3>2
  <2>3. Single'
    <3>1. \A s, t \in wire' : s.kind = t.kind /\ s.tag = t.tag
              /\ (s.kind = "apply" => s.body = t.body) => s = t
      BY <1>3, <1>4, <1>9, <1>10 DEF Single
    <3>2. \A s \in wire' : s.kind # "listing"
      BY <1>3, <1>9, <1>10
    <3> QED
      BY <3>1, <3>2 DEF Single
  <2>4. Prompt'
    <3>1. \A s \in sent : s.to = "server" /\ s.at >= now
      BY <1>5, <1>9, TimesFacts
    <3>2. \A m \in wire : m.to = "server"
      BY <1>4, <1>10 DEF Wires
    <3> QED
      BY <1>2, <1>3, <1>4, <3>1, <3>2 DEF Prompt
  <2>5. Clock'
    BY <1>1, <1>2, <1>4, <1>5, <1>6, TimesFacts DEF Clock
  <2>6. OnTheWay'
    <3>1. ASSUME NEW s \in sent
          PROVE  s.kind = "list" /\ s.tag = turn /\ \E l \in Latency : s.at <= next + l
      <4>1. PICK l \in Latency : s.at = now + l
        BY <1>9
      <4>2. s.at <= next + l
        BY <1>5, <4>1, TimesFacts
      <4> QED
        BY <1>9, <4>2
    <3>2. \A m \in wire : m.kind = "apply" /\ m.tag # turn /\ \E l \in Latency : m.at <= next + l
      BY <1>1, <1>4, <1>10 DEF OnTheWay
    <3> QED
      BY <1>1, <1>2, <1>3, <1>6, <3>1, <3>2 DEF OnTheWay
  <2>7. Heard'
    <3>1. now >= Healed => \E m \in wire' : m.kind = "list"
      BY <1>3, <1>8, <1>9
    <3> QED
      BY <1>1, <1>2, <1>4, <1>5, <1>6, <3>1 DEF Heard
  <2> QED
    BY <2>1, <2>2, <2>3, <2>4, <2>5, <2>6, <2>7 DEF RInv
<1>12. Loop!Look
  <2>1. /\ ListsIn(wire)' = ListsIn(wire) \cup ListsIn(sent)
        /\ ListingsIn(wire)' = ListingsIn(wire) \cup ListingsIn(sent)
        /\ AsksIn(wire)' = AsksIn(wire) \cup AsksIn(sent)
    <3>1. /\ ListsIn(wire \cup sent) = ListsIn(wire) \cup ListsIn(sent)
          /\ ListingsIn(wire \cup sent) = ListingsIn(wire) \cup ListingsIn(sent)
          /\ AsksIn(wire \cup sent) = AsksIn(wire) \cup AsksIn(sent)
      BY WireSums
    <3> QED
      BY <1>3, <3>1
  <2>2. ListingsIn(sent) = {} /\ AsksIn(sent) = {}
    BY <1>9 DEF ListingsIn, AsksIn
  <2>3. ListsIn(sent) \in Loop!Carried({turn})
    <3>1. ListsIn(sent) = {} \/ ListsIn(sent) = {turn}
      BY <1>8, <1>9 DEF ListsIn
    <3>2. now >= Healed => ListsIn(sent) = {turn}
      BY <1>8, <1>9 DEF ListsIn
    <3> QED
      BY <3>1, <3>2 DEF Loop!Carried
  <2>4. \A ask \in AsksIn(wire) : ask.tag # turn
    BY <1>10 DEF AsksIn
  <2>5. ListingsIn(wire)' = ListingsIn(wire) /\ AsksIn(wire)' = AsksIn(wire)
    BY <2>1, <2>2
  <2>6. \E carried \in Loop!Carried({turn}) : ListsIn(wire)' = ListsIn(wire) \cup carried
    BY <2>1, <2>3
  <2> QED
    BY <1>1, <1>2, <2>4, <2>5, <2>6
       DEF Loop!Look, Loop!serverVars, ListsIn, ListingsIn, AsksIn, Changes
<1> QED
  BY <1>11, <1>12

LEMMA LookStep ==
    ASSUME RInv, Look
    PROVE  RInv' /\ Loop!Next
<1>1. /\ MorePasses /\ look = "resting" /\ now >= next /\ look' = "waiting"
      /\ UNCHANGED <<fixed, now, server, pass, next, turn>>
      /\ \E sent \in Sent("controller", "server", "list", turn, "what there is") :
            wire' = wire \cup sent
  BY DEF Look
<1>2. PICK sent \in Sent("controller", "server", "list", turn, "what there is") :
        wire' = wire \cup sent
  BY <1>1
<1>3. RInv' /\ Loop!Look
  BY <1>1, <1>2, LookBegins
<1> QED
  BY <1>3 DEF Loop!Next

\* A look is over: what it asked for, if anything, is on its way, and there is nothing else
\* of it.  The next one is not before that of the one before has landed.
LEMMA LookEnds ==
    ASSUME RInv, look = "waiting", look' = "resting", turn' = 1 - turn,
           UNCHANGED <<fixed, now, server>>,
           \A m \in wire : m.kind # "list",
           NEW sent, \A s \in wire' : (s \in wire /\ s.kind = "apply") \/ s \in sent,
           \A s \in sent : /\ s.to = "server" /\ s.kind = "apply" /\ s.tag = turn
                           /\ \E l \in Latency : s.at = now + l,
           \A s, t \in sent : s.body = t.body => s = t,
           NextPass \/ LookAgainAt(now + Requeue)
    PROVE  RInv'
<1>1. /\ RTypes /\ Wires /\ Single /\ Prompt /\ Clock /\ OnTheWay /\ Heard
  BY DEF RInv
<1>2. UNCHANGED <<timeline, faults, now, stage, due, since, gone>>
  BY DEF fixed, server
<1>3. MorePasses
  BY <1>1 DEF Clock
<1>4. /\ now \in Nat /\ since \in Nat /\ next \in Nat /\ pass \in Nat /\ Requeue \in Nat
      /\ Patience \in Nat /\ Period \in Nat /\ Patience <= Period /\ Healed \in Nat
      /\ Opens(pass) \in Nat /\ Opens(pass + 1) = Opens(pass) + Period
      /\ Opens(pass + 1) \in Nat
  BY PassFacts, TimesFacts, OpensFacts
<1>5. /\ Opens(pass) <= next /\ next + Patience <= Opens(pass + 1)
      /\ next <= now /\ now <= next + Patience /\ since <= now
  BY <1>1, <1>3 DEF Clock
<1>6. pass + 1 \in Nat /\ Opens(pass + 1 + 1) \in Nat /\ Opens(pass + 1 + 1) = Opens(pass + 1) + Period
  <2>1. pass + 1 \in Nat
    BY <1>4
  <2> QED
    BY <2>1, OpensFacts
<1>7. \/ pass' = pass + 1 /\ next' = Opens(pass + 1)
      \/ pass' = pass /\ next' = now + Requeue /\ now + Requeue + Patience <= Opens(pass + 1)
  BY DEF NextPass, LookAgainAt
<1>8. next' \in Nat /\ now <= next' /\ next' <= Opens(pass + 1)
  BY <1>4, <1>5, <1>7
<1>9. turn \in Tag /\ turn' \in Tag /\ turn' # turn /\ \A t \in Tag : t # turn => t = turn'
  BY <1>1 DEF RTypes, Tag
<1>10. ASSUME NEW l \in Latency PROVE l \in Nat /\ next + l <= next'  /\ next + l < next'
  <2>1. l \in Nat /\ l < Patience /\ l < Requeue
    BY TimesFacts
  <2> QED
    BY <1>4, <1>5, <1>7, <2>1
<1>11. \A m \in wire : m.kind = "apply" => m.tag \in Tag /\ m.tag # turn /\ m.at \in Nat
                       /\ \E l \in Latency : m.at <= next + l
  BY <1>1, <1>3 DEF OnTheWay, Wires
<1>12. RTypes'
  <2>1. pass' \in 1 .. Passes + 1
    BY <1>1, <1>3, <1>4, <1>7, RunsAssumption DEF MorePasses, RTypes
  <2> QED
    BY <1>1, <1>2, <1>8, <1>9, <2>1 DEF RTypes
<1>13. Wires'
  <2> SUFFICES ASSUME NEW s \in wire'
               PROVE  /\ s.kind \in Kinds /\ s.at \in Nat /\ s.tag \in Tag
                      /\ s.to = (IF s.kind = "listing" THEN "controller" ELSE "server")
                      /\ s.kind = "listing" => s.body.tag = s.tag
    BY DEF Wires
  <2>1. CASE s \in wire
    BY <1>1, <2>1 DEF Wires
  <2>2. CASE s \in sent
    <3>1. s.kind = "apply" /\ s.to = "server" /\ s.tag \in Tag /\ s.at \in Nat
      BY <1>4, <1>9, <2>2, TimesFacts
    <3> QED
      BY <3>1 DEF Kinds
  <2> QED
    BY <2>1, <2>2
<1>14. \A s \in wire' : s.kind = "apply" /\ s.to = "server"
  BY <1>1 DEF Wires
<1>15. Single'
  <2>1. \A s, t \in wire' : s.kind = t.kind /\ s.tag = t.tag /\ s.body = t.body => s = t
    BY <1>1, <1>11 DEF Single
  <2> QED
    BY <1>14, <2>1 DEF Single
<1>16. Prompt'
  <2>1. \A s \in sent : s.at >= now
    BY <1>4, TimesFacts
  <2> QED
    BY <1>1, <1>2, <1>14, <2>1 DEF Prompt
<1>17. Clock'
  <2>1. Opens(pass') <= next' /\ next' + Patience <= Opens(pass' + 1)
    BY <1>4, <1>5, <1>6, <1>7
  <2>2. MorePasses' => Opens(pass') <= next' /\ next' + Patience <= Opens(pass' + 1) /\ now <= next'
    BY <1>8, <2>1
  <2>3. /\ since' <= now'
        /\ stage' > 0 => timeline'[stage'].at <= since'
    BY <1>1, <1>2, <1>5 DEF Clock
  <2> QED
    BY <1>2, <2>2, <2>3 DEF Clock
<1>18. OnTheWay'
  <2>1. ASSUME NEW s \in wire'
        PROVE  IF s.tag = turn' THEN s.at < next' ELSE \E l \in Latency : s.at <= next' + l
    <3>1. CASE s \in wire /\ s.kind = "apply"
      <4>1. PICK l \in Latency : s.at <= next + l
        BY <1>11, <3>1
      <4>2. s.tag = turn' /\ s.at \in Nat
        BY <1>9, <1>11, <3>1
      <4>3. l \in Nat /\ next + l < next'
        BY <1>10
      <4> QED
        BY <1>4, <1>8, <4>1, <4>2, <4>3
    <3>2. CASE s \in sent
      <4>1. PICK l \in Latency : s.at = now + l
        BY <3>2
      <4>2. s.at <= next' + l
        BY <1>4, <1>8, <1>10, <4>1
      <4> QED
        BY <1>9, <3>2, <4>2
    <3> QED
      BY <3>1, <3>2
  <2> QED
    BY <1>14, <2>1 DEF OnTheWay
<1>19. Heard'
  <2>1. ~ gone
    BY <1>1, <1>3 DEF Heard
  <2>2. next < Healed \/ since >= next
    BY <1>1, <1>3, <1>4 DEF Heard
  <2>3. next' <= next + Period
    BY <1>4, <1>5, <1>8
  <2>4. next' <= since + Period \/ next' <= Healed + Period
    BY <1>4, <1>8, <2>2, <2>3
  <2> QED
    BY <1>2, <2>1, <2>4 DEF Heard
<1> QED
  BY <1>12, <1>13, <1>15, <1>16, <1>17, <1>18, <1>19 DEF RInv

\* What becomes of everything a look asks for.
LEMMA AllSentIs ==
    ASSUME NEW actions, NEW sent \in AllSent(actions)
    PROVE  /\ \A s \in sent : /\ s.to = "server" /\ s.kind = "apply" /\ s.tag = turn
                              /\ s.body \in actions
                              /\ \E l \in Latency : s.at = now + l
           /\ \A s, t \in sent : s.body = t.body => s = t
           /\ \E carried \in Loop!Carried(actions) :
                 /\ RTypes => AsksIn(sent) = {[tag |-> turn, action |-> a] : a \in carried}
           /\ ListsIn(sent) = {} /\ ListingsIn(sent) = {}
<1>1. PICK f : /\ \A a \in actions : f[a] \in Sent("controller", "server", "apply", turn, a)
               /\ sent = UNION {f[a] : a \in actions}
  BY DEF AllSent
<1>2. ASSUME NEW a \in actions
      PROVE  /\ f[a] = {} \/ \E l \in Latency : f[a] = {Message("server", l, "apply", turn, a)}
             /\ RTypes /\ now >= Healed => f[a] # {}
  BY <1>1, SentIs
<1>3. ASSUME NEW a \in actions
      PROVE  /\ \A s \in f[a] : /\ s.to = "server" /\ s.kind = "apply" /\ s.tag = turn /\ s.body = a
                                /\ \E l \in Latency : s.at = now + l
             /\ \A s, t \in f[a] : s = t
  BY <1>2 DEF Message
<1>4. \A s \in sent : \E a \in actions : s \in f[a]
  BY <1>1
<1>5. \A s \in sent : /\ s.to = "server" /\ s.kind = "apply" /\ s.tag = turn
                     /\ s.body \in actions /\ s \in f[s.body]
                     /\ \E l \in Latency : s.at = now + l
  BY <1>3, <1>4
<1>6. \A s, t \in sent : s.body = t.body => s = t
  BY <1>3, <1>5
<1>7. ListsIn(sent) = {} /\ ListingsIn(sent) = {}
  BY <1>5 DEF ListsIn, ListingsIn
<1>8. \E carried \in Loop!Carried(actions) :
         RTypes => AsksIn(sent) = {[tag |-> turn, action |-> a] : a \in carried}
  <2>1. SUFFICES ASSUME RTypes
        PROVE  \E carried \in Loop!Carried(actions) :
                  AsksIn(sent) = {[tag |-> turn, action |-> a] : a \in carried}
    <3>1. actions \in Loop!Carried(actions)
      BY DEF Loop!Carried
    <3> QED
      BY <3>1
  <2> DEFINE carried == {a \in actions : f[a] # {}}
  <2>2. carried \in Loop!Carried(actions)
    <3>1. now >= Healed => carried = actions
      BY <1>2, <2>1
    <3> QED
      BY <3>1 DEF Loop!Carried
  <2>3. AsksIn(sent) = {[tag |-> turn, action |-> a] : a \in carried}
    <3>1. ASSUME NEW x \in AsksIn(sent) PROVE \E a \in carried : x = [tag |-> turn, action |-> a]
      <4>1. PICK s \in sent : x = [tag |-> s.tag, action |-> s.body]
        BY DEF AsksIn
      <4>2. s.tag = turn /\ s.body \in carried
        BY <1>5
      <4> QED
        BY <4>1, <4>2
    <3>2. ASSUME NEW a \in carried PROVE [tag |-> turn, action |-> a] \in AsksIn(sent)
      <4>1. PICK s : s \in f[a]
        OBVIOUS
      <4>2. s \in sent /\ s.kind = "apply" /\ s.tag = turn /\ s.body = a
        BY <1>1, <1>3, <4>1
      <4> QED
        BY <4>2 DEF AsksIn
    <3> QED
      BY <3>1, <3>2
  <2> QED
    BY <2>2, <2>3
<1> QED
  BY <1>5, <1>6, <1>7, <1>8

LEMMA DecideStep ==
    ASSUME RInv, Decide
    PROVE  RInv' /\ Loop!Next
<1>1. PICK m \in Taken("controller") :
          LET actions == Loop!Reconcile(m.body.wanted, m.body.role, m.body.phase) IN
          /\ \E sent \in AllSent(actions) : wire' = (wire \ {m}) \cup sent
          /\ \/ actions = {} /\ NextPass
             \/ (actions # {} \/ OthersAsk) /\ LookAgainAt(Requeued)
  BY DEF Decide
<1>2. /\ look = "waiting" /\ look' = "resting" /\ turn' = 1 - turn
      /\ UNCHANGED <<fixed, now, server>>
  BY DEF Decide
<1> DEFINE actions == Loop!Reconcile(m.body.wanted, m.body.role, m.body.phase)
<1>3. PICK sent \in AllSent(actions) : wire' = (wire \ {m}) \cup sent
  BY <1>1
<1>4. NextPass \/ LookAgainAt(now + Requeue)
  BY <1>1 DEF Requeued
<1> HIDE DEF actions
<1>5. /\ RTypes /\ Wires /\ Single /\ Clock /\ OnTheWay
  BY DEF RInv
<1>6. m \in wire /\ m.kind = "listing" /\ MorePasses /\ m.tag = turn
  <2>1. m \in wire /\ m.to = "controller"
    BY TakenIs
  <2>2. m.kind = "listing"
    BY <1>5, <2>1 DEF Wires
  <2> QED
    BY <1>2, <1>5, <2>1, <2>2 DEF OnTheWay, Clock
<1>7. \A n \in wire : n.kind # "list"
  BY <1>5, <1>6 DEF Single
<1>8. \A n \in wire : n # m => n.kind = "apply"
  <2> SUFFICES ASSUME NEW n \in wire, n.kind = "listing" PROVE n = m
    BY <1>5, <1>7 DEF Wires, Kinds
  <2>1. n.tag = turn
    BY <1>5, <1>6 DEF OnTheWay
  <2> QED
    BY <1>5, <1>6, <2>1 DEF Single
<1>9. /\ \A s \in sent : /\ s.to = "server" /\ s.kind = "apply" /\ s.tag = turn
                         /\ \E l \in Latency : s.at = now + l
      /\ \A s, t \in sent : s.body = t.body => s = t
      /\ ListsIn(sent) = {} /\ ListingsIn(sent) = {}
  BY AllSentIs
<1>10. PICK carried \in Loop!Carried(actions) :
          AsksIn(sent) = {[tag |-> turn, action |-> a] : a \in carried}
  BY <1>5, AllSentIs
<1>11. RInv'
  <2>1. \A s \in wire' : (s \in wire /\ s.kind = "apply") \/ s \in sent
    BY <1>3, <1>8
  <2> QED
    BY <1>2, <1>4, <1>7, <1>9, <2>1, LookEnds
<1>12. Loop!Decide(m.body)
  <2>1. /\ ListsIn(wire)' = ListsIn(wire)
        /\ ListingsIn(wire)' = ListingsIn(wire) \ {m.body}
        /\ AsksIn(wire)' = AsksIn(wire) \cup AsksIn(sent)
    <3>1. /\ ListsIn(wire') = ListsIn(wire) \cup ListsIn(sent)
          /\ ListingsIn(wire') = (ListingsIn(wire) \ {m.body}) \cup ListingsIn(sent)
          /\ AsksIn(wire') = AsksIn(wire) \cup AsksIn(sent)
      BY <1>3, <1>6, WireStep
    <3> QED
      BY <1>9, <3>1
  <2>2. \E c \in Loop!Carried(Loop!Reconcile(m.body.wanted, m.body.role, m.body.phase)) :
           AsksIn(wire)' = AsksIn(wire) \cup {[tag |-> turn, action |-> a] : a \in c}
    BY <1>10, <2>1 DEF actions
  <2>3. UNCHANGED <<timeline, stage, role, phase, lost, due, now>>
    BY <1>2 DEF fixed, server
  <2> QED
    BY <1>2, <2>1, <2>2, <2>3
       DEF Loop!Decide, Loop!serverVars, ListsIn, ListingsIn, AsksIn, Changes
<1>13. m.body \in ListingsIn(wire)
  BY <1>6 DEF ListingsIn
<1> QED
  BY <1>11, <1>12, <1>13 DEF Loop!Next, Loop!Hear, ListingsIn

LEMMA GiveUpStep ==
    ASSUME RInv, GiveUp
    PROVE  RInv' /\ Loop!Next
<1>1. /\ look = "waiting" /\ look' = "resting" /\ turn' = 1 - turn
      /\ now >= next + Patience
      /\ NextPass
      /\ UNCHANGED <<fixed, now, wire, server>>
  BY DEF GiveUp
<1>2. /\ RTypes /\ Wires /\ Prompt /\ Clock /\ OnTheWay /\ Heard
  BY DEF RInv
<1>3. MorePasses /\ ~ gone
  BY <1>1, <1>2 DEF Clock, Heard
<1>4. now \in Nat /\ next \in Nat /\ Patience \in Nat
  BY PassFacts, TimesFacts
<1>5. ASSUME NEW m \in wire PROVE m.kind = "apply"
  <2>1. m.at \in Nat /\ m.kind \in Kinds /\ m.at >= now
    <3>1. /\ m.at \in Nat /\ m.kind \in Kinds
          /\ m.to = "server" \/ m.to = "controller"
      BY <1>2 DEF Wires
    <3> QED
      BY <1>1, <1>2, <1>3, <3>1 DEF Prompt
  <2>2. CASE m.kind = "list"
    <3>1. PICK l \in Latency : m.at <= next + l
      BY <1>2, <1>3, <2>2 DEF OnTheWay
    <3>2. l \in Nat /\ l < Patience
      BY TimesFacts
    <3> QED
      BY <1>1, <1>4, <2>1, <3>1, <3>2
  <2>3. CASE m.kind = "listing"
    <3>1. PICK l, k \in Latency : m.at <= next + (l + k)
      BY <1>2, <1>3, <2>3 DEF OnTheWay
    <3>2. l \in Nat /\ k \in Nat /\ l + k < Patience
      BY TimesFacts
    <3> QED
      BY <1>1, <1>4, <2>1, <3>1, <3>2
  <2> QED
    BY <2>1, <2>2, <2>3 DEF Kinds
<1>6. RInv'
  <2>1. UNCHANGED <<fixed, now, server>>
    BY <1>1
  <2> DEFINE sent == {}
  <2>2. \A s \in wire' : (s \in wire /\ s.kind = "apply") \/ s \in sent
    BY <1>1, <1>5
  <2>3. \A m \in wire : m.kind # "list"
    BY <1>5
  <2>4. /\ \A s \in sent : /\ s.to = "server" /\ s.kind = "apply" /\ s.tag = turn
                           /\ \E l \in Latency : s.at = now + l
        /\ \A s, t \in sent : s.body = t.body => s = t
    OBVIOUS
  <2>5. NextPass \/ LookAgainAt(now + Requeue)
    BY <1>1
  <2> HIDE DEF sent
  <2> QED
    BY <1>1, <2>1, <2>2, <2>3, <2>4, <2>5, LookEnds
<1>7. Loop!GiveUp
  <2>1. ListsIn(wire) = {} /\ ListingsIn(wire) = {}
    BY <1>5 DEF ListsIn, ListingsIn
  <2>2. UNCHANGED <<timeline, stage, role, phase, lost, due, now, wire>>
    BY <1>1 DEF fixed, server
  <2> QED
    BY <1>1, <2>1, <2>2
       DEF Loop!GiveUp, Loop!serverVars, Loop!wireVars, ListsIn, ListingsIn, Changes
<1> QED
  BY <1>6, <1>7 DEF Loop!Next

--------------------------------------------------------------------------------
(* Time, and the theorem. *)

LEMMA TickStep ==
    ASSUME RInv, Tick
    PROVE  RInv' /\ (Loop!Next \/ UNCHANGED Loop!vars)
<1>1. /\ Pending # {} /\ Min(Pending) > now
      /\ now' = Min(Pending)
      /\ UNCHANGED <<fixed, wire, server, controller>>
  BY DEF Tick
<1>2. UNCHANGED <<timeline, faults, wire, stage, role, phase, lost, due, since, gone,
                  pass, next, look, turn>>
  BY <1>1 DEF fixed, server, controller
<1>3. /\ RTypes /\ Wires /\ Single /\ Prompt /\ Clock /\ OnTheWay /\ Heard
  BY DEF RInv
<1>4. Pending \subseteq Nat
  <2>1. /\ WaitEnds \in Nat /\ next \in Nat /\ next + Patience \in Nat
        /\ \A m \in wire : m.at \in Nat
    BY <1>3, WaitFacts, PassFacts, TimesFacts DEF Wires
  <2> QED
    BY <2>1 DEF Pending
<1>5. now' \in Nat /\ now' > now /\ \A t \in Pending : now' <= t
  BY <1>1, <1>4, LeastOfMany
<1>6. MorePasses' = MorePasses
  BY <1>2 DEF MorePasses
<1>7. Prompt'
  <2>1. ASSUME ~ gone, NEW m \in wire, m.to = "server" PROVE m.at >= now'
    <3>1. m.at \in Pending
      BY <2>1 DEF Pending
    <3> QED
      BY <1>4, <1>5, <3>1
  <2>2. ASSUME MorePasses, look = "waiting", NEW m \in wire, m.to = "controller"
        PROVE  m.at >= now'
    <3>1. m.at \in Pending
      BY <2>2 DEF Pending
    <3> QED
      BY <1>4, <1>5, <3>1
  <2> QED
    BY <1>2, <1>6, <2>1, <2>2 DEF Prompt
<1>8. Clock'
  <2>1. since <= now'
    BY <1>3, <1>5, PassFacts DEF Clock
  <2>2. MorePasses /\ look = "resting" => now' <= next
    BY <1>5 DEF Pending
  <2>3. MorePasses /\ look = "waiting" => next <= now' /\ now' <= next + Patience
    <3> SUFFICES ASSUME MorePasses, look = "waiting"
                 PROVE  next <= now' /\ now' <= next + Patience
      OBVIOUS
    <3>1. next + Patience \in Pending
      BY DEF Pending
    <3>2. next <= now
      BY <1>3 DEF Clock
    <3> QED
      BY <1>5, <3>1, <3>2, PassFacts
  <2> QED
    BY <1>2, <1>3, <1>6, <2>1, <2>2, <2>3 DEF Clock
<1>9. RTypes' /\ Wires' /\ Single'
  BY <1>2, <1>3, <1>5 DEF RTypes, Wires, Single
<1>10. OnTheWay' /\ Heard'
  BY <1>2, <1>3, <1>6 DEF OnTheWay, Heard
<1>11. RInv'
  BY <1>7, <1>8, <1>9, <1>10 DEF RInv
<1>12. now >= Healed => now' >= Healed
  BY <1>5, PassFacts, OpensFacts
<1>13. CASE (now' >= Healed) = (now >= Healed)
  <2>1. UNCHANGED Loop!vars
    BY <1>2, <1>13 DEF Loop!vars, Changes
  <2> QED
    BY <1>11, <2>1
<1>14. CASE now' >= Healed /\ ~ (now >= Healed)
  <2>1. Loop!Heal
    BY <1>2, <1>14 DEF Loop!Heal, Loop!serverVars, Loop!wireVars, Loop!controlVars, Changes
  <2> QED
    BY <1>11, <2>1 DEF Loop!Next
<1> QED
  BY <1>12, <1>13, <1>14

LEMMA RStep ==
    ASSUME RInv, [Next]_vars
    PROVE  RInv' /\ (Loop!Next \/ UNCHANGED Loop!vars)
<1>1. CASE Answer
  BY <1>1, AnswerStep
<1>2. CASE Create
  BY <1>2, CreateStep
<1>3. CASE Promote
  BY <1>3, PromoteStep
<1>4. CASE Delete
  BY <1>4, DeleteStep
<1>5. CASE Change
  BY <1>5, ChangeStep
<1>6. CASE Leave
  BY <1>6, LeaveStep
<1>7. ASSUME NEW r \in Region, Advance(r) PROVE RInv' /\ (Loop!Next \/ UNCHANGED Loop!vars)
  BY <1>7, AdvanceStep
<1>8. CASE Look
  BY <1>8, LookStep
<1>9. CASE Decide
  BY <1>9, DecideStep
<1>10. CASE GiveUp
  BY <1>10, GiveUpStep
<1>11. CASE Tick
  BY <1>11, TickStep
<1>12. CASE UNCHANGED vars
  <2>1. UNCHANGED <<timeline, faults, now, wire, stage, role, phase, lost, due, since, gone,
                    pass, next, look, turn>>
    BY <1>12 DEF vars, fixed, server, controller
  <2>2. RTypes' /\ Wires' /\ Single' /\ Prompt'
    BY <2>1 DEF RInv, RTypes, Wires, Single, Prompt, MorePasses
  <2>3. Clock' /\ OnTheWay' /\ Heard'
    BY <2>1 DEF RInv, Clock, OnTheWay, Heard, MorePasses
  <2>4. UNCHANGED Loop!vars
    BY <2>1 DEF Loop!vars, Changes
  <2> QED
    BY <2>2, <2>3, <2>4 DEF RInv
<1> QED
  BY <1>1, <1>2, <1>3, <1>4, <1>5, <1>6, <1>7, <1>8, <1>9, <1>10, <1>11, <1>12 DEF Next

LEMMA RStart ==
    ASSUME Init
    PROVE  RInv /\ Loop!Init
<1>1. /\ timeline \in Timelines
      /\ \E trouble \in Troubles : faults = DrawnFaults(trouble)
      /\ now = 0 /\ wire = {}
      /\ stage = 0 /\ lost = FALSE
      /\ role = [r \in Region |-> "none"]
      /\ phase = [r \in Region |-> "provisioning"]
      /\ due = <<>> /\ since = 0 /\ gone = FALSE
      /\ pass = 1 /\ next = Opens(1) /\ look = "resting" /\ turn = 0
  BY DEF Init
<1>2. /\ Opens(1) = Period /\ Period \in Nat /\ Period > 0 /\ Patience \in Nat /\ Patience <= Period
      /\ Healed \in Nat /\ Period <= Healed /\ Passes \in Nat
  BY OpensFacts, TimesFacts, RunsAssumption
<1>3. Opens(1 + 1) = Opens(1) + Period
  BY OpensFacts
<1>4. DOMAIN due = {}
  BY <1>1
<1>5. \A i \in DOMAIN faults : faults[i].during.end \in Nat /\ faults[i].during.end <= Healed
  <2>1. PICK trouble \in Troubles : faults = DrawnFaults(trouble)
    BY <1>1
  <2> DEFINE Drawn == [from : Node, to : Node, odds : Odds, start : Nat, lasts : Nat]
  <2>2. trouble \in Seq(Drawn)
    BY RunsAssumption
  <2>3. \A d \in Drawn : d.start \in Nat /\ d.lasts \in Nat
    OBVIOUS
  <2> HIDE DEF Drawn
  <2>4. \A i \in DOMAIN trouble : trouble[i].start + trouble[i].lasts \in Nat
    <3>1. \A i \in DOMAIN trouble : trouble[i] \in Drawn
      BY <2>2
    <3> QED
      BY <2>3, <3>1
  <2> SUFFICES ASSUME NEW i \in DOMAIN faults
               PROVE  faults[i].during.end \in Nat /\ faults[i].during.end <= Healed
    OBVIOUS
  <2>5. i \in DOMAIN trouble
    BY <2>1 DEF DrawnFaults
  <2> DEFINE over == trouble[i].start + trouble[i].lasts
  <2>6. faults[i].during.end = Min({over, Healed})
    BY <2>1, <2>5 DEF DrawnFaults
  <2>7. over \in Nat
    BY <2>4, <2>5
  <2> HIDE DEF over
  <2>8. Min({over, Healed}) \in {over, Healed} /\ \A y \in {over, Healed} : Min({over, Healed}) <= y
    <3>1. {over, Healed} \in SUBSET Nat /\ {over, Healed} # {}
      BY <1>2, <2>7
    <3> QED
      BY <3>1, LeastOfMany
  <2> QED
    BY <1>2, <2>6, <2>7, <2>8
<1>6. RTypes
  <2>1. Len(timeline) \in Nat
    BY <1>1, TimelineFacts
  <2>2. stage \in 0 .. Len(timeline) /\ pass \in 1 .. Passes + 1 /\ next \in Nat
    BY <1>1, <1>2, <2>1
  <2> QED
    BY <1>1, <1>4, <1>5, <2>2 DEF RTypes, Tag
<1>7. Wires /\ Single /\ Prompt /\ OnTheWay
  BY <1>1 DEF Wires, Single, Prompt, OnTheWay
<1>8. Clock
  BY <1>1, <1>2, <1>3 DEF Clock
<1>9. Heard
  BY <1>1, <1>2 DEF Heard
<1>10. Loop!Init
  <2>1. Changes \in {[i \in DOMAIN t |-> t[i].wanted] : t \in Timelines}
    BY <1>1 DEF Changes
  <2>2. (now >= Healed) = FALSE
    BY <1>1, <1>2
  <2>3. ListsIn(wire) = {} /\ ListingsIn(wire) = {} /\ AsksIn(wire) = {}
    BY <1>1, WireSums
  <2> QED
    BY <1>1, <1>4, <2>1, <2>2, <2>3 DEF Loop!Init, ListsIn, ListingsIn, AsksIn
<1> QED
  BY <1>6, <1>7, <1>8, <1>9, <1>10 DEF RInv

\* By the clock the loop is the one that has no clock, for any timelines and any troubles
\* and any constants that stand to each other as those of the code do: a look gives up only
\* on a listing that is never coming, one begins only when the look before the last has
\* nothing left on the wire, and the server does not stop while there is something to be
\* asked of it (PATIENCE, REQUEUE, PERIOD and QUIET against LATENCY and the last change).
THEOREM TheClockChangesNothing == Spec => Implements
<1>1. Init => RInv /\ Loop!Init
  BY RStart
<1>2. RInv /\ [Next]_vars => RInv' /\ [Loop!Next]_(Loop!vars)
  BY RStep
<1> QED
  BY <1>1, <1>2, PTL DEF Spec, Implements

--------------------------------------------------------------------------------
(* What is proved of the loop that has no clock, of the runs by the clock. *)

Proved == INSTANCE ReconcilerProofs WITH
    Timelines <- {[i \in DOMAIN t |-> t[i].wanted] : t \in Timelines},
    timeline <- Changes,
    due <- DOMAIN due,
    lists <- {m.tag : m \in {l \in wire : l.kind = "list"}},
    listings <- {m.body : m \in {l \in wire : l.kind = "listing"}},
    asks <- {[tag |-> m.tag, action |-> m.body] : m \in {a \in wire : a.kind = "apply"}},
    healed <- now >= Healed

LEMMA SameLoop ==
    /\ Loop!Init => Proved!Init
    /\ Loop!Next => Proved!Next
    /\ UNCHANGED Loop!vars => UNCHANGED Proved!vars
<1>1. Loop!Init => Proved!Init
  BY DEF Loop!Init, Proved!Init
<1>2. UNCHANGED Loop!vars => UNCHANGED Proved!vars
  BY DEF Loop!vars, Proved!vars
<1>3. Loop!Change => Proved!Change
  BY DEF Loop!Change, Proved!Change, Loop!MoreChanges, Proved!MoreChanges,
         Loop!wireVars, Proved!wireVars, Loop!controlVars, Proved!controlVars
<1>4. Loop!Mature => Proved!Mature
  BY DEF Loop!Mature, Proved!Mature, Loop!Advance, Proved!Advance, Loop!Matured, Proved!Matured,
         Loop!wireVars, Proved!wireVars, Loop!controlVars, Proved!controlVars
<1>5. Loop!Heal => Proved!Heal
  BY DEF Loop!Heal, Proved!Heal, Loop!serverVars, Proved!serverVars,
         Loop!wireVars, Proved!wireVars, Loop!controlVars, Proved!controlVars
<1>6. Loop!Look => Proved!Look
  BY DEF Loop!Look, Proved!Look, Loop!serverVars, Proved!serverVars, Loop!Carried, Proved!Carried
<1>7. Loop!GiveUp => Proved!GiveUp
  BY DEF Loop!GiveUp, Proved!GiveUp, Loop!serverVars, Proved!serverVars, Loop!wireVars, Proved!wireVars
<1>8. Loop!Hear => Proved!Hear
  BY DEF Loop!Hear, Proved!Hear, Loop!Decide, Proved!Decide, Loop!Carried, Proved!Carried,
         Loop!Reconcile, Proved!Reconcile, Loop!Creations, Proved!Creations,
         Loop!Promotions, Proved!Promotions, Loop!Deletions, Proved!Deletions,
         Loop!HasPrimary, Proved!HasPrimary, Loop!Nothing, Proved!Nothing,
         Loop!serverVars, Proved!serverVars
<1>9. Loop!Serve => Proved!Serve
  BY DEF Loop!Serve, Proved!Serve, Loop!Answer, Proved!Answer, Loop!Create, Proved!Create,
         Loop!Promote, Proved!Promote, Loop!Delete, Proved!Delete, Loop!Carried, Proved!Carried,
         Loop!Tag, Proved!Tag, Loop!Wanted, Proved!Wanted, Loop!Nothing, Proved!Nothing,
         Loop!HasPrimary, Proved!HasPrimary, Loop!SteppedDown, Proved!SteppedDown,
         Loop!StandbyInSync, Proved!StandbyInSync,
         Loop!serverVars, Proved!serverVars, Loop!controlVars, Proved!controlVars
<1>10. Loop!Next => Proved!Next
  BY <1>3, <1>4, <1>5, <1>6, <1>7, <1>8, <1>9 DEF Loop!Next, Proved!Next
<1> QED
  BY <1>1, <1>2, <1>10

LEMMA Wishes ==
    \A wishes \in {[i \in DOMAIN t |-> t[i].wanted] : t \in Timelines} :
       wishes \in Seq([Region -> Proved!Wish])
<1> SUFFICES ASSUME NEW t \in Timelines
             PROVE  [i \in DOMAIN t |-> t[i].wanted] \in Seq([Region -> Proved!Wish])
  OBVIOUS
<1> DEFINE Some == [Region -> {"primary", "standby", "nothing"}]
           Entry == [at : Nat, wanted : Some]
<1>1. t \in Seq(Entry)
  BY RunsAssumption
<1>2. \A e \in Entry : e.wanted \in Some
  OBVIOUS
<1>3. Some = [Region -> Proved!Wish]
  BY DEF Proved!Wish
<1> HIDE DEF Some, Entry
<1>4. Len(t) \in Nat /\ DOMAIN t = 1 .. Len(t) /\ \A i \in 1 .. Len(t) : t[i] \in Entry
  BY <1>1
<1>5. [i \in 1 .. Len(t) |-> t[i].wanted] \in Seq(Some)
  <2>1. \A i \in 1 .. Len(t) : t[i].wanted \in Some
    BY <1>2, <1>4
  <2> QED
    BY <1>4, <2>1
<1> QED
  BY <1>3, <1>4, <1>5

LEMMA Recorded ==
    ASSUME NEW wanted, NEW roles, NEW phases, NEW gonedata,
           gonedata => wanted = Loop!Nothing
    PROVE  KeepsItsData(World(wanted, roles, phases, gonedata))
<1> DEFINE asked == {q \in Region : wanted[q] # "nothing"}
           world == World(wanted, roles, phases, gonedata)
<1>1. world.lost = gonedata /\ world.wanted = [r \in asked |-> wanted[r]]
  BY DEF World
<1>2. gonedata => asked = {}
  BY DEF Loop!Nothing
<1> HIDE DEF asked, world
<1>3. gonedata => DOMAIN world.wanted = {}
  BY <1>1, <1>2
<1> QED
  BY <1>1, <1>3 DEF KeepsItsData, world

LEMMA KeptByTheClock ==
    ASSUME Proved!OrderlyTimelines, RInv, Proved!RInv, ~ spoiled, [Next]_vars
    PROVE  RInv' /\ Proved!RInv' /\ ~ spoiled'
<1>1. RInv' /\ (Loop!Next \/ UNCHANGED Loop!vars)
  BY RStep
<1>2. [Proved!Next]_(Proved!vars)
  BY <1>1, SameLoop
<1>3. Proved!RInv'
  BY <1>2, Wishes, Proved!StepKeeps
<1>4. lost' => Wanted' = Loop!Nothing
  BY <1>3 DEF Proved!RInv
<1>5. Write => ~ spoiled'
  <2>1. KeepsItsData(World(Wanted', role', phase', lost'))
    BY <1>4, Recorded
  <2> QED
    BY <2>1 DEF Write
<1>6. Write \/ spoiled' = spoiled
  BY DEF Next, Answer, Create, Promote, Delete, Change, Advance, Leave, Look, Decide, GiveUp, Tick,
         vars, server
<1> QED
  BY <1>1, <1>3, <1>5, <1>6

\* `keeps_its_data`: whatever is drawn of the times and of the faults, no run has a world
\* recorded in which the data of a database that is wanted is gone.
THEOREM NoRunLosesData ==
    ASSUME Proved!OrderlyTimelines
    PROVE  Spec => [] ~ spoiled
<1>1. Init => RInv /\ Proved!RInv /\ ~ spoiled
  <2> SUFFICES ASSUME Init PROVE RInv /\ Proved!RInv /\ ~ spoiled
    OBVIOUS
  <2>1. RInv /\ Proved!Init
    BY RStart, SameLoop
  <2>2. Proved!RInv
    BY <2>1, Wishes, Proved!InitStarts
  <2> QED
    BY <2>1, <2>2 DEF Init
<1>2. (RInv /\ Proved!RInv /\ ~ spoiled) /\ [Next]_vars => (RInv /\ Proved!RInv /\ ~ spoiled)'
  BY KeptByTheClock
<1> QED
  BY <1>1, <1>2, PTL DEF Spec
================================================================================
