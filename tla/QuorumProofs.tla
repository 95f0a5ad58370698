----------------------------- MODULE QuorumProofs -----------------------------
(***************************************************************************)
(* Proofs about the rounds, for any finite set of replicas, any schedule   *)
(* and any constants in the order the comments of quorum.rs put them in.   *)
(***************************************************************************)
EXTENDS QuorumRounds, FiniteSetTheorems, TLAPS

\* The replica a message is to or from.
About(m) == IF m.from = Coordinator THEN m.to ELSE m.from

\* What a message of the open round may be: a question, or an answer to it.
Asks(m) ==
    /\ m.from = Coordinator /\ m.to \in Replica
    /\ \E l \in Latency : m.at = Opens(round) + l

Answers(m) ==
    /\ m.from \in Replica /\ m.to = Coordinator
    /\ \E l, k \in Latency, d \in Thinking : m.at = Opens(round) + l + d + k

\* A round opens on its instant and is over by its deadline.
Clocked ==
    /\ now \in Nat /\ round \in Nat \ {0} /\ asking \in BOOLEAN
    /\ asking => round <= Rounds /\ Opens(round) <= now /\ now <= Deadline(round)
    /\ ~ asking /\ round <= Rounds => now <= Opens(round)

\* What is on the wire is of the open round, and none of it is overdue.
OnTime ==
    \A m \in wire :
        /\ asking /\ m.round = round
        /\ m.at \in Nat /\ now <= m.at
        /\ Asks(m) \/ Answers(m)

Thinks(r) ==
    /\ asking /\ replica[r].round = round
    /\ now <= replica[r].until
    /\ \E l \in Latency, d \in Thinking : replica[r].until = Opens(round) + l + d

State ==
    [is : {"listening"}, until : Nat] \cup [is : {"thinking"}, round : Nat, until : Nat] \cup {Gone}

\* What a replica does is of the open round too, and nobody leaves before the last one.
Engaged ==
    /\ replica \in [Replica -> State]
    /\ \A r \in Replica :
           /\ replica[r].is = "listening" => replica[r].until >= Quiet
           /\ replica[r].is = "thinking" => Thinks(r)
           /\ replica[r].is = "gone" => now >= Quiet

\* A replica is asked once, and is asked, thinking or answering but one of them at a time.
Once ==
    /\ \A m, k \in wire : About(m) = About(k) => m = k
    /\ \A r \in Replica : replica[r].is = "thinking" => \A m \in wire : About(m) # r

Pending(r) == replica[r].is = "thinking" \/ \E m \in wire : About(m) = r

\* Each acknowledgement counted is that of a replica which has nothing more to say.
Counted == \E S \in SUBSET Replica : acks = Cardinality(S) /\ \A r \in S : ~ Pending(r)

QInv == Clocked /\ OnTime /\ Engaged /\ Once /\ Counted

--------------------------------------------------------------------------------
(* Instants. *)

LEMMA Parameters ==
    /\ Rounds \in Nat /\ Period \in Nat /\ Patience \in Nat /\ Quiet \in Nat
    /\ Coordinator \notin Replica /\ IsFiniteSet(Replica)
    /\ Patience < Period
    /\ \A l \in Latency : l \in Nat /\ l > 0 /\ Rounds * Period + l < Quiet
    /\ \A d \in Thinking : d \in Nat /\ d > 0
    /\ \A l, m \in Latency, d \in Thinking : l + d + m <= Patience
    /\ Thinking # {}
<1>1. Rounds \in Nat /\ Period \in Nat /\ Patience \in Nat /\ Quiet \in Nat
  BY QuorumAssumption
<1>2. \A l, m \in Latency, d \in Thinking : l + d + m <= Patience
  BY QuorumAssumption
<1>3. Thinking # {} /\ \A d \in Thinking : d \in Nat /\ d > 0
  BY QuorumAssumption
<1>4. \A l \in Latency : l \in Nat /\ l > 0 /\ Rounds * Period + l < Quiet
  <2>1. \A l \in Latency : l \in Nat /\ l > 0
    BY QuorumAssumption
  <2>2. \A l \in Latency : Rounds * Period + l < Quiet
    BY QuorumAssumption, Zenon
  <2> QED
    BY <2>1, <2>2, Zenon
<1>5. Coordinator \notin Replica /\ IsFiniteSet(Replica) /\ Patience < Period
  BY QuorumAssumption
<1> QED
  BY <1>1, <1>2, <1>3, <1>4, <1>5, Zenon

\* The next round opens after the deadline of this one, and the last before QUIET.
LEMMA RoundsApart ==
    ASSUME NEW n \in Nat \ {0}
    PROVE  /\ Opens(n) \in Nat /\ Deadline(n) \in Nat /\ Deadline(n) = Opens(n) + Patience
           /\ Deadline(n) < Opens(n + 1)
           /\ n <= Rounds => \A l \in Latency : Opens(n) + l < Quiet
<1>1. Opens(n) \in Nat /\ Opens(n + 1) = Opens(n) + Period
  BY Parameters DEF Opens
<1>2. n <= Rounds => Opens(n) <= Rounds * Period
  BY Parameters DEF Opens
<1>3. Rounds * Period \in Nat
  BY Parameters
<1> QED
  BY <1>1, <1>2, <1>3, Parameters DEF Deadline, Opens

\* A question lands, and its answer too, by the deadline.
LEMMA InTime ==
    ASSUME QInv, asking
    PROVE  /\ \A l \in Latency : Opens(round) + l < Quiet
           /\ \A l \in Latency, d \in Thinking :
                 l + d < Patience /\ Opens(round) + l + d < Deadline(round)
           /\ \A l, k \in Latency, d \in Thinking : Opens(round) + l + d + k <= Deadline(round)
<1>1. round \in Nat \ {0} /\ round <= Rounds
  BY DEF QInv, Clocked
<1>2. \A l \in Latency, d \in Thinking : l + d < Patience
  BY Parameters
<1> QED
  BY <1>1, <1>2, RoundsApart, Parameters

LEMMA SentFacts ==
    ASSUME NEW from, NEW to, NEW n, NEW sent \in Sent(from, to, n)
    PROVE  \/ sent = {}
           \/ \E l \in Latency : sent = {[from |-> from, to |-> to, round |-> n, at |-> now + l]}
<1>1. CASE Partitioned(faults, from, to, now)
  BY <1>1 DEF Sent
<1>2. CASE ~ Partitioned(faults, from, to, now)
  <2> DEFINE Some == {{[from |-> from, to |-> to, round |-> n, at |-> now + l]} : l \in Latency}
             D == Draws(LossOdds(faults, from, to, now, NoOdds))
  <2>1. sent \in UNION {IF dropped THEN {{}} ELSE Some : dropped \in D}
    BY <1>2 DEF Sent
  <2>2. PICK dropped \in D : sent \in IF dropped THEN {{}} ELSE Some
    <3> HIDE DEF Some, D
    <3> QED
      BY <2>1
  <2>3. sent = {} \/ sent \in Some
    BY <2>2
  <2> QED
    BY <2>3
<1> QED
  BY <1>1, <1>2

LEMMA ReplicasTalk ==
    ASSUME QInv, NEW m \in wire
    PROVE  /\ About(m) \in Replica /\ asking
           /\ m.to = Coordinator => Answers(m) /\ About(m) = m.from
           /\ m.to \in Replica => Asks(m) /\ About(m) = m.to
BY Parameters DEF QInv, OnTime, Asks, Answers, About

\* What lands now is there to take: nothing on the wire is overdue.
LEMMA LandsNow ==
    ASSUME QInv, NEW m \in wire
    PROVE  m \in Taken(m.to) <=> m.at = now
BY DEF QInv, OnTime, Clocked, Taken

--------------------------------------------------------------------------------
(* Every step preserves the invariant. *)

\* A round opens on its instant with nothing under way, and asks each replica once.
LEMMA OpenFacts ==
    ASSUME QInv, Open
    PROVE  /\ ~ asking /\ round <= Rounds /\ asking' = TRUE /\ acks' = 0
           /\ UNCHANGED <<faults, now, round, closed, replica>>
           /\ now = Opens(round) /\ now \in Nat /\ round \in Nat \ {0}
           /\ wire = {} /\ \A r \in Replica : replica[r].is # "thinking"
           /\ \E sent :
                 /\ \A r \in Replica : sent[r] \in Sent(Coordinator, r, round)
                 /\ wire' = UNION {sent[r] : r \in Replica}
                 /\ \A m \in wire' : \E r \in Replica, l \in Latency :
                       /\ m = [from |-> Coordinator, to |-> r, round |-> round, at |-> now + l]
                       /\ sent[r] = {m}
<1>1. PICK sent \in [Replica -> UNION {Sent(Coordinator, r, round) : r \in Replica}] :
         /\ \A r \in Replica : sent[r] \in Sent(Coordinator, r, round)
         /\ wire' = wire \cup UNION {sent[r] : r \in Replica}
  BY DEF Open
<1>2. /\ ~ asking /\ round <= Rounds /\ now >= Opens(round) /\ asking' = TRUE /\ acks' = 0
      /\ UNCHANGED <<faults, now, round, closed, replica>>
  BY DEF Open, MoreRounds
<1>3. now = Opens(round) /\ now \in Nat /\ round \in Nat \ {0}
  <2>1. now \in Nat /\ round \in Nat \ {0} /\ now <= Opens(round)
    BY <1>2 DEF QInv, Clocked
  <2>2. Opens(round) \in Nat
    BY <2>1, RoundsApart
  <2> QED
    BY <1>2, <2>1, <2>2
<1>4. wire = {} /\ \A r \in Replica : replica[r].is # "thinking"
  BY <1>2 DEF QInv, OnTime, Engaged, Thinks
<1>5. wire' = UNION {sent[r] : r \in Replica}
  BY <1>1, <1>4
<1>6. ASSUME NEW m \in wire'
      PROVE  \E r \in Replica, l \in Latency :
                /\ m = [from |-> Coordinator, to |-> r, round |-> round, at |-> now + l]
                /\ sent[r] = {m}
  <2>1. PICK r \in Replica : m \in sent[r]
    BY <1>5, <1>6
  <2> QED
    BY <1>1, <2>1, SentFacts
<1> QED
  BY <1>1, <1>2, <1>3, <1>4, <1>5, <1>6

LEMMA OpenKeeps == ASSUME QInv, Open PROVE QInv'
<1>1. PICK sent :
         \A m \in wire' : \E r \in Replica, l \in Latency :
            /\ m = [from |-> Coordinator, to |-> r, round |-> round, at |-> now + l]
            /\ sent[r] = {m}
  BY OpenFacts
<1>2. /\ ~ asking /\ round <= Rounds /\ asking' /\ acks' = 0
      /\ UNCHANGED <<now, round, replica>> /\ asking' \in BOOLEAN
  BY OpenFacts
<1>3. now = Opens(round) /\ now \in Nat /\ round \in Nat \ {0}
  BY OpenFacts
<1>4. \A r \in Replica : replica[r].is # "thinking"
  BY OpenFacts
<1>6. Clocked'
  BY <1>2, <1>3, RoundsApart, Parameters DEF Clocked, Opens, Deadline
<1>7. OnTime'
  BY <1>1, <1>2, <1>3, Parameters DEF OnTime, Asks, Opens
<1>8. Engaged'
  BY <1>2, <1>4 DEF QInv, Engaged
<1>9. Once'
  <2>1. ASSUME NEW m \in wire' PROVE About(m) \in Replica /\ sent[About(m)] = {m}
    BY <1>1, <2>1 DEF About
  <2>2. \A m, k \in wire' : About(m) = About(k) => m = k
    BY <2>1
  <2> QED
    BY <1>2, <1>4, <2>2 DEF Once, About
<1>10. Counted'
  <2>1. acks' = Cardinality({}) /\ {} \in SUBSET Replica
    BY <1>2, FS_EmptySet
  <2> QED
    BY <2>1 DEF Counted
<1> QED
  BY <1>6, <1>7, <1>8, <1>9, <1>10 DEF QInv

LEMMA CountKeeps == ASSUME QInv, Count PROVE QInv'
<1>1. PICK m \in Taken(Coordinator) :
         wire' = wire \ {m} /\ acks' = IF OfThisRound(m) THEN acks + 1 ELSE acks
  BY DEF Count
<1>2. UNCHANGED <<now, round, asking, replica>>
  BY DEF Count
<1>3. m \in wire /\ m.to = Coordinator /\ m.round = round
  BY DEF Taken, QInv, OnTime
<1>4. About(m) \in Replica
  BY <1>3, ReplicasTalk
<1>5. Clocked' /\ OnTime' /\ Engaged'
  BY <1>1, <1>2 DEF QInv, Clocked, OnTime, Engaged, Thinks, Asks, Answers, Opens, Deadline
<1>6. Once'
  BY <1>1, <1>2 DEF QInv, Once, About
<1>7. Counted'
  <2>1. PICK S \in SUBSET Replica : acks = Cardinality(S) /\ \A r \in S : ~ Pending(r)
    BY DEF QInv, Counted
  <2>2. About(m) \notin S
    BY <1>3, <2>1 DEF Pending
  <2>3. IsFiniteSet(S)
    BY FS_Subset, Parameters
  <2>4. Cardinality(S \cup {About(m)}) = acks + 1
    BY <2>1, <2>2, <2>3, FS_AddElement
  <2>5. \A r \in Replica : Pending(r)' => Pending(r)
    BY <1>1, <1>2 DEF Pending, About
  <2>6. ~ Pending(About(m))'
    BY <1>1, <1>2, <1>3, <1>4 DEF Pending, QInv, Once, About
  <2>7. acks' = Cardinality(S \cup {About(m)})
    BY <1>1, <1>3, <2>4 DEF OfThisRound
  <2> QED
    BY <1>4, <2>1, <2>5, <2>6, <2>7 DEF Counted
<1> QED
  BY <1>5, <1>6, <1>7 DEF QInv

\* When a round is over nothing of it is left.
LEMMA OverLeavesNothing ==
    ASSUME QInv, asking, Over
    PROVE  wire = {} /\ \A r \in Replica : replica[r].is # "thinking"
<1>1. CASE acks = Cardinality(Replica)
  <2>1. PICK S \in SUBSET Replica : acks = Cardinality(S) /\ \A r \in S : ~ Pending(r)
    BY DEF QInv, Counted
  <2>2. S = Replica
    BY <1>1, <2>1, FS_Subset, Parameters
  <2> QED
    BY <2>1, <2>2, ReplicasTalk DEF Pending
<1>2. CASE now >= Deadline(round) /\ Taken(Coordinator) = {}
  <2>a. now \in Nat /\ round \in Nat \ {0} /\ now <= Deadline(round)
    BY DEF QInv, Clocked
  <2>b. /\ Deadline(round) \in Nat /\ Opens(round) \in Nat
        /\ Deadline(round) = Opens(round) + Patience
    BY <2>a, RoundsApart
  <2>1. now \in Nat /\ now = Deadline(round)
    BY <1>2, <2>a, <2>b
  <2>2. ASSUME NEW r \in Replica, replica[r].is = "thinking" PROVE FALSE
    <3>1. PICK l \in Latency, d \in Thinking :
             now <= replica[r].until /\ replica[r].until = Opens(round) + l + d
      BY <2>2 DEF QInv, Engaged, Thinks
    <3>2. Opens(round) + l + d < Deadline(round) /\ l \in Nat /\ d \in Nat
      BY InTime, Parameters
    <3> QED
      BY <2>1, <2>b, <3>1, <3>2
  <2>3. ASSUME NEW m \in wire PROVE FALSE
    <3>1. m.at \in Nat /\ now <= m.at
      BY <2>3 DEF QInv, OnTime
    <3>2. CASE Asks(m)
      <4>1. PICK l \in Latency : m.at = Opens(round) + l
        BY <3>2 DEF Asks
      <4>2. l < Patience
        BY InTime, Parameters
      <4> QED
        BY <2>1, <2>b, <3>1, <4>1, <4>2, Parameters
    <3>3. CASE Answers(m)
      <4>1. m.at <= Deadline(round) /\ m.to = Coordinator
        BY <3>3, InTime DEF Answers
      <4>2. m.at = now
        BY <2>1, <2>b, <3>1, <4>1
      <4> QED
        BY <1>2, <4>1, <4>2, LandsNow
    <3> QED
      BY <2>3, <3>2, <3>3 DEF QInv, OnTime
  <2> QED
    BY <2>2, <2>3
<1> QED
  BY <1>1, <1>2 DEF Over

LEMMA CloseKeeps == ASSUME QInv, Close PROVE QInv'
<1>1. /\ asking /\ Over /\ ~ asking' /\ asking' \in BOOLEAN /\ round' = round + 1 /\ acks' = 0
      /\ UNCHANGED <<now, wire, replica>>
  BY DEF Close
<1>2. wire = {} /\ \A r \in Replica : replica[r].is # "thinking"
  BY <1>1, OverLeavesNothing
<1>3. Clocked'
  <2>1. now \in Nat /\ round \in Nat \ {0} /\ now <= Deadline(round)
    BY <1>1 DEF QInv, Clocked
  <2>2. Deadline(round) \in Nat /\ Opens(round') \in Nat /\ Deadline(round) < Opens(round')
    BY <1>1, <2>1, RoundsApart
  <2>3. now' <= Opens(round)'
    BY <1>1, <2>1, <2>2 DEF Opens
  <2> QED
    BY <1>1, <2>1, <2>3 DEF Clocked
<1>4. OnTime' /\ Engaged' /\ Once'
  BY <1>1, <1>2 DEF QInv, OnTime, Engaged, Once
<1>5. Counted'
  <2>1. acks' = Cardinality({}) /\ {} \in SUBSET Replica
    BY <1>1, FS_EmptySet
  <2> QED
    BY <2>1 DEF Counted
<1> QED
  BY <1>3, <1>4, <1>5 DEF QInv

LEMMA HearKeeps == ASSUME QInv, NEW r \in Replica, Hear(r) PROVE QInv'
<1>1. PICK m \in Taken(r), d \in Thinking :
         wire' = wire \ {m} /\ replica' = [replica EXCEPT ![r] = ThinkingOf(m.round, now + d)]
  BY DEF Hear
<1>2. UNCHANGED <<now, round, asking, acks>> /\ d \in Nat
  BY Parameters DEF Hear
<1>3. m \in wire /\ m.to = r /\ m.round = round /\ m.at = now /\ asking
  BY DEF Taken, QInv, OnTime, Clocked
<1>4. Asks(m) /\ About(m) = r
  BY <1>3, ReplicasTalk
<1>5. Clocked' /\ OnTime'
  BY <1>1, <1>2 DEF QInv, Clocked, OnTime, Asks, Answers, Opens, Deadline
<1>6. Engaged'
  <2>1. replica' \in [Replica -> State] /\ now \in Nat
    BY <1>1, <1>2, <1>3 DEF QInv, Engaged, State, ThinkingOf, Clocked
  <2>2. replica'[r] = [is |-> "thinking", round |-> round, until |-> now + d]
    BY <1>1, <1>3 DEF QInv, Engaged, ThinkingOf
  <2>3. Thinks(r)'
    <3>1. PICK l \in Latency : now = Opens(round) + l
      BY <1>3, <1>4 DEF Asks
    <3>2. Opens(round)' = Opens(round)
      BY <1>2 DEF Opens
    <3> QED
      BY <1>1, <1>2, <1>3, <2>1, <2>2, <3>1, <3>2 DEF Thinks
  <2>4. \A o \in Replica \ {r} : replica'[o] = replica[o] /\ (Thinks(o) => Thinks(o)')
    BY <1>1, <1>2 DEF QInv, Engaged, Thinks, Opens
  <2> QED
    BY <1>2, <2>1, <2>2, <2>3, <2>4 DEF QInv, Engaged
<1>7. Once'
  BY <1>1, <1>2, <1>3, <1>4 DEF QInv, Once, About, Engaged
<1>8. Counted'
  <2>1. PICK S \in SUBSET Replica : acks = Cardinality(S) /\ \A o \in S : ~ Pending(o)
    BY DEF QInv, Counted
  <2>2. r \notin S
    BY <1>3, <1>4, <2>1 DEF Pending
  <2>3. \A o \in Replica \ {r} : Pending(o)' => Pending(o)
    BY <1>1 DEF Pending, About, QInv, Engaged
  <2> QED
    BY <1>2, <2>1, <2>2, <2>3 DEF Counted
<1> QED
  BY <1>5, <1>6, <1>7, <1>8 DEF QInv

LEMMA AnswerKeeps == ASSUME QInv, NEW r \in Replica, Answer(r) PROVE QInv'
<1>1. PICK sent \in Sent(r, Coordinator, replica[r].round) : wire' = wire \cup sent
  BY DEF Answer
<1>2. /\ replica[r].is = "thinking" /\ now >= replica[r].until
      /\ replica' = [replica EXCEPT ![r] = Listening(now + Quiet)]
      /\ UNCHANGED <<now, round, asking, acks>>
  BY DEF Answer
<1>3. Thinks(r) /\ now \in Nat
  BY <1>2 DEF QInv, Engaged, Clocked
<1>4. now = replica[r].until
  BY <1>2, <1>3 DEF QInv, Engaged, State, Gone, Thinks
<1>5. PICK l \in Latency, d \in Thinking : now = Opens(round) + l + d
  BY <1>3, <1>4 DEF Thinks
<1>6. ASSUME NEW m \in wire' \ wire
      PROVE  \E k \in Latency :
                m = [from |-> r, to |-> Coordinator, round |-> round, at |-> now + k]
                /\ sent = {m}
  BY <1>1, <1>3, <1>6, SentFacts DEF Thinks
<1>7. Clocked'
  BY <1>2 DEF QInv, Clocked, Opens, Deadline
<1>8. OnTime'
  <2>1. ASSUME NEW m \in wire' \ wire
        PROVE  /\ asking /\ m.round = round /\ m.at \in Nat /\ now <= m.at
               /\ Answers(m)
    <3>1. PICK k \in Latency :
             m = [from |-> r, to |-> Coordinator, round |-> round, at |-> now + k]
      BY <1>6
    <3>2. k \in Nat /\ m.at = Opens(round) + l + d + k
      BY <1>5, <3>1, Parameters
    <3> QED
      BY <1>3, <3>1, <3>2 DEF Thinks, Answers
  <2>2. \A m : (Asks(m) => Asks(m)') /\ (Answers(m) => Answers(m)')
    BY <1>2 DEF Asks, Answers, Opens
  <2> QED
    BY <1>2, <2>1, <2>2 DEF QInv, OnTime
<1>9. replica'[r] = Listening(now + Quiet) /\ \A o \in Replica \ {r} : replica'[o] = replica[o]
  BY <1>2 DEF QInv, Engaged
<1>10. Engaged'
  <2>1. replica' \in [Replica -> State]
    BY <1>2, <1>3, Parameters DEF QInv, Engaged, State, Listening
  <2>2. \A o : Thinks(o) /\ replica'[o] = replica[o] => Thinks(o)'
    BY <1>2 DEF Thinks, Opens
  <2> QED
    BY <1>2, <1>3, <1>9, <2>1, <2>2, Parameters DEF QInv, Engaged, Listening
<1>11. Once'
  <2>1. \A m \in wire' \ wire : About(m) = r /\ sent = {m}
    BY <1>6, Parameters DEF About
  <2>2. \A m \in wire : About(m) # r
    BY <1>2 DEF QInv, Once
  <2>3. \A m, k \in wire' : About(m) = About(k) => m = k
    BY <1>1, <2>1, <2>2 DEF QInv, Once
  <2>4. \A o \in Replica : replica'[o].is = "thinking" => o # r /\ replica[o].is = "thinking"
    BY <1>9 DEF Listening
  <2> QED
    BY <1>1, <2>1, <2>3, <2>4 DEF QInv, Once, About
<1>12. Counted'
  <2>1. PICK S \in SUBSET Replica : acks = Cardinality(S) /\ \A o \in S : ~ Pending(o)
    BY DEF QInv, Counted
  <2>2. r \notin S
    BY <1>2, <2>1 DEF Pending
  <2>3. \A m \in wire' \ wire : About(m) = r
    BY <1>6, Parameters DEF About
  <2>4. \A o \in Replica \ {r} : Pending(o)' => Pending(o)
    BY <1>9, <2>3 DEF Pending, About
  <2> QED
    BY <1>2, <2>1, <2>2, <2>4 DEF Counted
<1> QED
  BY <1>7, <1>8, <1>10, <1>11, <1>12 DEF QInv

LEMMA LeaveKeeps == ASSUME QInv, NEW r \in Replica, Leave(r) PROVE QInv'
<1>1. /\ replica[r].is = "listening" /\ now >= replica[r].until
      /\ replica' = [replica EXCEPT ![r] = Gone]
      /\ UNCHANGED <<now, wire, round, asking, acks>>
  BY DEF Leave
<1>2. Clocked' /\ OnTime'
  BY <1>1 DEF QInv, Clocked, OnTime, Asks, Answers, Opens, Deadline
<1>3. replica'[r] = Gone /\ \A o \in Replica \ {r} : replica'[o] = replica[o]
  BY <1>1 DEF QInv, Engaged
<1>4. now >= Quiet
  <2>1. now \in Nat /\ replica[r].until \in Nat /\ replica[r].until >= Quiet
    BY <1>1 DEF QInv, Clocked, Engaged, State, Gone
  <2> QED
    BY <1>1, <2>1, Parameters
<1>5. Engaged'
  <2>1. replica' \in [Replica -> State]
    BY <1>1 DEF QInv, Engaged, State
  <2>2. \A o : Thinks(o) /\ replica'[o] = replica[o] => Thinks(o)'
    BY <1>1 DEF Thinks, Opens
  <2> QED
    BY <1>1, <1>3, <1>4, <2>1, <2>2 DEF QInv, Engaged, Gone
<1>6. Once' /\ Counted'
  BY <1>1, <1>3 DEF QInv, Once, Counted, Pending, About, Gone
<1> QED
  BY <1>2, <1>5, <1>6 DEF QInv

LEMMA TickKeeps == ASSUME QInv, Tick PROVE QInv'
<1>1. /\ now' = now + 1 /\ ~ Busy /\ UNCHANGED <<wire, round, asking, acks, replica>>
  BY DEF Tick
<1>2. now \in Nat /\ round \in Nat \ {0}
  BY DEF QInv, Clocked
<1>a. Opens(round) \in Nat /\ Deadline(round) \in Nat
  BY <1>2, RoundsApart
<1>3. Clocked'
  <2>1. asking => now < Deadline(round)
    BY <1>1, <1>2, <1>a DEF Busy, Over
  <2>2. ~ asking /\ round <= Rounds => now < Opens(round)
    BY <1>1, <1>2, <1>a DEF Busy, MoreRounds
  <2> QED
    BY <1>1, <1>2, <1>a, <2>1, <2>2 DEF QInv, Clocked, Opens, Deadline
<1>4. \A m \in wire : now < m.at
  <2> SUFFICES ASSUME NEW m \in wire, m.at = now PROVE FALSE
    BY <1>2 DEF QInv, OnTime
  <2>1. m \in Taken(m.to) /\ asking
    BY LandsNow, ReplicasTalk
  <2>2. CASE m.to = Coordinator
    BY <1>1, <2>1, <2>2 DEF Busy
  <2>3. CASE Asks(m)
    <3>1. m.to \in Replica /\ About(m) = m.to /\ now < Quiet
      BY <2>1, <2>3, ReplicasTalk, InTime DEF Asks
    <3>2. replica[m.to].is \notin {"thinking", "gone"}
      BY <1>2, <3>1, Parameters DEF QInv, Once, Engaged
    <3>3. replica[m.to].is = "listening"
      BY <3>1, <3>2 DEF QInv, Engaged, State, Gone
    <3> QED
      BY <1>1, <2>1, <3>1, <3>3 DEF Busy
  <2> QED
    BY <2>2, <2>3 DEF QInv, OnTime, Answers
<1>5. OnTime'
  BY <1>1, <1>2, <1>4 DEF QInv, OnTime, Asks, Answers, Opens
<1>6. Engaged'
  <2>1. ASSUME NEW r \in Replica, replica[r].is = "thinking"
        PROVE  replica[r].until \in Nat /\ now < replica[r].until
    BY <1>1, <1>2, <2>1 DEF Busy, QInv, Engaged, Thinks, State, Gone
  <2>2. \A r \in Replica : replica[r].is = "thinking" => Thinks(r)'
    BY <1>1, <1>2, <2>1 DEF QInv, Engaged, Thinks, Opens
  <2>3. \A r \in Replica : replica[r].is = "gone" => now + 1 >= Quiet
    BY <1>2, Parameters DEF QInv, Engaged
  <2> QED
    BY <1>1, <2>2, <2>3 DEF QInv, Engaged
<1>7. Once' /\ Counted'
  BY <1>1 DEF QInv, Once, Counted, Pending, About
<1> QED
  BY <1>3, <1>5, <1>6, <1>7 DEF QInv

LEMMA InitHolds == Init => QInv
<1> SUFFICES ASSUME Init PROVE QInv
  OBVIOUS
<1>1. Clocked
  <2>1. Opens(1) \in Nat
    BY RoundsApart
  <2>2. now = 0 /\ round = 1 /\ asking = FALSE
    BY DEF Init
  <2>3. now <= Opens(round)
    BY <2>1, <2>2
  <2>4. asking \in BOOLEAN /\ ~ asking
    BY <2>2, Zenon
  <2>5. now \in Nat /\ round \in Nat \ {0}
    BY <2>2
  <2> QED
    BY <2>3, <2>4, <2>5, Zenon DEF Clocked
<1>2. OnTime /\ Once
  BY DEF Init, OnTime, Once, Listening
<1>3. Engaged
  BY Parameters DEF Init, Engaged, State, Listening
<1>4. acks = Cardinality({}) /\ {} \in SUBSET Replica
  BY FS_EmptySet DEF Init
<1> QED
  BY <1>1, <1>2, <1>3, <1>4 DEF QInv, Counted

LEMMA StepKeeps == QInv /\ [Next]_vars => QInv'
<1>1. ASSUME QInv, UNCHANGED vars PROVE QInv'
  BY <1>1 DEF vars, QInv, Clocked, OnTime, Engaged, Once, Counted, Pending, Thinks, Asks, Answers,
              Opens, Deadline, About
<1> QED
  BY <1>1, OpenKeeps, CountKeeps, CloseKeeps, HearKeeps, AnswerKeeps, LeaveKeeps, TickKeeps
     DEF Next

--------------------------------------------------------------------------------
(* What the faults of a round do to its count. *)

\* Nobody a fault kept from being asked has anything to say, and no answer of a replica
\* that is cut off is on the wire.
Reached ==
    asking =>
        /\ \A r \in Replica : Pending(r) => ~ Partitioned(faults, Coordinator, r, Opens(round))
        /\ \A m \in wire : m.from \in Replica => m.from \notin CutOff(round)

\* Those counted are not cut off, and whoever no fault touches is counted or will be.
Tally(S) ==
    /\ S \in SUBSET Replica /\ acks = Cardinality(S)
    /\ \A r \in S : ~ Pending(r) /\ r \notin CutOff(round)
    /\ \A r \in Clear(round) : r \in S \/ Pending(r)

Tallied == asking => \E S : Tally(S)

\* What a closed round recorded is what its own faults allow.
Allowed(n, record) ==
    /\ record.reached <=> record.acks >= Quorum
    /\ Cardinality(Clear(n)) <= record.acks
    /\ record.acks <= Cardinality(Replica \ CutOff(n))

Recorded ==
    /\ closed \in Seq([acks : Nat, reached : BOOLEAN]) /\ Len(closed) = round - 1
    /\ \A n \in DOMAIN closed : Allowed(n, closed[n])

FInv == QInv /\ Reached /\ Tallied /\ Recorded

\* A fault that cuts a direction is a fault on it.
LEMMA CutIsFault ==
    ASSUME NEW from, NEW to, NEW at, ~ Faulty(from, to, at)
    PROVE  /\ ~ Partitioned(faults, from, to, at)
           /\ LossOdds(faults, from, to, at, NoOdds) = NoOdds
BY DEF Faulty, Partitioned, LossOdds

\* Nothing leaves through a direction that is cut, and something does where no fault is.
LEMMA SentAsScheduled ==
    ASSUME NEW from, NEW to, NEW n, NEW sent \in Sent(from, to, n)
    PROVE  /\ Partitioned(faults, from, to, now) => sent = {}
           /\ ~ Faulty(from, to, now) => \E m : sent = {m} /\ m.from = from /\ m.to = to
<1>1. Partitioned(faults, from, to, now) => sent = {}
  BY DEF Sent
<1>2. ASSUME ~ Faulty(from, to, now)
      PROVE  \E m : sent = {m} /\ m.from = from /\ m.to = to
  <2> DEFINE Some == {{[from |-> from, to |-> to, round |-> n, at |-> now + l]} : l \in Latency}
  <2>1. ~ Partitioned(faults, from, to, now) /\ LossOdds(faults, from, to, now, NoOdds) = NoOdds
    BY <1>2, CutIsFault
  <2>2. Draws(NoOdds) = {FALSE}
    <3>1. NoOdds.numerator = 0 /\ NoOdds.denominator = 1
      BY DEF NoOdds
    <3>2. ~ (NoOdds.numerator > 0) /\ NoOdds.numerator < NoOdds.denominator
      BY <3>1
    <3> QED
      BY <3>2, Zenon DEF Draws
  <2>3. sent \in UNION {IF dropped THEN {{}} ELSE Some : dropped \in {FALSE}}
    BY <2>1, <2>2 DEF Sent
  <2>4. sent \in Some
    <3> HIDE DEF Some
    <3> QED
      BY <2>3
  <2>5. PICK l \in Latency :
           sent = {[from |-> from, to |-> to, round |-> n, at |-> now + l]}
    BY <2>4
  <2> DEFINE one == [from |-> from, to |-> to, round |-> n, at |-> now + l]
  <2>6. one.from = from /\ one.to = to /\ sent = {one}
    BY <2>5
  <2> QED
    BY <2>6
<1> QED
  BY <1>1, <1>2

\* The faults of a run stay as they are, and so does what they say of a round.
LEMMA SameSchedule ==
    ASSUME UNCHANGED faults
    PROVE  /\ \A n : Clear(n)' = Clear(n) /\ CutOff(n)' = CutOff(n)
           /\ \A from, to, at :
                 Partitioned(faults, from, to, at)' <=> Partitioned(faults, from, to, at)
BY DEF Clear, CutOff, Faulty, Partitioned, FirstApplying, InForce, Applies, HoldsAt

\* What was recorded stays allowed while nothing more is.
LEMMA SameRecord ==
    ASSUME Recorded, UNCHANGED <<faults, closed, round>>
    PROVE  Recorded'
<1>1. \A n : Clear(n)' = Clear(n) /\ CutOff(n)' = CutOff(n)
  BY SameSchedule
<1> QED
  BY <1>1 DEF Recorded, Allowed

\* A tally stands while those with something to say are the same.
LEMMA SameTally ==
    ASSUME NEW S, Tally(S), UNCHANGED <<faults, round, acks>>,
           \A r \in Replica : Pending(r)' <=> Pending(r)
    PROVE  Tally(S)'
<1>1. Clear(round)' = Clear(round) /\ CutOff(round)' = CutOff(round)
  BY SameSchedule DEF Clear, CutOff
<1>2. Clear(round) \subseteq Replica
  BY DEF Clear
<1> QED
  BY <1>1, <1>2 DEF Tally

\* What is recorded and tallied stands while those with something to say are the same and
\* nothing new is on the wire.
LEMMA SamePending ==
    ASSUME FInv, UNCHANGED <<faults, round, asking, acks, closed>>, wire' \subseteq wire,
           \A r \in Replica : Pending(r)' <=> Pending(r)
    PROVE  Reached' /\ Tallied' /\ Recorded'
<1>1. /\ CutOff(round)' = CutOff(round) /\ Opens(round)' = Opens(round)
      /\ \A r \in Replica :
            Partitioned(faults, Coordinator, r, Opens(round))'
               <=> Partitioned(faults, Coordinator, r, Opens(round))
  BY SameSchedule DEF Opens, CutOff
<1>2. Reached'
  BY <1>1 DEF FInv, Reached
<1>3. Tallied'
  BY SameTally DEF FInv, Tallied
<1> QED
  BY <1>2, <1>3, SameRecord DEF FInv

LEMMA OpenRecords == ASSUME FInv, Open PROVE Reached' /\ Tallied' /\ Recorded'
<1> USE DEF FInv
<1>1. PICK sent :
         /\ \A r \in Replica : sent[r] \in Sent(Coordinator, r, round)
         /\ wire' = UNION {sent[r] : r \in Replica}
         /\ \A m \in wire' : \E r \in Replica, l \in Latency :
               /\ m = [from |-> Coordinator, to |-> r, round |-> round, at |-> now + l]
               /\ sent[r] = {m}
  BY OpenFacts
<1>2. /\ asking' /\ acks' = 0 /\ UNCHANGED <<faults, round, closed, replica>>
      /\ now = Opens(round) /\ \A r \in Replica : replica[r].is # "thinking"
  BY OpenFacts
<1>3. Opens(round)' = Opens(round) /\ Clear(round)' = Clear(round)
  BY <1>2, SameSchedule DEF Opens, Clear
<1>4. Reached'
  <2>1. ASSUME NEW r \in Replica, Pending(r)'
        PROVE  ~ Partitioned(faults, Coordinator, r, Opens(round))
    <3>1. PICK m \in wire' : About(m) = r
      BY <1>2, <2>1 DEF Pending, About
    <3>2. sent[r] # {}
      BY <1>1, <3>1 DEF About
    <3> QED
      BY <1>1, <1>2, <3>2, SentAsScheduled
  <2>2. \A r \in Replica :
           Partitioned(faults, Coordinator, r, Opens(round))'
              <=> Partitioned(faults, Coordinator, r, Opens(round))
    BY <1>2, <1>3, SameSchedule
  <2>3. \A m \in wire' : m.from \notin Replica
    BY <1>1, Parameters
  <2> QED
    BY <2>1, <2>2, <2>3 DEF Reached
<1>5. Tallied'
  <2>1. ASSUME NEW r \in Clear(round) PROVE Pending(r)'
    <3>1. r \in Replica /\ ~ Faulty(Coordinator, r, now)
      BY <1>2 DEF Clear, Opens
    <3>2. PICK m : sent[r] = {m} /\ m.from = Coordinator /\ m.to = r
      BY <1>1, <3>1, SentAsScheduled
    <3>3. m \in wire' /\ About(m) = r
      BY <1>1, <3>1, <3>2 DEF About
    <3> QED
      BY <3>3 DEF Pending, About
  <2>2. Tally({})'
    BY <1>2, <1>3, <2>1, FS_EmptySet DEF Tally
  <2> QED
    BY <2>2 DEF Tallied
<1> QED
  BY <1>2, <1>4, <1>5, SameRecord

LEMMA CountRecords == ASSUME FInv, Count PROVE Reached' /\ Tallied' /\ Recorded'
<1> USE DEF FInv
<1>1. PICK m \in Taken(Coordinator) :
         wire' = wire \ {m} /\ acks' = IF OfThisRound(m) THEN acks + 1 ELSE acks
  BY DEF Count
<1>2. asking /\ UNCHANGED <<faults, now, round, asking, closed, replica>>
  BY DEF Count
<1>3. m \in wire /\ m.to = Coordinator /\ m.round = round
  BY DEF Taken, QInv, OnTime
<1>4. About(m) = m.from /\ m.from \in Replica
  BY <1>3, ReplicasTalk
<1>5. /\ Clear(round)' = Clear(round) /\ CutOff(round)' = CutOff(round)
      /\ Opens(round)' = Opens(round)
  BY <1>2, SameSchedule DEF Opens, Clear, CutOff
<1>6. \A r \in Replica : Pending(r)' => Pending(r)
  BY <1>1, <1>2 DEF Pending, About
<1>7. Reached'
  <2>1. \A r \in Replica :
           Partitioned(faults, Coordinator, r, Opens(round))'
              <=> Partitioned(faults, Coordinator, r, Opens(round))
    BY <1>2, <1>5, SameSchedule
  <2> QED
    BY <1>1, <1>2, <1>5, <1>6, <2>1 DEF Reached
<1>8. Tallied'
  <2>1. PICK S : Tally(S)
    BY <1>2 DEF Tallied
  <2>2. S \in SUBSET Replica /\ acks = Cardinality(S)
    BY <2>1 DEF Tally
  <2>3. m.from \notin S
    BY <1>3, <1>4, <2>1 DEF Tally, Pending
  <2>4. acks' = Cardinality(S \cup {m.from})
    <3>1. IsFiniteSet(S)
      BY <2>2, FS_Subset, Parameters
    <3>2. Cardinality(S \cup {m.from}) = acks + 1
      BY <2>2, <2>3, <3>1, FS_AddElement
    <3> QED
      BY <1>1, <1>3, <3>2 DEF OfThisRound
  <2>5. ~ Pending(m.from)'
    BY <1>1, <1>2, <1>3, <1>4 DEF Pending, QInv, Once, About
  <2>6. m.from \notin CutOff(round)
    BY <1>2, <1>3, <1>4 DEF Reached
  <2>7. \A r \in Replica \ {m.from} : Pending(r) => Pending(r)'
    BY <1>1, <1>2, <1>4 DEF Pending, About
  <2>8. Clear(round) \subseteq Replica
    BY DEF Clear
  <2>9. Tally(S \cup {m.from})'
    BY <1>4, <1>5, <1>6, <2>1, <2>2, <2>4, <2>5, <2>6, <2>7, <2>8 DEF Tally
  <2> QED
    BY <2>9 DEF Tallied
<1> QED
  BY <1>2, <1>7, <1>8, SameRecord

\* A closing round counts everyone clear of faults and no one cut off.
LEMMA ClosesAsAllowed ==
    ASSUME FInv, asking, Over
    PROVE  acks \in Nat /\ Allowed(round, [acks |-> acks, reached |-> acks >= Quorum])
<1>1. wire = {} /\ \A r \in Replica : replica[r].is # "thinking"
  BY OverLeavesNothing DEF FInv
<1>2. PICK S : Tally(S)
  BY DEF FInv, Tallied
<1>3. S \in SUBSET Replica /\ acks = Cardinality(S) /\ IsFiniteSet(S) /\ acks \in Nat
  BY <1>2, FS_Subset, FS_CardinalityType, Parameters DEF Tally
<1>4. Clear(round) \subseteq S
  BY <1>1, <1>2 DEF Tally, Pending, Clear
<1>5. S \subseteq Replica \ CutOff(round) /\ IsFiniteSet(Replica \ CutOff(round))
  BY <1>2, <1>3, FS_Subset, Parameters DEF Tally
<1>6. Cardinality(Clear(round)) <= acks /\ acks <= Cardinality(Replica \ CutOff(round))
  BY <1>3, <1>4, <1>5, FS_Subset
<1> QED
  BY <1>3, <1>6 DEF Allowed

LEMMA CloseRecords == ASSUME FInv, Close PROVE Reached' /\ Tallied' /\ Recorded'
<1> USE DEF FInv
<1> DEFINE record == [acks |-> acks, reached |-> acks >= Quorum]
<1>1. /\ asking /\ Over /\ asking' = FALSE /\ round' = round + 1
      /\ closed' = Append(closed, record) /\ UNCHANGED faults
  BY DEF Close
<1>2. acks \in Nat /\ Allowed(round, record)
  BY <1>1, ClosesAsAllowed
<1>3. /\ closed \in Seq([acks : Nat, reached : BOOLEAN]) /\ Len(closed) = round - 1
      /\ round \in Nat \ {0} /\ \A n \in DOMAIN closed : Allowed(n, closed[n])
  BY DEF Recorded, QInv, Clocked
<1>4. record \in [acks : Nat, reached : BOOLEAN]
  <2>1. (acks >= Quorum) \in BOOLEAN
    OBVIOUS
  <2> QED
    BY <1>2, <2>1
<1>5. \A n : Clear(n)' = Clear(n) /\ CutOff(n)' = CutOff(n)
  BY <1>1, SameSchedule
<1>6. /\ closed' \in Seq([acks : Nat, reached : BOOLEAN]) /\ Len(closed') = round
      /\ DOMAIN closed' = 1 .. round /\ closed'[round] = record
      /\ \A n \in 1 .. round - 1 : n \in DOMAIN closed /\ closed'[n] = closed[n]
  BY <1>1, <1>3, <1>4
<1>7. ASSUME NEW n \in DOMAIN closed' PROVE Allowed(n, closed'[n])
  <2>1. CASE n = round
    BY <1>2, <1>6, <2>1
  <2>2. CASE n \in 1 .. round - 1
    BY <1>3, <1>6, <2>2
  <2> QED
    BY <1>3, <1>6, <1>7, <2>1, <2>2
<1>8. \A n : Allowed(n, closed'[n]) => Allowed(n, closed[n])'
  BY <1>5 DEF Allowed
<1>9. Recorded'
  BY <1>1, <1>3, <1>6, <1>7, <1>8 DEF Recorded
<1> QED
  BY <1>1, <1>9 DEF Reached, Tallied

LEMMA HearRecords == ASSUME FInv, NEW r \in Replica, Hear(r) PROVE Reached' /\ Tallied' /\ Recorded'
<1> USE DEF FInv
<1>1. PICK m \in Taken(r), d \in Thinking :
         wire' = wire \ {m} /\ replica' = [replica EXCEPT ![r] = ThinkingOf(m.round, now + d)]
  BY DEF Hear
<1>2. UNCHANGED <<faults, now, round, asking, acks, closed>>
  BY DEF Hear
<1>3. m \in wire /\ m.to = r /\ About(m) = r
  BY ReplicasTalk DEF Taken
<1>4. replica'[r].is = "thinking" /\ \A o \in Replica \ {r} : replica'[o] = replica[o]
  BY <1>1 DEF QInv, Engaged, ThinkingOf
<1>5. \A o \in Replica : Pending(o)' <=> Pending(o)
  BY <1>1, <1>3, <1>4 DEF Pending, About
<1> QED
  BY <1>1, <1>2, <1>5, SamePending

LEMMA AnswerRecords ==
    ASSUME FInv, NEW r \in Replica, Answer(r) PROVE Reached' /\ Tallied' /\ Recorded'
<1> USE DEF FInv
<1>1. PICK sent \in Sent(r, Coordinator, replica[r].round) : wire' = wire \cup sent
  BY DEF Answer
<1>2. /\ replica[r].is = "thinking" /\ now >= replica[r].until
      /\ replica' = [replica EXCEPT ![r] = Listening(now + Quiet)]
      /\ UNCHANGED <<faults, now, round, asking, acks, closed>>
  BY DEF Answer
<1>3. asking /\ Pending(r) /\ now \in Opens(round) .. Opens(round) + Patience
  <2>1. asking /\ now \in Nat /\ round \in Nat \ {0}
    BY <1>2 DEF QInv, Engaged, Thinks, Clocked
  <2>2. Opens(round) \in Nat /\ Opens(round) <= now /\ now <= Opens(round) + Patience
    BY <2>1, RoundsApart DEF QInv, Clocked, Deadline
  <2> QED
    BY <1>2, <2>1, <2>2, Parameters DEF Pending
<1>4. sent # {} => r \notin CutOff(round)
  <2>1. sent # {} => ~ Partitioned(faults, r, Coordinator, now)
    BY <1>1, SentAsScheduled
  <2>2. ~ Partitioned(faults, Coordinator, r, Opens(round))
    BY <1>3 DEF Reached
  <2> QED
    BY <1>3, <2>1, <2>2 DEF CutOff, Opens
<1>5. r \in Clear(round) => \E m : sent = {m}
  BY <1>1, <1>3, SentAsScheduled DEF Clear, Opens
<1>6. \A m \in sent : m.from = r /\ m.to = Coordinator /\ About(m) = r
  BY <1>1, SentFacts, Parameters DEF About
<1>7. \A o \in Replica \ {r} : replica'[o] = replica[o] 
  BY <1>2 DEF QInv, Engaged
<1>8. \A o \in Replica \ {r} : Pending(o)' <=> Pending(o)
  BY <1>1, <1>6, <1>7 DEF Pending, About
<1>9. /\ Clear(round)' = Clear(round) /\ CutOff(round)' = CutOff(round)
      /\ Opens(round)' = Opens(round)
  BY <1>2, SameSchedule DEF Opens, Clear, CutOff
<1>10. Reached'
  <2>1. \A o \in Replica :
           Partitioned(faults, Coordinator, o, Opens(round))'
              <=> Partitioned(faults, Coordinator, o, Opens(round))
    BY <1>2, <1>9, SameSchedule
  <2>2. \A o \in Replica : Pending(o)' => Pending(o)
    BY <1>3, <1>8
  <2> QED
    BY <1>1, <1>2, <1>4, <1>6, <1>9, <2>1, <2>2 DEF Reached
<1>11. Tallied'
  <2>1. PICK S : Tally(S)
    BY <1>3 DEF Tallied
  <2>2. r \notin S
    BY <1>3, <2>1 DEF Tally
  <2>3. r \in Clear(round) => Pending(r)'
    BY <1>1, <1>5, <1>6 DEF Pending, About
  <2>4. Clear(round) \subseteq Replica
    BY DEF Clear
  <2>5. Tally(S)'
    BY <1>2, <1>8, <1>9, <2>1, <2>2, <2>3, <2>4 DEF Tally
  <2> QED
    BY <2>5 DEF Tallied
<1> QED
  BY <1>2, <1>10, <1>11, SameRecord

LEMMA LeaveRecords ==
    ASSUME FInv, NEW r \in Replica, Leave(r) PROVE Reached' /\ Tallied' /\ Recorded'
<1>1. /\ replica[r].is = "listening" /\ replica' = [replica EXCEPT ![r] = Gone]
      /\ UNCHANGED <<faults, now, wire, round, asking, acks, closed>>
  BY DEF Leave
<1>2. replica'[r] = Gone /\ \A o \in Replica \ {r} : replica'[o] = replica[o]
  BY <1>1 DEF FInv, QInv, Engaged
<1>3. \A o \in Replica : Pending(o)' <=> Pending(o)
  BY <1>1, <1>2 DEF Pending, About, Gone
<1> QED
  BY <1>1, <1>3, SamePending

LEMMA StillRecords == ASSUME FInv, Tick \/ UNCHANGED vars PROVE Reached' /\ Tallied' /\ Recorded'
<1>1. UNCHANGED <<faults, wire, round, asking, acks, closed, replica>>
  BY DEF Tick, vars
<1>2. \A o \in Replica : Pending(o)' <=> Pending(o)
  BY <1>1 DEF Pending, About
<1> QED
  BY <1>1, <1>2, SamePending

LEMMA FaultsAccountedFor == FInv /\ [Next]_vars => FInv'
<1> SUFFICES ASSUME FInv, [Next]_vars PROVE FInv'
  OBVIOUS
<1>1. QInv'
  BY StepKeeps DEF FInv
<1>2. Reached' /\ Tallied' /\ Recorded'
  BY OpenRecords, CountRecords, CloseRecords, HearRecords, AnswerRecords, LeaveRecords,
     StillRecords DEF Next
<1> QED
  BY <1>1, <1>2 DEF FInv

LEMMA NothingToAccountFor == Init => FInv
<1> SUFFICES ASSUME Init PROVE FInv
  OBVIOUS
<1>1. QInv
  BY InitHolds
<1>2. ~ asking /\ closed = <<>> /\ round = 1
  BY DEF Init
<1> QED
  BY <1>1, <1>2 DEF FInv, Reached, Tallied, Recorded

\* What the records allow is the property.
LEMMA AllowedIsEnough == FInv => LostOnlyToItsOwnFaults
<1> SUFFICES ASSUME FInv, NEW n \in DOMAIN closed
             PROVE  /\ Cardinality(Clear(n)) <= closed[n].acks
                    /\ closed[n].acks <= Cardinality(Replica \ CutOff(n))
                    /\ n \in FirstLost =>
                          /\ Cardinality(Clear(n)) < Quorum
                          /\ \A m \in 1 .. n - 1 : Cardinality(Replica \ CutOff(m)) >= Quorum
  BY DEF LostOnlyToItsOwnFaults
<1>1. \A m \in DOMAIN closed : Allowed(m, closed[m])
  BY DEF FInv, Recorded
<1>2. Quorum \in Nat
  BY QuorumAssumption
<1>3. /\ DOMAIN closed = 1 .. Len(closed) /\ Len(closed) \in Nat
      /\ \A m \in DOMAIN closed : closed[m].acks \in Nat
  <2> DEFINE Records == [acks : Nat, reached : BOOLEAN]
  <2>1. closed \in Seq(Records)
    BY DEF FInv, Recorded
  <2>2. /\ DOMAIN closed = 1 .. Len(closed) /\ Len(closed) \in Nat
        /\ \A m \in 1 .. Len(closed) : closed[m] \in Records
    <3> HIDE DEF Records
    <3> QED
      BY <2>1
  <2>3. \A record \in Records : record.acks \in Nat
    OBVIOUS
  <2> QED
    BY <2>2, <2>3
<1>a. \A m \in DOMAIN closed :
         /\ closed[m].acks \in Nat /\ (closed[m].reached <=> closed[m].acks >= Quorum)
         /\ Cardinality(Clear(m)) <= closed[m].acks
         /\ closed[m].acks <= Cardinality(Replica \ CutOff(m))
  BY <1>1, <1>3 DEF Allowed
<1>4. \A m : Cardinality(Clear(m)) \in Nat /\ Cardinality(Replica \ CutOff(m)) \in Nat
  <2>1. \A m : Clear(m) \subseteq Replica
    BY DEF Clear
  <2> QED
    BY <2>1, FS_Subset, FS_CardinalityType, Parameters
<1>5. n \in FirstLost => Cardinality(Clear(n)) < Quorum
  <2> SUFFICES ASSUME n \in FirstLost PROVE Cardinality(Clear(n)) < Quorum
    OBVIOUS
  <2>1. ~ closed[n].reached
    BY DEF FirstLost
  <2>2. closed[n].acks \in Nat /\ ~ (closed[n].acks >= Quorum)
    BY <1>a, <2>1
  <2>3. Cardinality(Clear(n)) <= closed[n].acks
    BY <1>a
  <2>4. Cardinality(Clear(n)) \in Nat
    BY <1>4
  <2> QED
    BY <1>2, <2>2, <2>3, <2>4
<1>6. ASSUME n \in FirstLost, NEW m \in 1 .. n - 1
      PROVE  Cardinality(Replica \ CutOff(m)) >= Quorum
  <2>1. m \in DOMAIN closed /\ closed[m].reached
    BY <1>3, <1>6 DEF FirstLost
  <2> QED
    BY <1>2, <1>4, <1>a, <2>1
<1> QED
  BY <1>a, <1>5, <1>6

--------------------------------------------------------------------------------
(* Theorems. *)

\* "An answer to the round before it cannot still be on the wire" (`ask`): with the constants
\* in the order their comments put them in, all that is under way belongs to the open round.
THEOREM EveryAnswerIsOfItsRound == Spec => []NoAnswerOutlivesItsRound
<1>1. QInv => NoAnswerOutlivesItsRound
  BY DEF QInv, OnTime, Engaged, Thinks, NoAnswerOutlivesItsRound
<1> QED
  BY <1>1, InitHolds, StepKeeps, PTL DEF Spec

\* "A failure here is the schedule's doing and nothing else's" (the head of quorum.rs): a
\* closed round counted everyone its own faults left alone and no one they cut off, and the
\* round a run fails at lost its quorum to faults over its own period.
THEOREM FaultsOfItsOwnRound == Spec => []LostOnlyToItsOwnFaults
BY NothingToAccountFor, FaultsAccountedFor, AllowedIsEnough, PTL DEF Spec
================================================================================
