----------------------------- MODULE QuorumRounds -----------------------------
(***************************************************************************)
(* A coordinator asking its replicas to acknowledge it, round after round  *)
(* (systems/quorum.rs), over a wire that takes time and is otherwise       *)
(* dependable, with a schedule of faults in the way.                       *)
(*                                                                         *)
(* Instants are those of the clock, in a coarser unit.  Of the executor    *)
(* there is the rule that time moves only when no task has anything to do, *)
(* which `Executor` checks; of the network, that an inbox is taken from in *)
(* the order of landing and that a wait which has something to take when   *)
(* its deadline falls takes it, which `Network` and `Executor` check.      *)
(***************************************************************************)
EXTENDS Faults, FiniteSets

CONSTANTS
    Coordinator, Replica,
    Quorum, Rounds, Period, Patience, Quiet,  \* the constants of the code
    Latency, Thinking,                        \* what their draws may come to
    Schedules                                 \* the faults a run may meet

ASSUME QuorumAssumption ==
    /\ Node = Replica \cup {Coordinator} /\ Coordinator \notin Replica
    /\ IsFiniteSet(Replica)
    /\ {Quorum, Rounds, Period, Patience, Quiet} \subseteq Nat
    /\ Latency \subseteq Nat \ {0} /\ Thinking \subseteq Nat \ {0} /\ Thinking # {}
    \* "Comfortably longer than a message across and a reply back", and "comfortably
    \* shorter than PERIOD"; QUIET is longer than the run.
    /\ \A l, m \in Latency, d \in Thinking : l + d + m <= Patience
    /\ Patience < Period
    /\ \A l \in Latency : Rounds * Period + l < Quiet

VARIABLES
    faults,    \* the schedule of the run
    now,       \* the instant reached
    wire,      \* messages on their way or in an inbox, with the instant each lands at
    round,     \* the round the coordinator is at, past the last when it is done
    asking,    \* whether that round is open
    acks,      \* how many acknowledgements it has
    closed,    \* what the closed rounds recorded, the count and whether it is a quorum
    replica    \* what each replica is doing: listening, thinking or gone

vars == <<faults, now, wire, round, asking, acks, closed, replica>>

Listening(until) == [is |-> "listening", until |-> until]
ThinkingOf(asked, until) == [is |-> "thinking", round |-> asked, until |-> until]
Gone == [is |-> "gone"]

Init ==
    /\ faults \in Schedules
    /\ now = 0 /\ wire = {}
    /\ round = 1 /\ asking = FALSE /\ acks = 0 /\ closed = <<>>
    /\ replica = [r \in Replica |-> Listening(Quiet)]

-------------------------------------------------------------------------------
\* A plausible slip: the first round opens at once.
OpensFromZero(n) == (n - 1) * Period

\* `opens`: a round opens on the period, however long the last one took.
Opens(n) == n * Period

\* A plausible slip: the time to wait and the time between rounds, mixed up.
HastyDeadline(n) == Opens(n) + Period - Patience

Deadline(n) == Opens(n) + Patience

\* What may come of a send now: nothing, if a fault cuts or drops it, or one message.
Sent(from, to, n) ==
    IF Partitioned(faults, from, to, now) THEN {{}}
    ELSE UNION {IF dropped THEN {{}}
                ELSE {{[from |-> from, to |-> to, round |-> n, at |-> now + l]} : l \in Latency} :
                    dropped \in Draws(LossOdds(faults, from, to, now, NoOdds))}

\* What there is to take for a node, the first to have landed.
Taken(node) ==
    {m \in wire : /\ m.to = node /\ m.at <= now
                  /\ \A other \in wire : other.to = node => m.at <= other.at}

MoreRounds == round <= Rounds

\* `ask`: the round opens and every replica is asked.
Open ==
    /\ ~ asking /\ MoreRounds /\ now >= Opens(round)
    /\ \E sent \in [Replica -> UNION {Sent(Coordinator, r, round) : r \in Replica}] :
           /\ \A r \in Replica : sent[r] \in Sent(Coordinator, r, round)
           /\ wire' = wire \cup UNION {sent[r] : r \in Replica}
    /\ asking' = TRUE /\ acks' = 0
    /\ UNCHANGED <<faults, now, round, closed, replica>>

OfThisRound(m) == m.round = round

\* `ask`: something came back; an answer of a round gone by is not this round's.
Count ==
    /\ asking /\ acks < Cardinality(Replica)
    /\ \E m \in Taken(Coordinator) :
           /\ wire' = wire \ {m}
           /\ acks' = IF OfThisRound(m) THEN acks + 1 ELSE acks
    /\ UNCHANGED <<faults, now, round, asking, closed, replica>>

\* `ask`: everyone has answered, or the deadline has come with nothing to take.
Over ==
    \/ acks = Cardinality(Replica)
    \/ now >= Deadline(round) /\ Taken(Coordinator) = {}

Close ==
    /\ asking /\ Over
    /\ closed' = Append(closed, [acks |-> acks, reached |-> acks >= Quorum])
    /\ asking' = FALSE /\ round' = round + 1 /\ acks' = 0
    /\ UNCHANGED <<faults, now, wire, replica>>

\* `answer`: a replica is asked something, and thinks about it.
Hear(r) ==
    /\ replica[r].is = "listening"
    /\ \E m \in Taken(r), d \in Thinking :
           /\ wire' = wire \ {m}
           /\ replica' = [replica EXCEPT ![r] = ThinkingOf(m.round, now + d)]
    /\ UNCHANGED <<faults, now, round, asking, acks, closed>>

Answer(r) ==
    /\ replica[r].is = "thinking" /\ now >= replica[r].until
    /\ \E sent \in Sent(r, Coordinator, replica[r].round) : wire' = wire \cup sent
    /\ replica' = [replica EXCEPT ![r] = Listening(now + Quiet)]
    /\ UNCHANGED <<faults, now, round, asking, acks, closed>>

\* The wire has been quiet long enough.
Leave(r) ==
    /\ replica[r].is = "listening" /\ now >= replica[r].until /\ Taken(r) = {}
    /\ replica' = [replica EXCEPT ![r] = Gone]
    /\ UNCHANGED <<faults, now, wire, round, asking, acks, closed>>

\* `reached`, `invariants` and `verdict`: the round the run fails at, if there is one, is
\* the first whose record says that it closed short.
FirstLost ==
    {n \in DOMAIN closed : ~ closed[n].reached /\ \A m \in 1 .. n - 1 : closed[m].reached}

\* Some task has something to do at this instant.
Busy ==
    \/ ~ asking /\ MoreRounds /\ now >= Opens(round)
    \/ asking /\ (Over \/ Taken(Coordinator) # {})
    \/ \E r \in Replica : \/ replica[r].is = "listening" /\ Taken(r) # {}
                          \/ replica[r].is # "gone" /\ now >= replica[r].until

Finished == ~ MoreRounds /\ \A r \in Replica : replica[r].is = "gone"

\* Time moves when all are blocked.
Tick ==
    /\ ~ Busy /\ ~ Finished
    /\ now' = now + 1
    /\ UNCHANGED <<faults, wire, round, asking, acks, closed, replica>>

Next == Open \/ Count \/ Close \/ Tick \/ \E r \in Replica : Hear(r) \/ Answer(r) \/ Leave(r)

Spec == Init /\ [][Next]_vars

-------------------------------------------------------------------------------
Faulty(from, to, at) == FirstApplying(faults, from, to, at) # {}

\* The replicas no fault can have kept from acknowledging round n, and those one did.
Clear(n) ==
    {r \in Replica :
        /\ ~ Faulty(Coordinator, r, n * Period)
        /\ \A t \in n * Period .. n * Period + Patience : ~ Faulty(r, Coordinator, t)}

CutOff(n) ==
    {r \in Replica :
        \/ Partitioned(faults, Coordinator, r, n * Period)
        \/ \A t \in n * Period .. n * Period + Patience : Partitioned(faults, r, Coordinator, t)}

\* "A failure here is the schedule's doing and nothing else's": a round counts everyone
\* its own faults left alone and no one they cut off, whatever the draws and whatever the
\* faults of the other rounds did; so the round a run is said to fail at lost its quorum
\* to faults over its own period, and no earlier one can have (the head of quorum.rs).
LostOnlyToItsOwnFaults ==
    \A n \in DOMAIN closed :
        /\ Cardinality(Clear(n)) <= closed[n].acks
        /\ closed[n].acks <= Cardinality(Replica \ CutOff(n))
        /\ n \in FirstLost =>
               /\ Cardinality(Clear(n)) < Quorum
               /\ \A m \in 1 .. n - 1 : Cardinality(Replica \ CutOff(m)) >= Quorum

\* "An answer to the round before it cannot still be on the wire" (`ask`): what is on its
\* way to the coordinator, or being thought about, belongs to the round that is open, so
\* that no late answer ever stands in for one that never came.
NoAnswerOutlivesItsRound ==
    /\ \A m \in wire : m.to = Coordinator => asking /\ m.round = round
    /\ \A r \in Replica :
           replica[r].is = "thinking" => asking /\ replica[r].round = round
===============================================================================
