-------------------------------- MODULE MCReplog --------------------------------
(* Three replicas, alike, and one client. *)
EXTENDS Replog

CONSTANTS
    a, b, c,
    MaxMessages,  \* how many messages that matter may be under way
    MaxTimersAsked  \* how many timers have run out where a command is followed further

MCReplica == {a, b, c}
MCClient == {1}
TwoCommands == <<<<"x", "y">>>>

Symmetric == Permutations(MCReplica)

\* Messages that can change nothing any more, whenever they arrive: a yes for a term
\* or a candidacy that is over, a no or an answer that carries no later term.
Spent(m) ==
    \/ /\ m.kind = "PreVoted" /\ m.term <= replicas[m.to].term
       /\ m.granted => m.proposed <= replicas[m.to].term
    \/ /\ m.kind = "Vote" /\ m.term <= replicas[m.to].term
       /\ m.granted => m.term < replicas[m.to].term \/ replicas[m.to].role # "candidate"
    \/ m.kind = "Appended" /\ m.term < replicas[m.to].term
    \/ m.kind = "Submitted" /\ m.command \in done

Live == [m \in {n \in BagToSet(wire) : ~ Spent(n)} |-> wire[m]]

\* The yeses a replica may still stand on.
Counting == {<<y.from, y.to, y.proposed>> :
    y \in {x \in yeses : x.kind = "PreVoted" /\ x.proposed > replicas[x.to].term}}

\* States that differ in what is spent, and in the record of it, are one state.
View == <<replicas, Live, Counting, timers, round, retries, done, after>>

Asked == \E cl \in Client : round[cl] > 0

\* Elections are followed further for as long as no command is sent, and less far once one
\* was sent again; the first two with one message more, as where two replicas stand at once.
Followed ==
    /\ BagCardinality(Live) <= MaxMessages + (IF Asked \/ timers > 2 THEN 0 ELSE 1)
    /\ Asked => timers <= MaxTimersAsked - retries
================================================================================
