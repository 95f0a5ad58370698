---------------------------- MODULE MCQuorumRounds ----------------------------
(* Three replicas and two rounds; faults over one round, over both, on the way  *)
(* out and on the way back, and one that ends between a question and its answer. *)
EXTENDS QuorumRounds

CONSTANTS c, r1, r2, r3

MCReplica == {r1, r2, r3}
MCNode == MCReplica \cup {c}

During(start, end) == [start |-> start, end |-> end]

Cut(from, to, start, end) ==
    [kind |-> "partition", from |-> from, to |-> to, during |-> During(start, end), odds |-> NoOdds]

Flaky(from, to, start, end) ==
    [kind |-> "loss", from |-> from, to |-> to, during |-> During(start, end),
     odds |-> [numerator |-> 1, denominator |-> 2]]

MCSchedules ==
    {<<>>,
     \* Round one only, and it loses its quorum.
     <<Cut(c, r1, 9, 18), Cut(r2, c, 9, 18)>>,
     \* Until after the question and before the answer, and the first of two overlapping.
     <<Cut(c, r1, 0, 12), Cut(r2, c, 18, 21), Flaky(r3, c, 0, 60), Cut(r3, c, 18, 60)>>}
===============================================================================
