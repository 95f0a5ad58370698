------------------------------ MODULE ExecutorTie ------------------------------
(***************************************************************************)
(* The executor with a record of when each task finished and when a        *)
(* timeout around its handle gave up on it, to state what the              *)
(* documentation of Timeout (clock.rs:334-338) says of a tie.              *)
(***************************************************************************)
EXTENDS Executor

VARIABLES finishedAt, gaveUpAt

InitTie ==
    /\ Init
    /\ finishedAt = [u \in Task |-> NoTime]
    /\ gaveUpAt = [u \in Task |-> NoTime]

\* The deadline some task armed around the handle of u fires and wins.
GivesUpOn(u) ==
    \E t \in Task : /\ await[t] = "timeout" /\ target[t] = u
                    /\ await'[t] = "none"
                    /\ timer[Awaited(t)] # NoEvent
                    /\ u \notin output

NextTie ==
    /\ Next
    /\ finishedAt' = [u \in Task |-> IF u \in finished' \ finished THEN now ELSE finishedAt[u]]
    /\ gaveUpAt' = [u \in Task |-> IF GivesUpOn(u) THEN now ELSE gaveUpAt[u]]

SpecTie == InitTie /\ [][NextTie]_<<vars, finishedAt, gaveUpAt>>

\* clock.rs:335-338: "Work that becomes ready at the very instant its deadline
\* fires has therefore finished in time — a tie settled by a fixed rule rather
\* than by which of the two the simulation happened to wake first."
TieGoesToTheWork ==
    \A u \in Task : gaveUpAt[u] # NoTime => finishedAt[u] # gaveUpAt[u]
================================================================================
