----------------------------- MODULE MCCommandLine -----------------------------
(* Two builds of one program, runs of at most three records, and mishaps.      *)
EXTENDS CommandLine

Said(at, message) == [at |-> at, message |-> message]
Stood(at, state, message) == [at |-> at, state |-> state, message |-> message]

\* Messages that look like what stands around them.
MCExchanges ==
    {<<>>,
     <<Said(0, <<"step", "0">>), Said(1, <<"to", "seed", "1">>)>>,
     <<Said(0, <<"step", "0">>), Said(0, <<"step", "0">>), Said(2, <<"">>)>>}

MCRings ==
    {<<Stood(0, 1, <<"a">>), Stood(1, 2, <<"step", "1">>), Stood(2, 1, <<"b">>)>>,
     <<Stood(0, 1, <<"a">>), Stood(2, 3, <<"c">>)>>,
     <<>>}

Loss(start, end, numerator) ==
    [kind |-> "loss", from |-> 0, to |-> 1, during |-> [start |-> start, end |-> end],
     odds |-> [numerator |-> numerator, denominator |-> 2]]

Outage(start, end) ==
    [kind |-> "partition", from |-> 1, to |-> 0, during |-> [start |-> start, end |-> end],
     odds |-> NoOdds]

MCAsked == {<<Loss(0, 3, 2), Outage(1, 2)>>}

MCSmaller == {<<>>, <<Loss(0, 3, 1), Outage(2, 2)>>}

MCDrawnFor(s) == IF s = 0 THEN <<>> ELSE <<Outage(0, 2)>>

MCEndings(s) ==
    {Pass, Unrun, Crash, Fail(<<"stale", ":", "read">>, 1)}
    \cup IF s = 1 THEN {Fail(<<"stale", ":", "read">>, 2), Fail(<<"lost">>, 1)} ELSE {}

MCTypable == {"0", "1", "01", "+1", "4"}
================================================================================
