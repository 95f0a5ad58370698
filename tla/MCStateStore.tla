----------------------------- MODULE MCStateStore -----------------------------
(* Worlds of two names, and states that are no world's in every way there is.  *)
EXTENDS StateStore

\* A name, one that would read as two, one that breaks its line, and another name.
MCCalled == <<<<>>, <<"a">>, <<"a", ".", "c">>, <<"b", "\n">>, <<"c">>>>

\* The last is a byte no text holds.
MCByte == 0 .. 4
MCText == {<<>>, <<1>>, <<1, 2>>}
MCNumber == 0 .. 24
MCLittleEndian(n) == <<n % 5, n \div 5>>

a == 2
c == 5

\* Values of each kind that are told apart by their tags alone, or by their order.
MCHoldings ==
    {<<>>,
     c :> Count(1),
     (a :> Flag(TRUE)) @@ (c :> Said(<<1>>)),
     (a :> Said(<<>>)) @@ (c :> Stamp(5))}

Bytes == {<<0, 1>>, <<1, 1, 0>>, <<>>, <<0, 2>>, <<0, 1, 1>>, <<1, 1>>, <<2, 4>>, <<3, 1>>, <<4>>}

Fields == {Leaf(b) : b \in Bytes} \cup {Branch(<<>>)}

MCForeign ==
    {Leaf(<<0, 1>>), Leaf(<<>>), Branch(<<>>)}
    \cup {Branch(a :> Branch((a :> f) @@ (c :> g))) : f \in Fields, g \in {Leaf(<<0, 1>>), Leaf(<<4>>)}}
    \cup {Branch((a :> r) @@ (c :> Branch(c :> f))) :
            r \in {Leaf(<<1, 1, 0>>), Branch(<<>>)}, f \in Fields}
    \cup {Branch(n :> Branch(c :> Leaf(<<0, 1>>))) : n \in Name}
    \cup {Branch(n :> Leaf(<<0, 1>>)) : n \in Name}
===============================================================================
