------------------------------ MODULE StateStore ------------------------------
(***************************************************************************)
(* The states a run passed through, each node kept once under its hash     *)
(* (store.rs), and what differs between two of them (diff.rs).             *)
(*                                                                         *)
(* The bytes of a leaf are any value.  A hash stands for what is hashed,   *)
(* the tag included, as if blake3 never collided.  The order of a report   *)
(* is left out: its lines are a set.                                       *)
(***************************************************************************)
EXTENDS Worlds

CONSTANTS
    Foreign,     \* states that no world's snapshot need be
    Holdings,    \* the resources a system puts into its world
    MaxInserts   \* bound: how many states a run passes through

VARIABLES
    nodes,     \* what the store holds, by hash
    world,     \* the world of a system, as it stands
    given      \* no part of the code: the states the store was given, and what was meant by each

vars == <<nodes, world, given>>

States == {gift.state : gift \in given}

\* What is hashed of a node: a tag, and the bytes or the children's hashes.
Digest(tag, contents) == <<tag, contents>>

RECURSIVE Hash(_)
Hash(node) ==
    IF node.kind = "leaf" THEN Digest("leaf", node.bytes)
    ELSE Digest("branch", [name \in DOMAIN node.children |-> Hash(node.children[name])])

Init == nodes = <<>> /\ world = <<>> /\ given = {}

-------------------------------------------------------------------------------
\* A plausible slip: a branch is kept without what it names.
RECURSIVE InsertedAlone(_, _)
InsertedAlone(store, node) ==
    (Hash(node) :> [kind |-> node.kind, of |-> Hash(node)[2]]) @@ store

\* `StateStore::insert`: nothing for what is held; else the children first.
RECURSIVE Inserted(_, _)
Inserted(store, node) ==
    IF Hash(node) \in DOMAIN store THEN store
    ELSE IF node.kind = "leaf"
         THEN (Hash(node) :> [kind |-> "leaf", of |-> node.bytes]) @@ store
    ELSE LET children == [name \in DOMAIN node.children |-> Hash(node.children[name])]
         IN  (Hash(node) :> [kind |-> "branch", of |-> children])
             @@ FoldSet(LAMBDA name, held : Inserted(held, node.children[name]),
                        store, DOMAIN node.children)

Insert(state, meant) ==
    /\ Cardinality(given) < MaxInserts
    /\ nodes' = Inserted(nodes, state)
    /\ given' = given \cup {[state |-> state, meant |-> meant]}

\* A system puts a resource into its world or takes one out, and records what it then is.
Record(name) ==
    /\ \/ \E resource \in Holdings : world' = With(world, name, resource)
       \/ name \in DOMAIN world /\ world' = Without(world, name)
    /\ Insert(Snapshot(world'), {world'})

\* Another system keeps states of its own.
Keep(state) == Insert(state, {}) /\ UNCHANGED world

\* `StateStore::get`: the whole tree, or nothing if any part of it is not there.
RECURSIVE Get(_, _)
Get(store, hash) ==
    IF hash \notin DOMAIN store THEN {}
    ELSE IF store[hash].kind = "leaf" THEN {Leaf(store[hash].of)}
    ELSE LET parts == [name \in DOMAIN store[hash].of |-> Get(store, store[hash].of[name])]
         IN  IF \E name \in DOMAIN parts : parts[name] = {} THEN {}
             ELSE {Branch([name \in DOMAIN parts |-> CHOOSE node \in parts[name] : TRUE])}

-------------------------------------------------------------------------------
Missing(hash) == [is |-> "missing", hash |-> hash]
Added(path, hash) == [is |-> "added", path |-> path, now |-> hash]
Removed(path, hash) == [is |-> "removed", path |-> path, was |-> hash]
Changed(path, was, now) == [is |-> "changed", path |-> path, was |-> was, now |-> now]

\* A plausible slip: the names of the earlier state only.
NamesOfTheFirst(was, now) == DOMAIN was

NamesOf(was, now) == DOMAIN was \cup DOMAIN now

\* `descend`: nothing if the names agree, else what differs at this path or under it.
\* A line shows a leaf by its bytes and a branch by its hash: here both by the hash.
RECURSIVE Descend(_, _, _, _)
Descend(store, path, before, after) ==
    IF before = after THEN {}
    ELSE IF before \notin DOMAIN store THEN {Missing(before)}
    ELSE IF after \notin DOMAIN store THEN {Missing(after)}
    ELSE IF store[before].kind = "leaf" \/ store[after].kind = "leaf"
         THEN {Changed(path, before, after)}
    ELSE LET was == store[before].of
             now == store[after].of
             At(name) == Append(path, name)
         IN  UNION {
                 CASE name \in DOMAIN was \cap DOMAIN now ->
                          Descend(store, At(name), was[name], now[name])
                   [] name \notin DOMAIN now ->
                          IF was[name] \in DOMAIN store THEN {Removed(At(name), was[name])}
                          ELSE {Missing(was[name])}
                   [] name \notin DOMAIN was ->
                          IF now[name] \in DOMAIN store THEN {Added(At(name), now[name])}
                          ELSE {Missing(now[name])} :
                 name \in NamesOf(was, now)}

\* `diff`, which changes nothing: what it makes of two states, given or not.
Diff(before, after) == Descend(nodes, <<>>, Hash(before), Hash(after))

--------------------------------------------------------------------------------
\* `Contents`, as it is displayed: a leaf as the value it holds, or else as its bytes.  The
\* quotes of a text and the marks of the others keep the kinds apart.
Shown(node) ==
    IF IsBranch(node) THEN <<"hash", Hash(node)>>
    ELSE IF IsRead(ReadValue(node.bytes)) THEN <<"value", ReadValue(node.bytes).value>>
    ELSE <<"bytes", node.bytes>>

\* `Path`, as it is displayed: the names with a separator between one and the next.
PathText(path) ==
    IF path = <<>> THEN <<SEPARATOR>>
    ELSE FlattenSeq([i \in DOMAIN path |->
                       (IF i = 1 THEN <<>> ELSE <<SEPARATOR>>) \o Called[path[i]]])

\* `gather`: every leaf under a path, in order, and a branch of nothing as itself.
RECURSIVE Gather(_, _)
Gather(path, node) ==
    IF ~ IsBranch(node) \/ node.children = <<>> THEN <<<<PathText(path), Shown(node)>>>>
    ELSE FlattenSeq([i \in 1 .. Cardinality(DOMAIN node.children) |->
           LET name == SetToSortSeq(DOMAIN node.children, <)[i]
           IN Gather(Append(path, name), node.children[name])])

\* `list`.
List(node) == Gather(<<>>, node)

Next == (\E name \in Name : Record(name)) \/ (\E state \in Foreign : Keep(state))

Spec == Init /\ [][Next]_vars

-------------------------------------------------------------------------------
\* Every state given to the store comes back whole from its hash, with whatever it
\* shares with the others kept once, and so does every part of it in its own right
\* (store.rs; "a branch in the store cannot name a child that is not", diff.rs).
HeldReadsBack ==
    /\ \A state \in States : Get(nodes, Hash(state)) = {state}
    /\ \A hash \in DOMAIN nodes : \E node \in Get(nodes, hash) : Hash(node) = hash

\* The nodes of a state, by path.
RECURSIVE Parts(_, _)
Parts(path, node) ==
    {<<path, node>>} \cup
    (IF node.kind = "leaf" THEN {}
     ELSE UNION {Parts(Append(path, name), node.children[name]) : name \in DOMAIN node.children})

\* Where two states may differ: what stands there in each, on a path of branches of both.
Differences(before, after) ==
    LET was == Parts(<<>>, before)
        now == Parts(<<>>, after)
        Branching(path) == \E f \in was, g \in now :
                               /\ f[1] = path /\ g[1] = path
                               /\ f[2].kind = "branch" /\ g[2].kind = "branch"
        Reached(path) == \A n \in 0 .. Len(path) - 1 : Branching(SubSeq(path, 1, n))
    IN  {Removed(f[1], Hash(f[2])) : f \in {e \in was : Reached(e[1]) /\ \A g \in now : g[1] # e[1]}}
        \cup {Added(g[1], Hash(g[2])) : g \in {e \in now : Reached(e[1]) /\ \A f \in was : f[1] # e[1]}}
        \cup {Changed(p[1][1], Hash(p[1][2]), Hash(p[2][2])) :
                p \in {q \in was \X now : /\ q[1][1] = q[2][1] /\ Reached(q[1][1])
                                          /\ q[1][2] # q[2][2] /\ ~ Branching(q[1][1])}}

\* A comparison of two states that were given, or of a state with itself, reports every
\* difference between them and no other, though it looks no further than where the names
\* agree; one of a state that was not fails, naming that state (`diff`).
ReportsEveryDifference ==
    \A one \in States, other \in States \cup Foreign :
        \A pair \in {<<one, other>>, <<other, one>>} :
            IF one = other \/ Hash(other) \in DOMAIN nodes
            THEN Diff(pair[1], pair[2]) = Differences(pair[1], pair[2])
            ELSE Diff(pair[1], pair[2]) = {Missing(Hash(other))}

\* A step's world is read back out of the store as it then was, whatever the system did to
\* it since ("reads a Node that a store has rebuilt back into the resources and fields it was
\* written from", world.rs).  Any other state is refused, at the first place of it that no
\* world has, unless it is to the byte what some world writes.
WorldsReadBack ==
    \A gift \in given :
        LET back == CHOOSE state \in Get(nodes, Hash(gift.state)) : TRUE
        IN /\ \A meant \in gift.meant : ReadWorld(back) = Read(meant)
           /\ back = gift.state /\ ReadsExactly(back)

\* "Two states that list alike are one state" (`Listing`), as they are printed: no path
\* reads as another, no leaf as another, and no part goes without a line.
ListsApart ==
    \A one, another \in States : List(one) = List(another) => one = another
===============================================================================
