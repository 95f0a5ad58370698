--------------------------------- MODULE Worlds ---------------------------------
(***************************************************************************)
(* What a system under simulation writes down of itself (world.rs): a      *)
(* world of named resources of named fields, each a value; the tree it is  *)
(* hashed and kept as; and the way back from a tree to a world, which      *)
(* names the first place that is not as a world writes it.                 *)
(*                                                                         *)
(* Texts and names are sequences of characters; a name is written here as  *)
(* its place in `Called`.  How a number becomes bytes is the library's.    *)
(***************************************************************************)
EXTENDS Naturals, SequencesExt, FiniteSetsExt

CONSTANTS
    Called,            \* what a part might be called, in the order texts sort in
    Byte,              \* the bytes there are
    Text,              \* the runs of bytes that are text
    Number,            \* the counts, and the instants
    LittleEndian(_)    \* `u64::to_le_bytes`: the bytes of a number

ASSUME WorldsAssumption ==
    /\ Called \in Seq(Seq(STRING))
    /\ {0, 1, 2, 3} \subseteq Byte /\ Byte \subseteq Nat
    /\ \A text \in Text : text \in Seq(Byte)
    /\ \A n \in Number : LittleEndian(n) \in Seq(Byte)
    /\ \A m, n \in Number : LittleEndian(m) = LittleEndian(n) => m = n

--------------------------------------------------------------------------------
(* Names. *)

SEPARATOR == "."

LineEndings == {"\n", "\r"}

\* A plausible slip: a name may hold what divides one name from the next.
IsOneLine(text) ==
    text # <<>> /\ \A i \in DOMAIN text : text[i] \notin LineEndings

\* `Name::new`: something, on one line, and one part of a path.
IsName(text) ==
    /\ text # <<>>
    /\ \A i \in DOMAIN text : text[i] \notin LineEndings \cup {SEPARATOR}

Name == {n \in DOMAIN Called : IsName(Called[n])}

--------------------------------------------------------------------------------
(* Values. *)

Flag(on) == [kind |-> "flag", of |-> on]
Count(n) == [kind |-> "count", of |-> n]
Said(text) == [kind |-> "text", of |-> text]
Stamp(n) == [kind |-> "instant", of |-> n]

Value ==
    {Flag(on) : on \in BOOLEAN} \cup {Count(n) : n \in Number}
    \cup {Said(text) : text \in Text} \cup {Stamp(n) : n \in Number}

\* Each kind has a tag of its own.
FLAG_TAG == 0
COUNT_TAG == 1
TEXT_TAG == 2
INSTANT_TAG == 3

\* `Snapshot for Value`: the bytes of the leaf a value is kept as.
WriteValue(value) ==
    CASE value.kind = "flag" -> <<FLAG_TAG, IF value.of THEN 1 ELSE 0>>
      [] value.kind = "count" -> <<COUNT_TAG>> \o LittleEndian(value.of)
      [] value.kind = "text" -> <<TEXT_TAG>> \o value.of
      [] value.kind = "instant" -> <<INSTANT_TAG>> \o LittleEndian(value.of)

\* What a reader comes back with: what it read, or why it could not and where.
Read(value) == [is |-> "read", value |-> value]
Wrong(why, path) == [is |-> "wrong", why |-> why, path |-> path]

IsRead(result) == result.is = "read"

\* `eight`: the number whose bytes these are, if there are as many as a number has.
Eight(bytes) == {n \in Number : LittleEndian(n) = bytes}

ReadFlag(rest) ==
    IF Len(rest) # 1 THEN Wrong("BadLength", <<>>)
    ELSE IF rest \notin {<<0>>, <<1>>} THEN Wrong("BadFlag", <<>>)
    ELSE Read(Flag(rest = <<1>>))

ReadNumber(kind, rest) ==
    IF Eight(rest) = {} THEN Wrong("BadLength", <<>>)
    ELSE Read([kind |-> kind, of |-> CHOOSE n \in Number : LittleEndian(n) = rest])

ReadText(rest) == IF rest \in Text THEN Read(Said(rest)) ELSE Wrong("BadText", <<>>)

\* `Value::try_from`: exact, so that no two runs of bytes are one value.
ReadValue(bytes) ==
    IF bytes = <<>> THEN Wrong("Empty", <<>>)
    ELSE CASE Head(bytes) = FLAG_TAG -> ReadFlag(Tail(bytes))
           [] Head(bytes) = COUNT_TAG -> ReadNumber("count", Tail(bytes))
           [] Head(bytes) = TEXT_TAG -> ReadText(Tail(bytes))
           [] Head(bytes) = INSTANT_TAG -> ReadNumber("instant", Tail(bytes))
           [] OTHER -> Wrong("UnknownKind", <<>>)

--------------------------------------------------------------------------------
(* Trees, resources and worlds. *)

Leaf(bytes) == [kind |-> "leaf", bytes |-> bytes]
Branch(children) == [kind |-> "branch", children |-> children]

IsBranch(node) == node.kind = "branch"

\* Functions whose domain is some of the names.
Some(values) == UNION {[names -> values] : names \in SUBSET Name}

Resource == Some(Value)
World == Some(Resource)

\* `World::insert` and `World::remove`, and the same of the fields of a resource.
With(parts, name, part) ==
    [n \in DOMAIN parts \cup {name} |-> IF n = name THEN part ELSE parts[n]]

Without(parts, name) == [n \in DOMAIN parts \ {name} |-> parts[n]]

SnapshotOfResource(resource) ==
    Branch([field \in DOMAIN resource |-> Leaf(WriteValue(resource[field]))])

\* `Snapshot for World`.
Snapshot(world) ==
    Branch([name \in DOMAIN world |-> SnapshotOfResource(world[name])])

\* A plausible slip: what is wrong last is what is told.
LastWrong(wrong) == CHOOSE n \in wrong : \A m \in wrong : m <= n

\* A map is gone through in the order of its names.
FirstWrong(wrong) == CHOOSE n \in wrong : \A m \in wrong : n <= m

\* All that was read under these names, or the first that could not be.
Gathered(results) ==
    LET wrong == {n \in DOMAIN results : ~ IsRead(results[n])}
        first == FirstWrong(wrong)
    IN IF wrong = {} THEN Read([n \in DOMAIN results |-> results[n].value])
       ELSE Wrong(results[first].why, <<first>> \o results[first].path)

ReadField(node) == IF IsBranch(node) THEN Wrong("NotAValue", <<>>) ELSE ReadValue(node.bytes)

ReadResource(node) ==
    IF ~ IsBranch(node) THEN Wrong("NotAResource", <<>>)
    ELSE Gathered([field \in DOMAIN node.children |-> ReadField(node.children[field])])

\* `World::try_from`.
ReadWorld(node) ==
    IF ~ IsBranch(node) THEN Wrong("NotAWorld", <<>>)
    ELSE Gathered([name \in DOMAIN node.children |-> ReadResource(node.children[name])])

--------------------------------------------------------------------------------
(* What the way back promises. *)

\* Where a tree is not as a world writes one: the root or a resource that has no parts, or a
\* field that is no value's.
OffPlaces(node) ==
    LET Fields == {Leaf(WriteValue(value)) : value \in Value}
    IN IF ~ IsBranch(node) THEN {<<>>}
       ELSE {<<name>> : name \in {n \in DOMAIN node.children : ~ IsBranch(node.children[n])}}
            \cup UNION {{<<name, field>> :
                           field \in {f \in DOMAIN node.children[name].children :
                                        node.children[name].children[f] \notin Fields}} :
                        name \in {n \in DOMAIN node.children : IsBranch(node.children[n])}}

\* One path stands before another where their names first part.
Sooner(path, other) ==
    \E i \in DOMAIN path \cap DOMAIN other :
        SubSeq(path, 1, i - 1) = SubSeq(other, 1, i - 1) /\ path[i] < other[i]

\* A tree is what some world writes, to the byte, or is refused at its first place that no
\* world has.
ReadsExactly(node) ==
    LET result == ReadWorld(node)
    IN /\ IsRead(result) => Snapshot(result.value) = node
       /\ ~ IsRead(result) =>
             /\ result.path \in OffPlaces(node)
             /\ \A place \in OffPlaces(node) : place = result.path \/ Sooner(result.path, place)
================================================================================
