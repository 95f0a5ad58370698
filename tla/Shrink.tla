--------------------------------- MODULE Shrink ---------------------------------
(***************************************************************************)
(* Reducing a failing run to the faults it needs (shrink.rs): dropping     *)
(* entries, narrowing windows, lowering odds, round and round until a      *)
(* whole pass changes nothing.                                             *)
(*                                                                         *)
(* One step is one candidate run.  The system under reduction is not here: *)
(* a candidate may turn out any way, whatever the others did, and even the *)
(* same one twice, which is more than a run under a fixed seed can do.     *)
(* All that is fixed is the step a schedule fails at when it fails.        *)
(***************************************************************************)
EXTENDS Faults, SequencesExt, FiniteSetsExt

CONSTANTS
    Schedules,   \* the schedules a reduction may be asked for
    Reasons,     \* the reasons a run may fail for
    FailsAt(_)   \* the step a run under this schedule fails at, if it fails

ASSUME ShrinkAssumption == Schedules \subseteq Seq(Fault)

Pass == [verdict |-> "pass"]

Fail(reason, step) == [verdict |-> "fail", reason |-> reason, step |-> step]

\* How a run under these faults may go.
Outcomes(schedule) == {Pass} \cup {Fail(r, FailsAt(schedule)) : r \in Reasons}

VARIABLES
    faults,    \* the schedule to reduce
    failure,   \* the failure every candidate is measured against
    kept,      \* the smallest schedule so far that still fails that way
    outcome,   \* the failure it produces
    phase,     \* what the next candidate is for, or how the reduction came out
    before,    \* what was kept when this pass began
    chunks,    \* how many pieces the entries are cut into
    piece,     \* the piece offered for removal
    search,    \* which of the bisections of the pass is going on
    bounds,    \* where it is looking
    refused    \* no part of the code: candidates run, in vain, since kept changed

control == <<phase, before, chunks, piece, search, bounds>>

low == bounds.low
high == bounds.high

shrinkVars == <<faults, failure, kept, outcome, control, refused>>

Nowhere == [low |-> 0, high |-> 0]

ShrinkInit ==
    /\ faults \in Schedules
    /\ failure = Pass /\ outcome = Pass
    /\ kept = faults /\ before = faults
    /\ phase = "run"
    /\ chunks = 0 /\ piece = 0 /\ search = 0 /\ bounds = Nowhere
    /\ refused = {}

-------------------------------------------------------------------------------
\* A plausible slip: any failure will do.
FailsAtAll(candidate, original) == candidate.verdict = "fail" /\ original.verdict = "fail"

\* `Outcome::reproduces`: the same reason, at whatever step.
Reproduces(candidate, original) ==
    /\ candidate.verdict = "fail" /\ original.verdict = "fail"
    /\ candidate.reason = original.reason

\* `Reducing::keeps`: runs a candidate, and keeps it if the failure came back.
Keeps(candidate, came) ==
    \E o \in Outcomes(candidate) :
        /\ came = Reproduces(o, failure)
        /\ kept' = IF came THEN candidate ELSE kept
        /\ outcome' = IF came THEN o ELSE outcome
        /\ refused' = IF came THEN {} ELSE refused \cup {candidate}

CeilDiv(n, d) == (n + d - 1) \div d

\* `spans`: the pieces, as the first and the last place of each.
Spans(len, pieces) ==
    LET size == CeilDiv(len, pieces)
    IN  [n \in 1 .. CeilDiv(len, size) |-> <<(n - 1) * size + 1, Min({n * size, len})>>]

\* A plausible slip: what came after the piece ends up in front.
Rejoined(schedule, span) ==
    SubSeq(schedule, span[2] + 1, Len(schedule)) \o SubSeq(schedule, 1, span[1] - 1)

\* A schedule without a piece of it, the rest in its order (`Vec::drain`).
Without(schedule, span) ==
    SubSeq(schedule, 1, span[1] - 1) \o SubSeq(schedule, span[2] + 1, Len(schedule))

\* `narrowed` and `lowered`: candidates that differ in one entry.
Narrowed(schedule, i, start, end) ==
    [schedule EXCEPT ![i].during = NarrowedTo(@, start, end)]

Lowered(schedule, i, numerator) ==
    [schedule EXCEPT ![i].odds = LoweredTo(@, numerator)]

-------------------------------------------------------------------------------
\* The bisections of a pass: of the end and then the start of each window, and then of
\* the odds of each entry.
Bisection(schedule, n) ==
    IF n <= 2 * Len(schedule)
    THEN [of |-> IF n % 2 = 1 THEN "end" ELSE "start", entry |-> CeilDiv(n, 2)]
    ELSE [of |-> "odds", entry |-> n - 2 * Len(schedule)]

LastBisection(schedule) == 3 * Len(schedule)

\* The range it begins with; a partition draws against no odds, so there is none.
Span(schedule, n) ==
    LET b == Bisection(schedule, n) fault == schedule[b.entry]
    IN  CASE b.of # "odds" -> [low |-> fault.during.start, high |-> fault.during.end]
          [] b.of = "odds" /\ fault.kind = "loss" -> [low |-> 0, high |-> fault.odds.numerator]
          [] OTHER -> Nowhere

\* On to bisection n, or past the last of them.
Enter(schedule, n) ==
    /\ phase' = "search" /\ search' = n /\ chunks' = 0 /\ piece' = 0
    /\ bounds' = IF n <= LastBisection(schedule) THEN Span(schedule, n) ELSE Nowhere
    /\ UNCHANGED before

\* On to a round of removals, if there is more than one entry left.
Cut(schedule, pieces) ==
    IF Len(schedule) > 1
    THEN /\ phase' = "drop" /\ chunks' = Min({pieces, Len(schedule)}) /\ piece' = 1
         /\ UNCHANGED <<before, search, bounds>>
    ELSE Enter(schedule, 1)

\* On to another pass.
Begin(schedule) ==
    /\ before' = schedule
    /\ phase' = IF schedule = <<>> THEN "search" ELSE "empty"
    /\ search' = 1 /\ bounds' = Nowhere /\ chunks' = 0 /\ piece' = 0

-------------------------------------------------------------------------------
\* `shrink` runs the schedule it is given, and has nothing to do if that holds up.
FirstRun ==
    /\ phase = "run"
    /\ \E o \in Outcomes(faults) :
           /\ failure' = o /\ outcome' = o
           /\ \/ /\ o = Pass /\ phase' = "held up"
                 /\ UNCHANGED <<before, chunks, piece, search, bounds>>
              \/ o # Pass /\ Begin(faults)
    /\ UNCHANGED <<faults, kept, refused>>

LowerMid == low + (high - low) \div 2

\* The start wants the highest instant that still fails, which the lower middle never reaches.
UpperMid == low + CeilDiv(high - low, 2)

Searching == phase = "search" /\ search <= LastBisection(kept) /\ low < high

\* The candidate to be run next: everything at once before anything else (`drop_entries`),
\* the list without a piece, or the entry a bisection is at with the middle tried.
Candidate ==
    LET b == Bisection(kept, search)
        window == kept[b.entry].during
    IN  CASE phase = "empty" -> <<>>
          [] phase = "drop" -> Without(kept, Spans(Len(kept), chunks)[piece])
          [] Searching /\ b.of = "end" -> Narrowed(kept, b.entry, window.start, LowerMid)
          [] Searching /\ b.of = "start" -> Narrowed(kept, b.entry, UpperMid, window.end)
          [] Searching /\ b.of = "odds" -> Lowered(kept, b.entry, LowerMid)

\* `drop_entries`: nothing at all.
DropAll ==
    /\ phase = "empty"
    /\ \E came \in BOOLEAN : /\ Keeps(Candidate, came)
                             /\ IF came THEN Enter(<<>>, 1) ELSE Cut(kept, 2)
    /\ UNCHANGED <<faults, failure>>

\* A plausible slip: the last round is not recognised.
BeyondFinest == chunks > Len(kept)

\* The pieces are single entries: the last round there is.
Finest == chunks >= Len(kept)

\* `drop_entries`: one piece of the list.
DropPiece ==
    /\ phase = "drop"
    /\ LET pieces == Len(Spans(Len(kept), chunks))
       IN  \E came \in BOOLEAN :
               /\ Keeps(Candidate, came)
               /\ CASE came -> Cut(kept', Max({chunks - 1, 2}))
                    [] ~ came /\ piece < pieces ->
                           piece' = piece + 1 /\ UNCHANGED <<phase, before, chunks, search, bounds>>
                    [] ~ came /\ piece = pieces /\ Finest -> Enter(kept, 1)
                    [] ~ came /\ piece = pieces /\ ~ Finest -> Cut(kept, 2 * chunks)
    /\ UNCHANGED <<faults, failure>>

\* The upper and the lower part of what is left to search.
From(mid) == [low |-> mid, high |-> high]

UpTo(mid) == [low |-> low, high |-> mid]

\* `narrow_end`, `lower_odds`: the least that still fails is wanted.
SearchDown ==
    /\ Searching /\ Bisection(kept, search).of \in {"end", "odds"}
    /\ \E came \in BOOLEAN :
           /\ Keeps(Candidate, came)
           /\ bounds' = IF came THEN UpTo(LowerMid) ELSE From(LowerMid + 1)
    /\ UNCHANGED <<faults, failure, phase, before, chunks, piece, search>>

\* `narrow_start`: the most.
SearchUp ==
    /\ Searching /\ Bisection(kept, search).of = "start"
    /\ \E came \in BOOLEAN :
           /\ Keeps(Candidate, came)
           /\ bounds' = IF came THEN From(UpperMid) ELSE UpTo(UpperMid - 1)
    /\ UNCHANGED <<faults, failure, phase, before, chunks, piece, search>>

\* The bounds have met.
NextBisection ==
    /\ phase = "search" /\ search <= LastBisection(kept) /\ low >= high
    /\ Enter(kept, search + 1)
    /\ UNCHANGED <<faults, failure, kept, outcome, refused>>

\* A plausible slip: one pass is enough.
AfterOnePass == TRUE

\* The pass that has come to its end changed nothing.
Settled == kept = before

\* `shrink` goes round again, or is done.
EndPass ==
    /\ phase = "search" /\ search > LastBisection(kept)
    /\ \/ /\ Settled /\ phase' = "reduced"
          /\ UNCHANGED <<before, chunks, piece, search, bounds>>
       \/ ~ Settled /\ Begin(kept)
    /\ UNCHANGED <<faults, failure, kept, outcome, refused>>

\* Running the system failed, and `shrink` returns its error.
Stop ==
    /\ phase \in {"run", "empty", "drop"} \/ Searching
    /\ phase' = "stopped"
    /\ UNCHANGED <<faults, failure, kept, outcome, before, chunks, piece, search, bounds, refused>>

ShrinkNext ==
    FirstRun \/ DropAll \/ DropPiece \/ SearchDown \/ SearchUp \/ NextBisection \/ EndPass \/ Stop

ShrinkSpec == ShrinkInit /\ [][ShrinkNext]_shrinkVars

\* `shrink` is a loop that nothing else holds up, and every candidate run ends.
FairSpec == ShrinkSpec /\ WF_shrinkVars(ShrinkNext)

-------------------------------------------------------------------------------
Promised == INSTANCE Reducing

\* Through every candidate of every pass and search, what is kept only ever shrinks: its
\* entries in the order they came in, each inside the one it came from (`drop_entries`,
\* `narrowed_to`), with the outcome of the very run that failed as the first one failed
\* (`Reducing::keeps`).  The reduction implements the promise of one.
Reduces == Promised!Spec

\* The schedules that are one entry, one instant at an end or one occurrence less.
JustSmaller(schedule) ==
    {Without(schedule, <<i, i>>) : i \in DOMAIN schedule} \cup
    UNION {LET w == schedule[i].during n == schedule[i].odds.numerator
           IN  (IF w.start < w.end
                THEN {Narrowed(schedule, i, w.start, w.end - 1),
                      Narrowed(schedule, i, w.start + 1, w.end)} ELSE {})
               \cup (IF schedule[i].kind = "loss" /\ n > 0 THEN {Lowered(schedule, i, n - 1)} ELSE {}) :
           i \in DOMAIN schedule}

\* A reduction that comes to its end has run everything just smaller than what it hands
\* back, and none of it failed that way: no entry can be dropped, as `shrink` documents,
\* and no window or odds given up by one, although a later pass may undo an earlier one.
NothingSmallerFails ==
    phase = "reduced" => JustSmaller(kept) \subseteq refused

Total(numbers) ==
    LET upTo[i \in 0 .. Len(numbers)] == IF i = 0 THEN 0 ELSE upTo[i - 1] + numbers[i]
    IN  upTo[Len(numbers)]

TotalSpan(schedule) ==
    Total([i \in DOMAIN schedule |-> schedule[i].during.end - schedule[i].during.start])

TotalOdds(schedule) == Total([i \in DOMAIN schedule |-> schedule[i].odds.numerator])

\* Fewer entries, or else a shorter total span, or else fewer occurrences.
Smaller(s, t) ==
    \/ Len(s) < Len(t)
    \/ Len(s) = Len(t) /\ TotalSpan(s) < TotalSpan(t)
    \/ Len(s) = Len(t) /\ TotalSpan(s) = TotalSpan(t) /\ TotalOdds(s) < TotalOdds(t)

\* Every candidate, whichever pass and search offers it, "strictly lowers (entries, total
\* span, total odds) read left to right": what `shrink` says its termination rests on.
EveryCandidateIsSmaller ==
    phase \in {"empty", "drop"} \/ Searching => Smaller(Candidate, kept)

\* The rounds come to an end ("This terminates because every candidate that is kept
\* strictly lowers ...", `shrink`), whatever the candidates do.
Ends == <>(phase \in {"held up", "reduced", "stopped"})
===============================================================================
