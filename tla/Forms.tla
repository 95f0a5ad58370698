--------------------------------- MODULE Forms ---------------------------------
(***************************************************************************)
(* The written forms: a recording (history.rs), a trace (trace.rs), an     *)
(* outcome (outcome.rs), a schedule of faults (fault.rs) and a repro of    *)
(* the three (repro.rs), each with the reader that stands beside it.       *)
(*                                                                         *)
(* A text is a sequence of lines and a line a sequence of tokens with one  *)
(* space between them; only the colon of an outcome stands up against the  *)
(* token before it.  What may stand where a number, an instant or the name *)
(* of a state belongs is one of a few spellings, most of which no writer   *)
(* uses.  An instant is written as its seconds and the rest, as in the     *)
(* code, with PER_SEC of them to the second.                               *)
(*                                                                         *)
(* A reader answers Read(value), or Wrong(why, line) as its error says it. *)
(***************************************************************************)
EXTENDS Faults, SequencesExt, FiniteSetsExt

Read(value) == [is |-> "read", value |-> value]
Wrong(why, line) == [is |-> "wrong", why |-> why, line |-> line]

\* A reader of a part names what is wrong with it and not the line, see `ParseStepError`.
Amiss(why) == Wrong(why, 0)

IsRead(result) == result.is = "read"

--------------------------------------------------------------------------------
(* Numbers, instants, names of states, messages. *)

Numerals == <<"0", "1", "2", "3", "4", "5">>

Number == 0 .. 5

Written(number) == Numerals[number + 1]

\* Digits spell their number whatever zeros come first; signs and letters spell none.
Spellings(number) == {Written(number)} \cup (IF number = 1 THEN {"01"} ELSE {})

\* `digits`: the number, if the text is digits and nothing else.
Digits(tokens) == {n \in Number : \E token \in Spellings(n) : tokens = <<token>>}

PER_SEC == 2

\* Bound: every instant of virtual time is one that is written below.
ASSUME WrittenTimesAssumption == MaxTime < 2 * PER_SEC

\* The instants as they are written, and some that no writer writes.
Clocked ==
    {[text |-> "0.0s", seconds |-> <<"0">>, nanos |-> <<"0">>],
     [text |-> "0.1s", seconds |-> <<"0">>, nanos |-> <<"1">>],
     [text |-> "1.0s", seconds |-> <<"1">>, nanos |-> <<"0">>],
     [text |-> "1.1s", seconds |-> <<"1">>, nanos |-> <<"1">>],
     [text |-> "+1.1s", seconds |-> <<"+1">>, nanos |-> <<"1">>],
     [text |-> "1.11s", seconds |-> <<"1">>, nanos |-> <<"1", "1">>],
     [text |-> "5.0s", seconds |-> <<"5">>, nanos |-> <<"0">>]}

\* `VirtualTime`'s Display.
WriteInstant(at) ==
    (CHOOSE c \in Clocked : /\ c.seconds = <<Written(at \div PER_SEC)>>
                            /\ c.nanos = <<Written(at % PER_SEC)>>).text

\* Seconds and a fraction, put together; the fraction is one digit wide here.
Timed(seconds, nanos) ==
    IF Len(nanos) # 1
    THEN Amiss("FractionWidth")
    ELSE IF Digits(seconds) = {} \/ Digits(nanos) = {}
    THEN Amiss("Malformed")
    ELSE LET at == Max(Digits(seconds)) * PER_SEC + Max(Digits(nanos))
         IN IF at > MaxTime THEN Amiss("Overflow") ELSE Read(at)

ReadInstant(tokens) ==
    IF \E c \in Clocked : tokens = <<c.text>>
    THEN LET c == CHOOSE c \in Clocked : tokens = <<c.text>> IN Timed(c.seconds, c.nanos)
    ELSE Amiss("Malformed")

\* The names states answer to: lowercase, and all of one length.
HashText == <<"h0", "h1", "h2", "h3">>

WriteHash(hash) == HashText[hash]

ReadHash(token) ==
    IF \E hash \in DOMAIN HashText : HashText[hash] = token
    THEN Read(CHOOSE hash \in DOMAIN HashText : HashText[hash] = token)
    ELSE Amiss(IF token \in {"H1", "+1"} THEN "BadDigit" ELSE "BadLength")

\* What carries a line ending is not one line.
OneLine(tokens) == \A i \in DOMAIN tokens : tokens[i] \notin {"two\nlines", "a\r"}

\* What no writer leaves without a token: empty text is the token "".
Text(tokens) == tokens # <<>> /\ OneLine(tokens)

Message == {tokens \in Seq(STRING) : Text(tokens)}

--------------------------------------------------------------------------------
(* Lines. *)

After(tokens, n) == SubSeq(tokens, n + 1, Len(tokens))

\* `strip_prefix`, of a prefix that ends in a space.
Opens(tokens, prefix) == IsStrictPrefix(prefix, tokens)

\* `split_once`: where the separator first stands between two texts, if it does.
Splits(tokens, separator) ==
    {i \in 2 .. (Len(tokens) - Len(separator)) :
       SubSeq(tokens, i, i + Len(separator) - 1) = separator}

SplitOnce(tokens, separator) ==
    LET i == Min(Splits(tokens, separator))
    IN <<SubSeq(tokens, 1, i - 1), After(tokens, i + Len(separator) - 1)>>

\* `collect`, of one result a line: all that was read, or the first that could not be.
\* The first of them is on line `first`.
Collect(results, first) ==
    LET wrong == {i \in DOMAIN results : ~ IsRead(results[i])}
    IN IF wrong = {}
       THEN Read([i \in DOMAIN results |-> results[i].value])
       ELSE Wrong(results[Min(wrong)].why, Min(wrong) - 1 + first)

\* The header of a form, up to its number.
Header(kind) == <<"chronoloop", kind, "seed">>

--------------------------------------------------------------------------------
(* A recording: a seed and its entries, each an instant and a message. *)

\* `Entry::new`.
IsEntry(entry) == Text(entry.message)

Entry == [at : Instant, message : Message]

Recording == [seed : Number, entries : Seq(Entry)]

WriteEntry(entry) == <<WriteInstant(entry.at)>> \o entry.message

ReadEntry(tokens) ==
    LET at == ReadInstant(SubSeq(tokens, 1, 1))
        entry == [at |-> at.value, message |-> After(tokens, 1)]
    IN IF Len(tokens) < 2 THEN Amiss("Malformed")
       ELSE IF ~ IsRead(at) THEN at
       ELSE IF ~ IsEntry(entry) THEN Amiss("Malformed")
       ELSE Read(entry)

WriteRecording(recording) ==
    <<Append(Header("history"), Written(recording.seed))>>
      \o [i \in DOMAIN recording.entries |-> WriteEntry(recording.entries[i])]

\* The number a header ends in.
Numbered(line, header) == IF Opens(line, header) THEN Digits(After(line, Len(header))) ELSE {}

ReadRecording(text) ==
    IF text = <<>> THEN Wrong("MissingHeader", 1)
    ELSE IF Numbered(text[1], Header("history")) = {} THEN Wrong("BadHeader", 1)
    ELSE LET entries == Collect([i \in 1 .. Len(text) - 1 |-> ReadEntry(text[i + 1])], 2)
         IN IF IsRead(entries)
            THEN Read([seed |-> Max(Numbered(text[1], Header("history"))),
                       entries |-> entries.value])
            ELSE entries

--------------------------------------------------------------------------------
(* A trace: a seed, a fork if there was one, and steps: entries and a state's name. *)

TraceStep == [at : Instant, state : DOMAIN HashText, message : Message]

\* Bound: there is a number for each.
Steps == {steps \in Seq(TraceStep) : Len(steps) <= Cardinality(Number)}

\* A run that never forked has no fork; one that did has just one.
Trace ==
    {trace \in [seed : Number, fork : Seq([at : Instant, seed : Number]), steps : Steps] :
       Len(trace.fork) < 2}

WriteStep(step) == <<WriteInstant(step.at), WriteHash(step.state)>> \o step.message

ReadStep(tokens) ==
    LET at == ReadInstant(SubSeq(tokens, 1, 1))
        state == ReadHash(tokens[2])
        step == [at |-> at.value, state |-> state.value, message |-> After(tokens, 2)]
    IN IF Len(tokens) < 2 THEN Amiss("Malformed")
       ELSE IF ~ IsRead(at) THEN at
       ELSE IF Len(tokens) < 3 THEN Amiss("Malformed")
       ELSE IF ~ IsRead(state) THEN state
       ELSE IF ~ IsEntry(step) THEN Amiss("Malformed")
       ELSE Read(step)

WriteFork(fork) ==
    <<"forked", "at", WriteInstant(fork.at), "to", "seed", Written(fork.seed)>>

IsForkLine(line) == Opens(line, <<"forked", "at">>)

ReadFork(line) ==
    LET parts == SplitOnce(After(line, 2), <<"to", "seed">>)
    IN IF /\ Splits(After(line, 2), <<"to", "seed">>) # {}
          /\ IsRead(ReadInstant(parts[1])) /\ Digits(parts[2]) # {}
       THEN Read([at |-> ReadInstant(parts[1]).value, seed |-> Max(Digits(parts[2]))])
       ELSE Wrong("BadFork", 2)

WriteTrace(trace) ==
    <<Append(Header("trace"), Written(trace.seed))>>
      \o [i \in DOMAIN trace.fork |-> WriteFork(trace.fork[i])]
      \o [i \in DOMAIN trace.steps |-> <<"step", Written(i - 1)>> \o WriteStep(trace.steps[i])]

\* A step, where step `number` is due.
ReadNumbered(record, number) ==
    IF ~ Opens(record, <<"step">>) \/ Len(record) < 3 \/ Digits(SubSeq(record, 2, 2)) = {}
    THEN Amiss("Unnumbered")
    ELSE IF Digits(SubSeq(record, 2, 2)) # {number}
    THEN Amiss("OutOfSequence")
    ELSE ReadStep(After(record, 2))

ReadSteps(records, first) ==
    Collect([i \in DOMAIN records |-> ReadNumbered(records[i], i - 1)], first)

ReadTrace(text) ==
    IF text = <<>> THEN Wrong("MissingHeader", 1)
    ELSE IF Numbered(text[1], Header("trace")) = {} THEN Wrong("BadHeader", 1)
    ELSE LET forks == Len(text) > 1 /\ IsForkLine(text[2])
             fork == IF forks THEN ReadFork(text[2]) ELSE Read(<<>>)
             first == IF forks THEN 3 ELSE 2
             steps == ReadSteps(After(text, first - 1), first)
         IN IF ~ IsRead(fork) THEN fork
            ELSE IF ~ IsRead(steps) THEN steps
            ELSE Read([seed |-> Max(Numbered(text[1], Header("trace"))),
                       fork |-> IF forks THEN <<fork.value>> ELSE <<>>,
                       steps |-> steps.value])

--------------------------------------------------------------------------------
(* An outcome: how a run went, in one line. *)

Pass == [verdict |-> "pass"]
Fail(reason, step) == [verdict |-> "fail", reason |-> reason, step |-> step]

\* `Outcome::reproduces`: the failure it was, whatever the step.
Reproduces(outcome, original) ==
    outcome # Pass /\ original # Pass /\ outcome.reason = original.reason

\* `Reason::new`: something, and on one line.
IsReason(tokens) == tokens # <<"">> /\ Text(tokens)

Failure ==
    {outcome \in [verdict : {"fail"}, reason : Seq(STRING), step : Number] :
       IsReason(outcome.reason)}

FailedAt == <<"failed", "at", "step">>

WriteOutcome(outcome) ==
    IF outcome = Pass THEN <<"passed">>
    ELSE FailedAt \o <<Written(outcome.step), ":">> \o outcome.reason

ReadOutcome(tokens) ==
    LET parts == SplitOnce(After(tokens, 3), <<":">>)
    IN IF tokens = <<"passed">> THEN Read(Pass)
       ELSE IF /\ Opens(tokens, FailedAt)
               /\ Splits(After(tokens, 3), <<":">>) # {}
               /\ Digits(parts[1]) # {}
               /\ IsReason(parts[2])
       THEN Read(Fail(parts[2], Max(Digits(parts[1]))))
       ELSE Amiss("Malformed")

--------------------------------------------------------------------------------
(* A schedule of faults: a header, and a fault a line. *)

\* `Window::new` and `Odds::new` take nothing else.
WritableOdds ==
    {odds \in [numerator : Number, denominator : Number \ {0}] : odds.numerator <= odds.denominator}

WritableFault ==
    {fault \in [kind : {"partition", "loss"}, from : Number, to : Number,
                during : Window, odds : WritableOdds] :
       fault.kind = "partition" => fault.odds = NoOdds}

WriteEnd(at) == IF at = MaxTime THEN "forever" ELSE WriteInstant(at)

WriteFault(fault) ==
    (IF fault.kind = "partition" THEN <<"partition">>
     ELSE <<"loss", Written(fault.odds.numerator), "in", Written(fault.odds.denominator)>>)
    \o <<"on", "node", Written(fault.from), "->", "node", Written(fault.to),
         "from", WriteInstant(fault.during.start), "until", WriteEnd(fault.during.end)>>

ReadNode(tokens) == IF Opens(tokens, <<"node">>) THEN Digits(After(tokens, 1)) ELSE {}

\* `window`: forever is closing at the end of time; no window closes before it opens.
ReadWindow(tokens) ==
    LET parts == SplitOnce(tokens, <<"until">>)
        start == ReadInstant(parts[1])
        end == IF parts[2] = <<"forever">> THEN Read(MaxTime) ELSE ReadInstant(parts[2])
    IN IF Splits(tokens, <<"until">>) = {} THEN Amiss("Malformed")
       ELSE IF ~ IsRead(start) THEN start
       ELSE IF ~ IsRead(end) THEN end
       ELSE IF end.value < start.value THEN Amiss("Backwards")
       ELSE Read([start |-> start.value, end |-> end.value])

\* `odds`: no more occurrences than trials, and some trials.
ReadOdds(tokens) ==
    LET parts == SplitOnce(tokens, <<"in">>)
        numerator == Max(Digits(parts[1]))
        denominator == Max(Digits(parts[2]))
    IN IF \/ Splits(tokens, <<"in">>) = {}
          \/ Digits(parts[1]) = {} \/ Digits(parts[2]) = {}
       THEN Amiss("Malformed")
       ELSE IF denominator = 0 THEN Amiss("NoTrials")
       ELSE IF numerator > denominator THEN Amiss("TooLikely")
       ELSE Read([numerator |-> numerator, denominator |-> denominator])

\* What has been split off a fault's line is read in the order the code reads it in.
ReadFault(tokens) ==
    LET named == SplitOnce(tokens, <<"on">>)
        placed == SplitOnce(named[2], <<"from">>)
        ends == SplitOnce(placed[1], <<"->">>)
        during == ReadWindow(placed[2])
        loses == Opens(named[1], <<"loss">>)
        odds == IF loses THEN ReadOdds(After(named[1], 1)) ELSE Read(NoOdds)
    IN IF \/ Splits(tokens, <<"on">>) = {}
          \/ Splits(named[2], <<"from">>) = {}
          \/ Splits(placed[1], <<"->">>) = {}
          \/ ReadNode(ends[1]) = {} \/ ReadNode(ends[2]) = {}
       THEN Amiss("Malformed")
       ELSE IF ~ IsRead(during) THEN during
       ELSE IF named[1] # <<"partition">> /\ ~ loses THEN Amiss("Malformed")
       ELSE IF ~ IsRead(odds) THEN odds
       ELSE Read([kind |-> IF loses THEN "loss" ELSE "partition",
                  from |-> Max(ReadNode(ends[1])), to |-> Max(ReadNode(ends[2])),
                  during |-> during.value, odds |-> odds.value])

FaultsHeader == <<"chronoloop", "faults">>

WriteSchedule(faults) ==
    <<FaultsHeader>> \o [i \in DOMAIN faults |-> WriteFault(faults[i])]

ReadSchedule(text) ==
    IF text = <<>> THEN Wrong("MissingHeader", 1)
    ELSE IF text[1] # FaultsHeader THEN Wrong("BadHeader", 1)
    ELSE Collect([i \in 1 .. Len(text) - 1 |-> ReadFault(text[i + 1])], 2)

--------------------------------------------------------------------------------
(* A repro: a system and a seed, the failure to expect, and the faults. *)

Systems == {"quorum", "reconciler"}

\* `Repro::new` takes a failure and nothing else.
Reproducible(expected) == expected # Pass

Repro == [system : Systems, seed : Number, faults : Seq(WritableFault), expected : Failure]

WriteRepro(repro) ==
    <<<<"chronoloop", "repro", repro.system, "seed", Written(repro.seed)>>,
      WriteOutcome(repro.expected)>>
    \o WriteSchedule(repro.faults)

SCHEDULE_AT == 3

\* A plausible slip: the lines of the schedule are told as the schedule counts them.
AsCounted(error) ==
    IF error.why \in {"MissingHeader", "BadHeader"} THEN Wrong("BadSchedule", SCHEDULE_AT)
    ELSE error

\* `nested`: a schedule's complaint, in the lines of the file it is nested in.
Nested(error) ==
    IF error.why \in {"MissingHeader", "BadHeader"} THEN Wrong("BadSchedule", SCHEDULE_AT)
    ELSE Wrong(error.why, error.line + SCHEDULE_AT - 1)

ReadRepro(text) ==
    LET header == <<"chronoloop", "repro">>
        named == SplitOnce(After(text[1], 2), <<"seed">>)
        expected == ReadOutcome(text[2])
        faults == ReadSchedule(After(text, 2))
    IN IF text = <<>> THEN Wrong("MissingHeader", 1)
       ELSE IF \/ ~ Opens(text[1], header)
               \/ Splits(After(text[1], 2), <<"seed">>) = {}
               \/ \A system \in Systems : named[1] # <<system>>
               \/ Digits(named[2]) = {}
       THEN Wrong("BadHeader", 1)
       ELSE IF Len(text) < 2 THEN Wrong("Malformed", 2)
       ELSE IF ~ IsRead(expected) THEN Wrong(expected.why, 2)
       ELSE IF ~ Reproducible(expected.value) THEN Wrong("HeldUp", 2)
       ELSE IF ~ IsRead(faults) THEN Nested(faults)
       ELSE Read([system |-> named[1][1], seed |-> Max(Digits(named[2])),
                  faults |-> faults.value, expected |-> expected.value])
================================================================================
