------------------------------ MODULE CommandLine ------------------------------
(***************************************************************************)
(* The command line (main.rs): commands typed one after the other, each a  *)
(* process of its own that reads a file an earlier one left, runs again    *)
(* what the file names, and writes its answer down a pipe or into a file.  *)
(* Between two commands a file may come to harm and the program may be     *)
(* built anew; a file it is written into may run out of room.              *)
(*                                                                         *)
(* What a run comes to is said by the program and by what is asked of it,  *)
(* and by nothing else: it is chosen when it is first asked for and then   *)
(* remembered.  A run of the ring that forked opens with the steps of the  *)
(* run it forked from, as SmallSystems.tla shows; what a reduction keeps is what   *)
(* Reducing.tla promises.  Sweeps go through Sweep.tla, step by step.      *)
(***************************************************************************)
EXTENDS Forms, Sweep

CONSTANTS
    Typable,        \* what may be typed where a number belongs
    Exchanges,      \* what a run of the exchange may record
    Rings,          \* the steps a run of the ring may take
    Asked,          \* the schedules of faults there are files of
    Smaller,        \* the schedules a reduction may come down to
    DrawnFor(_),    \* `reconciler::drawn_faults`: the faults drawn for a seed
    Endings(_),    \* how a run of a seed may go under faults
    Garble,         \* what a harmed token may come out as
    SeedsTyped,     \* bound: the seeds that are asked for one at a time
    MaxSeeds,       \* bound: how many seeds a sweep may cover
    MaxJobs,        \* bound: how many workers it may ask for
    MaxDeeds        \* bound: how many commands and mishaps there are

ASSUME CommandAssumption ==
    /\ MaxSeeds \in Nat \ {0} /\ MaxJobs \in Nat \ {0} /\ MaxDeeds \in Nat

VARIABLES
    files,   \* the text of each file
    meant,   \* no part of the code: what was last written to it, and by which build
    known,   \* what the runs asked for so far came to
    build,   \* how often the program was built anew
    said,    \* what the last command answered, and how it ended
    deeds

commandVars == <<files, meant, known, build, said, deeds>>

allVars == <<commandVars, sweeping>>

\* One file of faults to begin with, and two to write to.
Pages == {"page", "other"}
Path == {"faults"} \cup Pages

Nobody == [form |-> "none", build |-> 0]

\* What the program writes, of each form.
WriteForm(form, value) ==
    CASE form = "history" -> WriteRecording(value)
      [] form = "trace" -> WriteTrace(value)
      [] form = "repro" -> WriteRepro(value)
      [] form = "faults" -> WriteSchedule(value)

Meant(form, value) == [form |-> form, value |-> value, build |-> build]

Intact(path) ==
    meant[path] # Nobody /\ files[path] = WriteForm(meant[path].form, meant[path].value)

\* The numbers that can be typed are those a file could hold.
TypedNumbers == UNION {Digits(<<text>>) : text \in Typable}

--------------------------------------------------------------------------------
(* Runs. *)

Unrun == [verdict |-> "unrun"]
Crash == [verdict |-> "crash"]

\* Bound: what may be typed, asked and come to is what the forms can say.
ASSUME WrittenAssumption ==
    /\ SeedsTyped \subseteq Number
    /\ Exchanges \subseteq Seq(Entry) /\ Rings \subseteq Steps
    /\ Asked \cup Smaller \subseteq Seq(WritableFault)
    /\ \A s \in Number : DrawnFor(s) \in Seq(WritableFault)
    /\ \A s \in Number \cup 0 .. MaxSeeds - 1 :
          Endings(s) \subseteq {Pass, Unrun, Crash} \cup Failure

ExchangeOf(s) == <<"exchange", s>>
RingOf(s, fork) == <<"ring", s, fork>>
SystemOf(system, s, faults) == <<system, s, faults>>

\* The steps up to an instant.
Until(steps, at) == SelectSeq(steps, LAMBDA step : step.at <= at)

\* What may come of a run that was not asked for yet.
MayCome(memory, run) ==
    CASE run[1] = "exchange" -> Exchanges
      [] run[1] = "ring" ->
           (LET plain == memory[RingOf(run[2], <<>>)]
            IN IF run[3] = <<>> THEN Rings
               ELSE IF run[3][1].seed = run[2] THEN {plain}
               ELSE {steps \in Rings : Until(steps, run[3][1].at) = Until(plain, run[3][1].at)})
      [] OTHER -> Endings(run[2])

Comes(memory, run) == IF run \in DOMAIN memory THEN {memory[run]} ELSE MayCome(memory, run)

Knowing(memory, run, came) ==
    [r \in DOMAIN memory \cup {run} |-> IF r = run THEN came ELSE memory[r]]

--------------------------------------------------------------------------------
(* Answers. *)

Good(news) == [is |-> "good", news |-> news]
Bad(why, line) == [is |-> "bad", why |-> why, line |-> line]

\* A reader's complaint is passed on as it is, with its line.
Complaint(page) == Bad(page.why, page.line)

Quiet == [command |-> "none", exit |-> "success"]

\* `emit` and `complain`: an answer nobody stays to read is given all the same; one that
\* cannot be written is a failure; a complaint that cannot be written changes nothing.
Exits(result, out) ==
    IF result.is = "bad" \/ out = "full" THEN "failure" ELSE "success"

\* Bound: one mishap, to a file or by a program built anew.
Unharmed == \A path \in Path : meant[path] = Nobody \/ Intact(path)

\* Bound: and none to an answer as well.
Outlet == IF Unharmed THEN {"open", "gone", "full"} ELSE {"open"}

\* Bound: nothing is asked after a command that leaves no file, since nothing is left of it.
Finally == deeds' = MaxDeeds
GoingOn == deeds' = deeds + 1

\* A command whose answer is a line to be read.
Tells(command, path, result) ==
    /\ Finally
    /\ \E out \in Outlet :
          said' = [command |-> command, on |-> path, result |-> result, exit |-> Exits(result, out)]
    /\ UNCHANGED <<files, meant>>

\* What is left of a text when room runs out.
Beginnings(text) ==
    {SubSeq(text, 1, n) : n \in 0 .. Len(text) - 1}
    \cup {Append(SubSeq(text, 1, p[1] - 1), SubSeq(text[p[1]], 1, p[2])) :
            p \in {q \in (1 .. Len(text)) \X (1 .. 12) : q[2] < Len(text[q[1]])}}

\* A command whose answer is sent to a file: the shell has emptied the file before it runs.
\* With a reader that is gone instead, the text is lost and the command has not failed.
\* Bound: no file is written twice.
Writes(command, path, result, form, value, to) ==
    /\ meant[to] = Nobody
    /\ \/ /\ result.is = "bad" /\ Finally
          /\ files' = [files EXCEPT ![to] = <<>>]
          /\ meant' = [meant EXCEPT ![to] = Nobody]
          /\ said' = [command |-> command, on |-> path, result |-> result, exit |-> Exits(result, "open")]
       \/ /\ result.is = "good"
          /\ \E out \in Outlet :
                /\ IF out = "gone" THEN Finally ELSE GoingOn
                /\ \/ out = "open" /\ files' = [files EXCEPT ![to] = WriteForm(form, value)]
                   \/ /\ out = "full"
                      /\ \E text \in Beginnings(WriteForm(form, value)) : files' = [files EXCEPT ![to] = text]
                   \/ out = "gone" /\ UNCHANGED files
                /\ meant' = IF out = "gone" THEN meant ELSE [meant EXCEPT ![to] = Meant(form, value)]
                /\ said' = [command |-> command, on |-> path, result |-> result, exit |-> Exits(result, out)]

Crashes(command, path) ==
    /\ Finally
    /\ said' = [command |-> command, on |-> path, result |-> Bad("Panic", 0), exit |-> "panic"]
    /\ UNCHANGED <<files, meant>>

\* A command is typed once the one before it has ended.
Typed ==
    /\ seeds = 0 /\ deeds < MaxDeeds
    /\ UNCHANGED build

Alone == Typed /\ UNCHANGED sweeping

--------------------------------------------------------------------------------
(* Holding a page to a run. *)

\* `Divergence`: the line of the first record that differs, or else the lengths.
Diverged(line) == Bad("Diverged", line)
DivergedLength == Bad("DivergedLength", 0)

\* A plausible slip: what one of the two has beyond the other is not looked at.
FirstOfBoth(recorded, replayed, first) ==
    LET parted == {i \in DOMAIN recorded \cap DOMAIN replayed : recorded[i] # replayed[i]}
    IN IF parted # {} THEN {Diverged(Min(parted) - 1 + first)} ELSE {}

\* `first_divergence`: at most one, the first record that differs, or else the lengths.
FirstDivergence(recorded, replayed, first) ==
    LET parted == {i \in DOMAIN recorded \cap DOMAIN replayed : recorded[i] # replayed[i]}
    IN IF parted # {} THEN {Diverged(Min(parted) - 1 + first)}
       ELSE IF Len(recorded) # Len(replayed) THEN {DivergedLength} ELSE {}

\* `replay`.
Replay(path) ==
    /\ Alone
    /\ LET page == ReadRecording(files[path]) IN
       IF ~ IsRead(page)
       THEN Tells("replay", path, Complaint(page)) /\ UNCHANGED known
       ELSE \E entries \in Comes(known, ExchangeOf(page.value.seed)) :
              LET parted == FirstDivergence(page.value.entries, entries, 2) IN
              /\ known' = Knowing(known, ExchangeOf(page.value.seed), entries)
              /\ \E result \in IF parted = {} THEN {Good(<<>>)} ELSE parted :
                    Tells("replay", path, result)

\* A plausible slip: a trace that forked is run again as if it had not.
RanPlain(trace) == RingOf(trace.seed, <<>>)

\* `Loaded::parse`: what is run again.
Reran(trace) == RingOf(trace.seed, trace.fork)

\* `Written::trace`: the line of a trace's first step.
FirstLine(trace) == IF trace.fork = <<>> THEN 2 ELSE 3

\* `Loaded::parse`: the trace on a page, what stands in the way of it, and what was learnt.
Load(path) ==
    LET page == ReadTrace(files[path]) IN
    IF ~ IsRead(page)
    THEN {[trace |-> <<>>, wrong |-> {Complaint(page)}, known |-> known]}
    ELSE UNION {
           {[trace |-> page.value,
             wrong |-> FirstDivergence(page.value.steps, steps, FirstLine(page.value)),
             known |-> Knowing(Knowing(known, RingOf(page.value.seed, <<>>), plain),
                               Reran(page.value), steps)] :
             steps \in Comes(Knowing(known, RingOf(page.value.seed, <<>>), plain),
                             Reran(page.value))} :
           plain \in Comes(known, RingOf(page.value.seed, <<>>))}

\* `Loaded::at`.
Unreached(trace, n) == IF n < Len(trace.steps) THEN {} ELSE {Bad("Unreached", 0)}

\* The states of a run are those its steps name.
Missing(trace, n) ==
    IF \E i \in DOMAIN trace.steps : trace.steps[i].state = trace.steps[n + 1].state
    THEN {} ELSE {Bad("Missing", 0)}

\* The first complaint, or else the news.
Answer(complaints, news) ==
    IF \A i \in DOMAIN complaints : complaints[i] = {} THEN Good(news)
    ELSE CHOOSE c \in complaints[Min({i \in DOMAIN complaints : complaints[i] # {}})] : TRUE

\* `show`: a step the way the page writes it, and the world after it.
Inspect(path, n) ==
    /\ Alone
    /\ \E loaded \in Load(path) :
          /\ known' = loaded.known
          /\ Tells("inspect", path,
                   IF loaded.wrong # {} THEN Answer(<<loaded.wrong>>, <<>>)
                   ELSE IF Unreached(loaded.trace, n) # {}
                   THEN Answer(<<Unreached(loaded.trace, n)>>, <<>>)
                   ELSE Answer(<<Missing(loaded.trace, n)>>,
                               <<<<"step", Written(n)>> \o WriteStep(loaded.trace.steps[n + 1])>>))

\* `compare`: what changed between the states after two steps, or that nothing did.
Diff(path, n, m) ==
    /\ Alone
    /\ \E loaded \in Load(path) :
          LET steps == loaded.trace.steps
              outside == Unreached(loaded.trace, n) \cup Unreached(loaded.trace, m)
          IN  /\ known' = loaded.known
              /\ Tells("diff", path,
                       IF loaded.wrong # {} THEN Answer(<<loaded.wrong>>, <<>>)
                       ELSE IF outside # {} THEN Answer(<<outside>>, <<>>)
                       ELSE Answer(<<Missing(loaded.trace, n), Missing(loaded.trace, m)>>,
                                   IF steps[n + 1].state = steps[m + 1].state
                                   THEN <<<<"nothing", "changed">>>>
                                   ELSE <<<<WriteHash(steps[n + 1].state),
                                            WriteHash(steps[m + 1].state)>>>>))

\* `fork`: the instant is that of a step.
ForkOf(trace, n, s) == [at |-> trace.steps[n + 1].at, seed |-> s]

\* `forked`: the run again with another seed after the instant of a step, once only.
Fork(path, n, s, to) ==
    /\ Alone /\ to # path
    /\ \E loaded \in Load(path) :
          IF loaded.wrong # {} \/ Len(loaded.trace.fork) > 0 \/ n >= Len(loaded.trace.steps)
          THEN /\ known' = loaded.known
               /\ Writes("fork", path,
                         IF loaded.wrong # {} THEN Answer(<<loaded.wrong>>, <<>>)
                         ELSE IF Len(loaded.trace.fork) > 0 THEN Bad("AlreadyForked", 0)
                         ELSE Bad("Unreached", 0), "trace", <<>>, to)
          ELSE LET run == RingOf(loaded.trace.seed, <<ForkOf(loaded.trace, n, s)>>) IN \E steps \in Comes(loaded.known, run) :
                     /\ known' = Knowing(loaded.known, run, steps)
                     /\ Writes("fork", path, Good(<<>>), "trace",
                               [seed |-> loaded.trace.seed, fork |-> run[3], steps |-> steps], to)

--------------------------------------------------------------------------------
(* Making pages. *)

\* `execute`: `run`.
RunSeed(s, to) ==
    /\ Alone
    /\ \E entries \in Comes(known, ExchangeOf(s)) :
          /\ known' = Knowing(known, ExchangeOf(s), entries)
          /\ Writes("run", to, Good(<<>>), "history", [seed |-> s, entries |-> entries], to)

\* `execute`: `trace`.
TraceSeed(s, to) ==
    /\ Alone
    /\ \E steps \in Comes(known, RingOf(s, <<>>)) :
          /\ known' = Knowing(known, RingOf(s, <<>>), steps)
          /\ Writes("trace", to, Good(<<>>), "trace",
                    [seed |-> s, fork |-> <<>>, steps |-> steps], to)

\* A plausible slip: the repro expects the failure of the run that went in.
FirstFailure(first, last) == first

\* The outcome a repro expects: the reduced run's.
Expected(first, last) == last

\* `reduced`: the faults cut down, and a repro of what is left.  A candidate that cannot
\* be run stops the reduction.  Bound: nothing is reduced into a file that is written already.
Reduced(command, path, system, s, schedule, to) ==
    /\ meant[to] = Nobody
    /\ \E first \in Comes(known, SystemOf(system, s, schedule)) :
          LET knowing == Knowing(known, SystemOf(system, s, schedule), first) IN
          \/ /\ first = Crash /\ known' = knowing /\ Crashes(command, path)
          \/ /\ first \in {Unrun, Pass} /\ known' = knowing
             /\ Writes(command, path, Bad(IF first = Unrun THEN "Run" ELSE "NothingToReduce", 0),
                       "repro", <<>>, to)
          \/ /\ first \notin {Crash, Unrun, Pass}
             /\ \E less \in {l \in Smaller \cup {schedule} : NoMore(l, schedule)} :
                \E last \in Comes(knowing, SystemOf(system, s, less)) :
                   /\ known' = Knowing(knowing, SystemOf(system, s, less), last)
                   /\ \/ last = Crash /\ Crashes(command, path)
                      \/ last = Unrun /\ Writes(command, path, Bad("Run", 0), "repro", <<>>, to)
                      \/ /\ last \notin {Crash, Unrun} /\ Reproduces(last, first)
                         /\ LET repro == [system |-> system, seed |-> s, faults |-> less,
                                          expected |-> Expected(first, last)]
                            IN Writes(command, path, Good(<<repro>>), "repro", repro, to)

\* `execute`: `shrink`, of the coordinator.
ShrinkFaults(s, path, to) ==
    /\ Alone /\ to # path
    /\ LET page == ReadSchedule(files[path]) IN
       IF IsRead(page) THEN Reduced("shrink", path, "quorum", s, page.value, to)
       ELSE /\ Writes("shrink", path, Complaint(page), "repro", <<>>, to)
            /\ UNCHANGED known

\* `cornered`, of the reconciler.
Corner(s, to) ==
    /\ Alone
    /\ Reduced("corner", to, "reconciler", s, DrawnFor(s), to)

--------------------------------------------------------------------------------
(* Verdicts. *)

\* How a run's outcome ends a command that asked whether it was as wanted.
Verdict(command, path, outcome, wanted, otherwise) ==
    IF outcome = Crash THEN Crashes(command, path)
    ELSE Tells(command, path,
               IF outcome = Unrun THEN Bad("Run", 0)
               ELSE IF wanted THEN Good(<<>>) ELSE Bad(otherwise, 0))

\* `checked`: a run that broke is bad news.
Check(s, path) ==
    /\ Alone
    /\ LET page == ReadSchedule(files[path]) IN
       IF ~ IsRead(page)
       THEN Tells("check", path, Complaint(page)) /\ UNCHANGED known
       ELSE \E outcome \in Comes(known, SystemOf("quorum", s, page.value)) :
              /\ known' = Knowing(known, SystemOf("quorum", s, page.value), outcome)
              /\ Verdict("check", path, outcome, outcome = Pass, "Broke")

\* `reproduced`: the failure is the good news, in the system the page names.
Reproduce(path) ==
    /\ Alone
    /\ LET page == ReadRepro(files[path]) IN
       IF ~ IsRead(page)
       THEN Tells("reproduce", path, Complaint(page)) /\ UNCHANGED known
       ELSE LET repro == page.value
                run == SystemOf(repro.system, repro.seed, repro.faults)
            IN \E outcome \in Comes(known, run) :
                 /\ known' = Knowing(known, run, outcome)
                 /\ Verdict("reproduce", path, outcome,
                            outcome \notin {Crash, Unrun} /\ Reproduces(outcome, repro.expected),
                            "NotReproduced")

\* How a sweep takes the way a run goes.
Going(outcome) ==
    CASE outcome = Pass -> "holds" [] outcome = Unrun -> "errs"
      [] outcome = Crash -> "panics" [] OTHER -> "breaks"

\* `swept`, or `hunted`: what is asked of each seed is said by the seed alone.
BeginSweep(command, path, run) ==
    /\ Typed /\ deeds = 0 /\ GoingOn
    /\ \E count \in 1 .. MaxSeeds, jobs \in 1 .. MaxJobs :
          \E outcomes \in [0 .. count - 1 -> UNION {Endings(s) : s \in 0 .. count - 1}] :
             /\ \A s \in 0 .. count - 1 : outcomes[s] \in Comes(known, run[s])
             /\ known' = [r \in DOMAIN known \cup {run[s] : s \in 0 .. count - 1} |->
                           IF r \in DOMAIN known THEN known[r] ELSE outcomes[r[2]]]
             /\ Begin(count, jobs, [s \in 0 .. count - 1 |-> Going(outcomes[s])])
    /\ said' = [command |-> command, on |-> path, exit |-> "none"]
    /\ UNCHANGED <<files, meant>>

SweepSeeds ==
    LET page == ReadSchedule(files["faults"]) IN
    /\ IsRead(page)
    /\ BeginSweep("sweep", "faults",
                  [s \in 0 .. MaxSeeds - 1 |-> SystemOf("quorum", s, page.value)])

HuntSeeds ==
    BeginSweep("hunt", "faults",
               [s \in 0 .. MaxSeeds - 1 |-> SystemOf("reconciler", s, DrawnFor(s))])

WhileSweeping == SweepStep /\ UNCHANGED commandVars

\* `held_up`, and the end of the process.
SweepEnds ==
    /\ answer # Nothing
    /\ \/ answer = Panic /\ Crashes(said.command, said.on)
       \/ /\ answer # Panic
          /\ Tells(said.command, said.on,
                   IF answer.is = "unfinished" THEN Bad("Unfinished", answer.seed)
                   ELSE IF answer.broke = <<>> THEN Good(<<>>) ELSE Bad("SomeSeedsBroke", 0))
    /\ Leave
    /\ UNCHANGED <<known, build>>

\* `number`: what is not digits is refused before anything is done, and so are no seeds and
\* no workers.
Mistype(text) ==
    /\ Alone /\ Finally
    /\ Digits(<<text>>) \in {{}, {0}}
    /\ said' = [command |-> "refused", on |-> "faults", exit |-> "usage"]
    /\ UNCHANGED <<files, meant, known>>

--------------------------------------------------------------------------------
(* Between two commands. *)

\* The program is built anew, and any run of it may come to something else.
Rebuild ==
    /\ seeds = 0 /\ deeds < MaxDeeds /\ build = 0 /\ known # <<>> /\ Unharmed
    /\ deeds' = deeds + 1 /\ build' = 1
    /\ known' = <<>> /\ said' = Quiet
    /\ UNCHANGED <<files, meant, sweeping>>

\* Bound, in CommandNext: the faults come to harm before anything is done with them, and then
\* one command is asked; a page comes to harm before there is a fork of it; a check, which leaves
\* nothing and reads no page, is asked while there is none.

\* The ways a text comes to harm: a line lost, written twice, out of place, or misspelt.
Harmed(text) ==
    {RemoveAt(text, i) : i \in DOMAIN text}
    \cup {InsertAt(text, i, text[i]) : i \in DOMAIN text}
    \cup {[text EXCEPT ![i] = text[i + 1], ![i + 1] = text[i]] : i \in 1 .. Len(text) - 1}
    \cup {[text EXCEPT ![p[1]][p[2]] = token] :
            p \in {q \in (1 .. Len(text)) \X (1 .. 12) : q[2] <= Len(text[q[1]])},
            token \in Garble}

Harm(path) ==
    /\ seeds = 0 /\ deeds < MaxDeeds /\ build = 0 /\ Intact(path) /\ Unharmed
    /\ deeds' = IF path = "faults" THEN MaxDeeds - 1 ELSE deeds + 1
    /\ said' = Quiet
    /\ \E text \in Harmed(files[path]) \ {files[path]} : files' = [files EXCEPT ![path] = text]
    /\ UNCHANGED <<meant, known, build, sweeping>>

CommandInit ==
    /\ \E schedule \in Asked :
          /\ meant = [path \in Path |->
                        IF path = "faults" THEN [form |-> "faults", value |-> schedule, build |-> 0]
                        ELSE Nobody]
          /\ files = [path \in Path |-> IF path = "faults" THEN WriteSchedule(schedule) ELSE <<>>]
    /\ known = <<>> /\ build = 0 /\ said = Quiet /\ deeds = 0
    /\ NoSweep

CommandNext ==
    \/ \E s \in TypedNumbers \cap SeedsTyped :
          RunSeed(s, "page") \/ TraceSeed(s, "page") \/ ShrinkFaults(s, "faults", "page")
          \/ Corner(s, "page")
    \/ meant["page"] = Nobody /\ \E s \in SeedsTyped : Check(s, "faults")
    \/ \E path \in Pages :
          \/ Replay(path) \/ Reproduce(path)
          \/ \E n \in TypedNumbers :
                \/ Inspect(path, n)
                \/ \E m \in TypedNumbers : Diff(path, n, m)
                \/ \E s \in SeedsTyped : Fork(path, n, s, "other")
    \/ deeds = 0 /\ Harm("faults")
    \/ meant["other"] = Nobody /\ Harm("page")
    \/ Harm("other")
    \/ SweepSeeds \/ HuntSeeds \/ WhileSweeping \/ SweepEnds
    \/ \E text \in Typable : Mistype(text)
    \/ Rebuild

CommandSpec == CommandInit /\ [][CommandNext]_allVars

--------------------------------------------------------------------------------
Answered(commands) == said.command \in commands /\ said.exit \notin {"none", "panic"}

AnsweredWell(commands) == Answered(commands) /\ said.result.is = "good"

TraceReaders == {"inspect", "diff", "fork"}

\* The command is one for what the page was written as.
Fits(command, page) ==
    \/ command = "replay" /\ page.form = "history"
    \/ command = "reproduce" /\ page.form = "repro"
    \/ command \in TraceReaders /\ page.form = "trace"
    \/ command \in {"check", "shrink"} /\ page.form = "faults"

Readers == {"replay", "reproduce", "check", "shrink"} \cup TraceReaders

\* What may still be said of a page that is as it should be.
Excuses(command) ==
    CASE command \in TraceReaders -> {"Unreached", "AlreadyForked"}
      [] command = "check" -> {"Run", "Broke"}
      [] command = "shrink" -> {"Run", "NothingToReduce"}
      [] OTHER -> {}

\* A page nothing happened to is read back by the program that wrote it, whatever it wrote:
\* a recording replays, a trace is run again to the same steps though it forked, and a
\* repro's failure comes back.  What may still be said is that a step asked for is not there,
\* that the trace forked already, or that there is nothing to cut down.
ReadsBackWhatWasWritten ==
    Answered(Readers) =>
      LET page == meant[said.on] IN
      Fits(said.command, page) /\ page.build = build /\ Intact(said.on)
        => said.result.is = "good" \/ said.result.why \in Excuses(said.command)

\* A line is what is written, token for token, but for zeros that come before a number.
SpellsLine(line, written) ==
    /\ Len(line) = Len(written)
    /\ \A j \in DOMAIN written :
          line[j] = written[j] \/ (line[j] = "01" /\ written[j] = "1")

Spells(text, written) ==
    /\ Len(text) = Len(written)
    /\ \A i \in DOMAIN written : SpellsLine(text[i], written[i])

\* A good answer about a recording or a trace is about a page this very program would write,
\* token for token: whatever befell it, or was built since.
AnswersAreOfThePage ==
    /\ AnsweredWell({"replay"}) =>
          \E s \in Number :
             /\ ExchangeOf(s) \in DOMAIN known
             /\ Spells(files[said.on], WriteRecording([seed |-> s, entries |-> known[ExchangeOf(s)]]))
    /\ AnsweredWell(TraceReaders) =>
          /\ \E run \in DOMAIN known :
                /\ run[1] = "ring"
                /\ Spells(files[said.on],
                          WriteTrace([seed |-> run[2], fork |-> run[3], steps |-> known[run]]))
          /\ said.command = "inspect" =>
                \E line \in Range(files[said.on]) : SpellsLine(line, said.result.news[1])

FirstDifference(one, another) ==
    Min({i \in 1 .. Len(one) + Len(another) + 1 :
           \/ i \notin DOMAIN one \/ i \notin DOMAIN another
           \/ one[i] # another[i]})

\* The lines that say what to run.
Heading(text) ==
    SubSeq(text, 1, IF Len(text) > 1 /\ IsForkLine(text[2]) THEN 2 ELSE Min({1, Len(text)}))

\* A repro's expectation may have become another, and says nothing until the run is made.
Unexpected(command, text, page) ==
    IF command = "reproduce" /\ Len(text) > 1 /\ IsRead(ReadOutcome(text[2]))
    THEN [text EXCEPT ![2] = page[2]] ELSE text

\* A page that came to harm once is refused at the first line that is not as it was written,
\* whether it cannot be read there or is not what the program does: in a repro, in the lines
\* of the repro and not of the schedule in it.  A page whose heading now says another run is
\* another page.
ErrorsNameTheFirstWrongLine ==
    (/\ Answered(Readers) /\ said.result.is = "bad" /\ said.result.line > 0
     /\ LET page == meant[said.on] IN
        /\ Fits(said.command, page) /\ page.build = build
        /\ LET heading == Heading(WriteForm(page.form, page.value)) IN
           Spells(Heading(files[said.on]), heading) \/ said.result.line <= Len(heading))
    => LET page == WriteForm(meant[said.on].form, meant[said.on].value)
       IN said.result.line = FirstDifference(Unexpected(said.command, files[said.on], page), page)

\* What a sweep comes back with is said by the seeds alone, however many workers there were
\* and whichever was first: every seed that breaks once, in order, after all of them ran;
\* otherwise "the same seed however the work was split", the lowest that cannot be finished
\* (`sweep`); a panic is passed on.  A script sees a sweep succeed when a check of each seed
\* would.
SaidBySeeds ==
    LET SeedsThat(how) == {s \in Seed : goes[s] = how} IN
    /\ answer.is = "survey" =>
           /\ SeedsThat("errs") = {} /\ SeedsThat("panics") = {}
           /\ Range(answer.broke) = SeedsThat("breaks")
           /\ \A k \in 2 .. Len(answer.broke) : answer.broke[k - 1] < answer.broke[k]
    /\ answer.is = "unfinished" => SeedsThat("errs") # {} /\ answer.seed = Min(SeedsThat("errs"))
    /\ answer.is = "panic" => SeedsThat("panics") # {}
    /\ AnsweredWell({"sweep", "hunt"}) <=>
           said.command \in {"sweep", "hunt"} /\ said.exit # "none"
             /\ \A run \in DOMAIN known : known[run] = Pass

\* A repro that `shrink` or `corner` writes expects what its own faults do, by a run that was
\* made of them, and those are no more than the faults it was asked about or that were drawn
\* ("the step it names is a step of the run this repro produces", `reduced`).
ReprosExpectTheirOwnRun ==
    AnsweredWell({"shrink", "corner"}) =>
      LET repro == said.result.news[1]
          run == SystemOf(repro.system, repro.seed, repro.faults)
      IN /\ run \in DOMAIN known /\ known[run] = repro.expected
         /\ NoMore(repro.faults, IF said.command = "shrink"
                                 THEN ReadSchedule(files[said.on]).value
                                 ELSE DrawnFor(repro.seed))
================================================================================
