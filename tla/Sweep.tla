--------------------------------- MODULE Sweep ---------------------------------
(***************************************************************************)
(* Running many seeds over several workers (sweep.rs), the one place of    *)
(* the engine with real threads.  A worker takes every workers-th seed;    *)
(* the caller joins the workers in turn and merges what they found.        *)
(*                                                                         *)
(* How the run of a seed goes is a function of the seed, given with the    *)
(* sweep: it holds up, breaks, cannot finish, or panics.  A seed is far    *)
(* from 2^64, so that stepping past the last one does not wrap round.      *)
(* CommandLine.tla starts a sweep and takes its answer.                    *)
(***************************************************************************)
EXTENDS Naturals, SequencesExt, FiniteSetsExt

VARIABLES
    seeds,    \* the seeds are 0 .. seeds - 1
    workers,  \* how many workers were started, at most one a seed
    goes,     \* how the run of each seed goes: it holds, breaks, errs or panics
    seed,     \* the seed each worker is at
    broke,    \* the seeds of its own each has found to break, in its order
    worked,   \* whether each is working, or has found, unfinished or panicked
    joined,   \* how many the caller has joined
    answer    \* what the caller comes back with

sweeping == <<seeds, workers, goes, seed, broke, worked, joined, answer>>

Seed == 0 .. seeds - 1
Worker == 0 .. workers - 1

Nothing == [is |-> "nothing"]
Survey(found) == [is |-> "survey", broke |-> found]
Unfinished(s) == [is |-> "unfinished", seed |-> s]
Panic == [is |-> "panic"]

\* A worker with no seed to run is not started.
Started(jobs, count) == Min({jobs, count})

NoSweep ==
    /\ seeds = 0 /\ workers = 0 /\ goes = <<>>
    /\ seed = <<>> /\ broke = <<>> /\ worked = <<>>
    /\ joined = 0 /\ answer = Nothing

\* `sweep`: every worker starts at the seed of its own number.
Begin(count, jobs, how) ==
    /\ seeds = 0
    /\ seeds' = count /\ workers' = Started(jobs, count)
    /\ goes' = how
    /\ seed' = [w \in 0 .. workers' - 1 |-> w]
    /\ broke' = [w \in 0 .. workers' - 1 |-> <<>>]
    /\ worked' = [w \in 0 .. workers' - 1 |-> "working"]
    /\ UNCHANGED <<joined, answer>>

\* The process is gone.
Leave ==
    /\ seeds' = 0 /\ workers' = 0 /\ goes' = <<>>
    /\ seed' = <<>> /\ broke' = <<>> /\ worked' = <<>>
    /\ joined' = 0 /\ answer' = Nothing

-------------------------------------------------------------------------------
\* `stride`: the next seed of a worker's share.
Run(w) ==
    /\ worked[w] = "working" /\ seed[w] < seeds
    /\ \/ /\ goes[seed[w]] \in {"holds", "breaks"}
          /\ broke' = IF goes[seed[w]] = "breaks" THEN [broke EXCEPT ![w] = Append(@, seed[w])]
                      ELSE broke
          /\ seed' = [seed EXCEPT ![w] = @ + workers]
          /\ UNCHANGED worked
       \/ /\ goes[seed[w]] = "errs"
          /\ worked' = [worked EXCEPT ![w] = "unfinished"]
          /\ UNCHANGED <<seed, broke>>
       \/ /\ goes[seed[w]] = "panics"
          /\ worked' = [worked EXCEPT ![w] = "panicked"]
          /\ UNCHANGED <<seed, broke>>
    /\ UNCHANGED <<seeds, workers, goes, joined, answer>>

\* `stride`: the share is done.
Return(w) ==
    /\ worked[w] = "working" /\ seed[w] >= seeds
    /\ worked' = [worked EXCEPT ![w] = "found"]
    /\ UNCHANGED <<seeds, workers, goes, seed, broke, joined, answer>>

\* `join`, in the order the workers were started.
Join ==
    /\ answer = Nothing /\ joined < workers
    /\ worked[joined] \in {"found", "unfinished"}
    /\ joined' = joined + 1
    /\ UNCHANGED <<seeds, workers, goes, seed, broke, worked, answer>>

\* The worker to be joined panicked; the scope is not left until the others have stopped.
Unwind ==
    /\ answer = Nothing /\ joined < workers
    /\ worked[joined] = "panicked"
    /\ \A w \in Worker : worked[w] # "working"
    /\ answer' = Panic
    /\ UNCHANGED <<seeds, workers, goes, seed, broke, worked, joined>>

\* What the workers found: the place of each in what its worker found.
Finding == UNION {{<<w, i>> : i \in DOMAIN broke[w]} : w \in Worker}

SeedAt(finding) == broke[finding[1]][finding[2]]

\* A sort by seed of all they found.
BySeed(list) == \A k \in 2 .. Len(list) : SeedAt(list[k - 1]) <= SeedAt(list[k])

Merged == {[k \in DOMAIN list |-> SeedAt(list[k])] : list \in {l \in SetToSeqs(Finding) : BySeed(l)}}

\* A plausible slip: the first worker that could not finish is reported.
FirstUnfinished == seed[Min({w \in Worker : worked[w] = "unfinished"})]

\* The lowest of the seeds that could not be finished.
LowestUnfinished == Min({seed[w] : w \in {v \in Worker : worked[v] = "unfinished"}})

\* The merge.
Merge ==
    /\ answer = Nothing /\ seeds > 0 /\ joined = workers
    /\ IF \E w \in Worker : worked[w] = "unfinished" THEN answer' = Unfinished(LowestUnfinished)
       ELSE \E found \in Merged : answer' = Survey(found)
    /\ UNCHANGED <<seeds, workers, goes, seed, broke, worked, joined>>

SweepStep == (\E w \in Worker : Run(w) \/ Return(w)) \/ Join \/ Unwind \/ Merge
===============================================================================
