--------------------------------- MODULE Replog ---------------------------------
(***************************************************************************)
(* The replicated log of systems/replog.rs: Raft with a pre-vote, and the  *)
(* clients that submit commands to it.                                     *)
(*                                                                         *)
(* A replica is a record, as the struct of the code is, and a handler says *)
(* what the replica becomes and what it sends.  A message takes any time   *)
(* on the wire, so any message there may be the next to arrive, and one is *)
(* lost where a fault cuts its direction: this system's links lose and     *)
(* duplicate nothing by themselves.  Timers are abstracted: a replica's    *)
(* may run out whenever its task is not at a handler.                      *)
(*                                                                         *)
(* Bounds, over the whole run: MaxTimers timers run out, MaxRetries times  *)
(* a client asks again, and no replica asks about a term past MaxTerm.     *)
(***************************************************************************)
EXTENDS Naturals, Sequences, FiniteSets, Bags, SequencesExt

CONSTANTS
    Replica,
    Client,
    Commands,  \* what each client sends, in order
    MaxTerm, MaxTimers, MaxRetries,
    Nobody, Noop, Unmatched

Command == UNION {ToSet(Commands[c]) : c \in Client}

ASSUME ReplogAssumption ==
    /\ IsFiniteSet(Replica) /\ Nobody \notin Replica
    /\ MaxTerm \in Nat /\ MaxTimers \in Nat /\ MaxRetries \in Nat
    /\ \A c \in Client : Commands[c] \in Seq(Command) /\ IsInjective(Commands[c])
    /\ \A c, d \in Client : c # d => ToSet(Commands[c]) \cap ToSet(Commands[d]) = {}
    /\ Noop \notin Command
    /\ Unmatched \notin Nat

VARIABLES
    replicas,  \* the state of each replica, see Fresh
    wire,      \* the bag of messages on their way
    yeses,     \* the record of every yes to a pre-vote or a vote said so far
    timers,    \* how many timers have run out
    round,     \* how many of its commands a client has sent
    retries,   \* how often a client has asked again
    done,      \* the commands a client has heard are committed
    after      \* for a command sent, the commands that were done by then

clientVars == <<round, retries, done, after>>
vars == <<replicas, wire, yeses, timers, round, retries, done, after>>

\* MAJORITY.
Majority == Cardinality(Replica) \div 2 + 1

Entry == [term : Nat, op : Command \cup {Noop}]

\* `Replica::new`: a follower in term 0 with nothing in its log.
Fresh ==
    [term |-> 0, role |-> "follower", votedFor |-> Nobody, leader |-> Nobody,
     prevotes |-> {}, votes |-> {}, led |-> {},
     log |-> <<>>, commit |-> 0, applied |-> <<>>,
     next |-> [p \in Replica |-> 1], matched |-> [p \in Replica |-> 0],
     pending |-> {}]

State ==
    [term : Nat, role : {"follower", "candidate", "leader"},
     votedFor : Replica \cup {Nobody}, leader : Replica \cup {Nobody},
     prevotes : SUBSET Replica, votes : SUBSET Replica, led : SUBSET Nat,
     log : Seq(Entry), commit : Nat, applied : Seq(Command \cup {Noop}),
     next : [Replica -> Nat \ {0}], matched : [Replica -> Nat],
     pending : SUBSET (Nat \X Command)]

End == [term : Nat, index : Nat]

Ballot ==
    [kind : {"PreVoted"}, from : Replica, to : Replica, term : Nat, proposed : Nat,
     granted : BOOLEAN]
      \cup [kind : {"Vote"}, from : Replica, to : Replica, term : Nat, granted : BOOLEAN]

Message ==
    Ballot
      \cup [kind : {"PreVote"}, from : Replica, to : Replica, proposed : Nat, end : End]
      \cup [kind : {"RequestVote"}, from : Replica, to : Replica, term : Nat, end : End]
      \cup [kind : {"Append"}, from : Replica, to : Replica, term : Nat,
            prev : End, entries : Seq(Entry), commit : Nat]
      \cup [kind : {"Appended"}, from : Replica, to : Replica, term : Nat,
            matched : Nat \cup {Unmatched}]
      \cup [kind : {"Submit"}, to : Replica, command : Command]
      \cup [kind : {"Submitted"}, command : Command]

TypeOK ==
    /\ replicas \in [Replica -> State]
    /\ IsABag(wire) /\ BagToSet(wire) \subseteq Message
    /\ yeses \subseteq Ballot
    /\ timers \in 0 .. MaxTimers /\ retries \in 0 .. MaxRetries
    /\ \A c \in Client : round[c] \in 0 .. Len(Commands[c])
    /\ done \subseteq Command
    /\ after \in [Command -> SUBSET Command]

Init ==
    /\ replicas = [r \in Replica |-> Fresh]
    /\ wire = EmptyBag
    /\ yeses = {}
    /\ timers = 0
    /\ round = [c \in Client |-> 0]
    /\ retries = 0
    /\ done = {}
    /\ after = [c \in Command |-> {}]

\* The ballots among the messages that say yes.
Yeses(messages) == {m \in messages : m.kind \in {"PreVoted", "Vote"} /\ m.granted}

\* The wire once a copy of m has left it.
Without(m) == wire (-) SetToBag({m})

\* Replica r is s from now on and sends these messages, to join what is left on the
\* wire.
Becomes(r, s, messages, left) ==
    /\ replicas' = [replicas EXCEPT ![r] = s]
    /\ wire' = left (+) SetToBag(messages)
    /\ yeses' = yeses \cup Yeses(messages)
    /\ UNCHANGED clientVars

\* What a handler comes to: the receiver of m is s and sends these messages.
Answers(m, s, messages) ==
    Becomes(m.to, s, messages, Without(m)) /\ UNCHANGED timers

--------------------------------------------------------------------------------
(* Logs. *)

TermAt(log, at) == IF at \in DOMAIN log THEN log[at].term ELSE 0

\* `Replica::last`.
EndOf(log) == [term |-> TermAt(log, Len(log)), index |-> Len(log)]

\* A plausible slip: any log will do.
Whatever(end, other) == TRUE

\* The order of LogEnd: the later last term, and between equal ones the longer log.
UpToDate(end, other) ==
    \/ end.term > other.term
    \/ end.term = other.term /\ end.index >= other.index

\* The log holds the entry a copy follows.
Holds(log, prev) == prev.index <= Len(log) /\ TermAt(log, prev.index) = prev.term

\* The places of a copy that the log lacks or contradicts.
Differs(log, prev, copied) ==
    {i \in DOMAIN copied : \/ prev + i > Len(log)
                           \/ log[prev + i].term # copied[i].term}

\* A plausible slip: an entry in the way is left where it is.
Extended(log, prev, copied) == log \o SubSeq(copied, Len(log) - prev + 1, Len(copied))

\* `Replica::take`: an entry held is kept, and from the first that is lacking or
\* conflicts on, the copy replaces the log.
Taken(log, prev, copied) ==
    IF Differs(log, prev, copied) = {}
    THEN log
    ELSE LET first == CHOOSE i \in Differs(log, prev, copied) :
                         \A j \in Differs(log, prev, copied) : i <= j
         IN SubSeq(log, 1, prev + first - 1) \o SubSeq(copied, first, Len(copied))

\* `Replica::apply`: what is committed and not yet applied, in order.
Applied(s, reached) ==
    [s EXCEPT !.commit = reached,
              !.applied = @ \o [i \in 1 .. (reached - Len(@)) |-> s.log[Len(@) + i].op]]

\* `Replica::copy_for`.
CopyFor(r, s, follower) ==
    LET prev == Max({s.next[follower], 1}) - 1
    IN [kind |-> "Append", from |-> r, to |-> follower, term |-> s.term,
        prev |-> [term |-> TermAt(s.log, prev), index |-> prev],
        entries |-> SubSeq(s.log, prev + 1, Len(s.log)), commit |-> s.commit]

CopyToEveryone(r, s) == {CopyFor(r, s, p) : p \in Replica \ {r}}

--------------------------------------------------------------------------------
(* Terms and elections. *)

\* `Replica::adopt`, for a message of a later term.
Adopted(s, term) ==
    IF term <= s.term
    THEN s
    ELSE LET moved == [s EXCEPT !.term = term, !.votedFor = Nobody, !.leader = Nobody]
         IN IF s.role = "follower"
            THEN moved
            ELSE [moved EXCEPT !.role = "follower", !.votes = {}, !.pending = {}]

PreVotes(r, s) ==
    {[kind |-> "PreVote", from |-> r, to |-> p, proposed |-> s.term + 1, end |-> EndOf(s.log)] :
       p \in Replica \ {r}}

\* `Replica::on_timer`: a leader copies its log out, anyone else asks whether it
\* could stand.
OnTimer(r) ==
    LET s == replicas[r]
    IN /\ timers < MaxTimers /\ timers' = timers + 1
       /\ \/ /\ s.role = "leader"
             /\ Becomes(r, s, CopyToEveryone(r, s), wire)
          \/ /\ s.role # "leader" /\ s.term < MaxTerm
             /\ Becomes(r, [s EXCEPT !.leader = Nobody, !.prevotes = {r}], PreVotes(r, s), wire)

\* `Replica::on_pre_vote`: answering moves nothing.
OnPreVote(m) ==
    LET s == replicas[m.to]
    IN /\ m.kind = "PreVote"
       /\ Answers(m, s,
            {[kind |-> "PreVoted", from |-> m.to, to |-> m.from, term |-> s.term,
              proposed |-> m.proposed,
              granted |-> /\ m.proposed > s.term
                          /\ UpToDate(m.end, EndOf(s.log))
                          /\ s.leader = Nobody]})

\* `Replica::stand`.
Standing(r, s) ==
    [s EXCEPT !.term = @ + 1, !.role = "candidate", !.votedFor = r, !.leader = Nobody,
              !.votes = {r}]

RequestVotes(r, s) ==
    {[kind |-> "RequestVote", from |-> r, to |-> p, term |-> s.term, end |-> EndOf(s.log)] :
       p \in Replica \ {r}}

\* A plausible slip: any yes counts, whichever term it is about.
AnyYes(r, s, m) == r \in s.prevotes /\ m.granted

\* The answer is a yes to the question this replica is asking.
YesNow(r, s, m) == r \in s.prevotes /\ m.proposed = s.term + 1 /\ m.granted

\* `Replica::on_pre_voted`: on a majority's yes it stands.
OnPreVoted(m) ==
    LET r == m.to
        s == Adopted(replicas[r], m.term)
        asked == [s EXCEPT !.prevotes = @ \cup {m.from}]
        standing == Standing(r, [asked EXCEPT !.prevotes = {}])
    IN /\ m.kind = "PreVoted"
       /\ \/ ~ YesNow(r, s, m) /\ Answers(m, s, {})
          \/ /\ YesNow(r, s, m)
             /\ Cardinality(asked.prevotes) < Majority
             /\ Answers(m, asked, {})
          \/ /\ YesNow(r, s, m)
             /\ Cardinality(asked.prevotes) >= Majority
             /\ Answers(m, standing, RequestVotes(r, standing))

\* A plausible slip: the vote of a term is never spent.
VoteForAny(s, m) == m.term = s.term /\ UpToDate(m.end, EndOf(s.log))

\* The vote goes to the first to ask in this term with a log no further back.
VoteFor(s, m) ==
    /\ m.term = s.term
    /\ UpToDate(m.end, EndOf(s.log))
    /\ s.votedFor \in {Nobody, m.from}

\* `Replica::on_request_vote`.
OnRequestVote(m) ==
    LET s == Adopted(replicas[m.to], m.term)
    IN /\ m.kind = "RequestVote"
       /\ Answers(m, IF VoteFor(s, m) THEN [s EXCEPT !.votedFor = m.from] ELSE s,
            {[kind |-> "Vote", from |-> m.to, to |-> m.from, term |-> s.term,
              granted |-> VoteFor(s, m)]})

\* `Replica::lead`: the no-op goes in first.
Leading(r, s) ==
    LET log == Append(s.log, [term |-> s.term, op |-> Noop])
    IN [s EXCEPT !.role = "leader", !.led = @ \cup {s.term}, !.log = log, !.leader = r,
                 !.votes = {}, !.prevotes = {},
                 !.next = [p \in Replica |-> Len(log)],
                 !.matched = [p \in Replica |-> IF p = r THEN Len(log) ELSE 0]]

\* `Replica::on_vote`: on a majority's votes it leads.
OnVote(m) ==
    LET r == m.to
        s == Adopted(replicas[r], m.term)
        counted == s.role = "candidate" /\ m.term = s.term /\ m.granted
        voted == [s EXCEPT !.votes = @ \cup {m.from}]
    IN /\ m.kind = "Vote"
       /\ \/ ~ counted /\ Answers(m, s, {})
          \/ /\ counted
             /\ Cardinality(voted.votes) < Majority
             /\ Answers(m, voted, {})
          \/ /\ counted
             /\ Cardinality(voted.votes) >= Majority
             /\ Answers(m, Leading(r, voted), CopyToEveryone(r, Leading(r, voted)))

--------------------------------------------------------------------------------
(* Copying the log. *)

Answered(m, term, matched) ==
    {[kind |-> "Appended", from |-> m.to, to |-> m.from, term |-> term, matched |-> matched]}

\* Replica s accepts m's sender as the leader of its term.
Following(s, m) ==
    [s EXCEPT !.role = "follower", !.leader = m.from, !.prevotes = {},
              !.votes = IF s.role = "candidate" THEN {} ELSE @]

\* The part of a copy's commit index it vouches for itself.
Vouched(m) ==
    LET lastNew == m.prev.index + Len(m.entries)
    IN IF m.commit < lastNew THEN m.commit ELSE lastNew

\* `Replica::on_append`.
OnAppend(m) ==
    LET r == m.to
        s == Adopted(replicas[r], m.term)
        following == Following(s, m)
        taken == [following EXCEPT !.log = Taken(@, m.prev.index, m.entries)]
    IN /\ m.kind = "Append"
       /\ \/ /\ m.term < s.term \/ s.role = "leader"
             /\ Answers(m, s, Answered(m, s.term, Unmatched))
          \/ /\ m.term = s.term /\ s.role # "leader"
             /\ ~ Holds(s.log, m.prev)
             /\ Answers(m, following, Answered(m, s.term, Unmatched))
          \/ /\ m.term = s.term /\ s.role # "leader"
             /\ Holds(s.log, m.prev)
             /\ Answers(m, IF Vouched(m) > s.commit THEN Applied(taken, Vouched(m)) ELSE taken,
                        Answered(m, s.term, m.prev.index + Len(m.entries)))

\* The entries of its own term a majority holds, past what is committed.
Committable(s) ==
    {at \in (s.commit + 1) .. Len(s.log) :
       /\ s.log[at].term = s.term
       /\ Cardinality({p \in Replica : s.matched[p] >= at}) >= Majority}

\* `Replica::advance`: commits through the furthest of them.
Advanced(s) ==
    IF Committable(s) = {}
    THEN s
    ELSE LET reached == CHOOSE at \in Committable(s) : \A b \in Committable(s) : b <= at
         IN [Applied(s, reached) EXCEPT !.pending = {w \in @ : w[1] > reached}]

\* The clients answered for what that commits.
Confirmed(s) ==
    {[kind |-> "Submitted", command |-> w[2]] :
       w \in {v \in s.pending \ Advanced(s).pending : s.log[v[1]].op = v[2]}}

\* One back, but not before the first entry.
SteppedBack(next) == IF next > 1 THEN next - 1 ELSE 1

\* `Replica::on_appended`.
OnAppended(m) ==
    LET r == m.to
        s == Adopted(replicas[r], m.term)
        held == IF m.matched # Unmatched /\ m.matched > s.matched[m.from]
                THEN m.matched ELSE s.matched[m.from]
        next == IF m.matched # Unmatched THEN held + 1
                ELSE SteppedBack(s.next[m.from])
        heard == [s EXCEPT !.matched[m.from] = held, !.next[m.from] = next]
        more == m.matched = Unmatched \/ next <= Len(s.log)
    IN /\ m.kind = "Appended"
       /\ \/ /\ s.role # "leader" \/ m.term # s.term
             /\ Answers(m, s, {})
          \/ /\ s.role = "leader" /\ m.term = s.term
             /\ Answers(m, Advanced(heard),
                        Confirmed(heard) \cup
                          IF more THEN {CopyFor(r, Advanced(heard), m.from)} ELSE {})

--------------------------------------------------------------------------------
(* Clients. *)

\* A plausible slip: a retry is taken for a new command.
NeverHeld(log, command) == 0

\* The first place where the log holds the command, or 0.
HeldAt(log, command) == SelectInSeq(log, LAMBDA entry : entry.op = command)

\* `Replica::on_submit`, by a leader.  Anyone else only points the client at
\* another replica.
OnSubmit(m) ==
    LET r == m.to
        s == replicas[r]
        held == HeldAt(s.log, m.command)
        at == Len(s.log) + 1
        took == [s EXCEPT !.log = Append(@, [term |-> s.term, op |-> m.command]),
                          !.matched[r] = at,
                          !.pending = @ \cup {<<at, m.command>>}]
    IN /\ m.kind = "Submit" /\ s.role = "leader"
       /\ \/ /\ held > 0 /\ held <= s.commit
             /\ Answers(m, s, {[kind |-> "Submitted", command |-> m.command]})
          \/ /\ held > s.commit
             /\ Answers(m, [s EXCEPT !.pending = @ \cup {<<held, m.command>>}], {})
          \/ /\ held = 0
             /\ Answers(m, took, CopyToEveryone(r, took))

\* A replica that does not lead answers with whom it follows; all that comes of
\* it is that the client asks another, see Retry.
PointElsewhere(m) ==
    /\ m.kind = "Submit" /\ replicas[m.to].role # "leader"
    /\ Answers(m, replicas[m.to], {})

\* The command client c is at.
Current(c) == Commands[c][round[c]]

\* Client c asks replica r to commit the command, whether or not it leads.
Ask(r, command) ==
    wire' = wire (+) SetToBag({[kind |-> "Submit", to |-> r, command |-> command]})

\* Client c sends its next command, the one before it being done.
Send(c, r) ==
    /\ round[c] < Len(Commands[c])
    /\ round[c] > 0 => Current(c) \in done
    /\ round' = [round EXCEPT ![c] = @ + 1]
    /\ after' = [after EXCEPT ![Commands[c][round[c] + 1]] = done]
    /\ Ask(r, Commands[c][round[c] + 1])
    /\ UNCHANGED <<replicas, yeses, timers, retries, done>>

\* It was pointed elsewhere or heard nothing in time: it asks again.
Retry(c, r) ==
    /\ retries < MaxRetries /\ retries' = retries + 1
    /\ round[c] > 0 /\ Current(c) \notin done
    /\ Ask(r, Current(c))
    /\ UNCHANGED <<replicas, yeses, timers, round, done, after>>

\* `hear`: an answer arrives, about the command the client is at or one gone by.
Hear(m) ==
    /\ m.kind = "Submitted"
    /\ done' = done \cup {m.command}
    /\ wire' = Without(m)
    /\ UNCHANGED <<replicas, yeses, timers, round, retries, after>>

\* A fault had cut the direction the message was sent in.
Cut(m) ==
    /\ wire' = Without(m)
    /\ UNCHANGED <<replicas, yeses, timers, clientVars>>

Receive(m) ==
    \/ OnPreVote(m) \/ OnPreVoted(m) \/ OnRequestVote(m) \/ OnVote(m)
    \/ OnAppend(m) \/ OnAppended(m) \/ OnSubmit(m) \/ PointElsewhere(m) \/ Hear(m)

Next ==
    \/ \E r \in Replica : OnTimer(r)
    \/ \E m \in BagToSet(wire) : Receive(m) \/ Cut(m)
    \/ \E c \in Client, r \in Replica : Send(c, r) \/ Retry(c, r)

Spec == Init /\ [][Next]_vars

--------------------------------------------------------------------------------
(* Properties. *)

\* `one_leader_a_term`: no two replicas ever led the same term.
OneLeaderATerm ==
    \A q, r \in Replica : q # r => replicas[q].led \cap replicas[r].led = {}

\* `committed_entries_hold`: what a replica applied agrees with what every other
\* applied there, and with what its own log still holds.
CommittedEntriesHold ==
    \A r \in Replica :
       LET s == replicas[r]
       IN /\ Len(s.applied) <= Len(s.log)
          /\ \A i \in DOMAIN s.applied :
                /\ s.log[i].op = s.applied[i]
                /\ \A q \in Replica :
                      i \in DOMAIN replicas[q].applied => replicas[q].applied[i] = s.applied[i]

\* The argument the module's docs rely on and do not prove: a leader's log holds
\* every entry that a replica in its term or an earlier one knows is committed.
LeadersHoldWhatIsCommitted ==
    \A r, q \in Replica :
       replicas[r].role = "leader" /\ replicas[q].term <= replicas[r].term =>
          IsPrefix(SubSeq(replicas[q].log, 1, replicas[q].commit), replicas[r].log)

\* What `take` relies on when it keeps an entry by its term alone: two logs with an
\* entry of one term at one place agree up to there.
LogsMatch ==
    \A q, r \in Replica :
       \A i \in DOMAIN replicas[q].log \cap DOMAIN replicas[r].log :
          replicas[q].log[i].term = replicas[r].log[i].term =>
             SubSeq(replicas[q].log, 1, i) = SubSeq(replicas[r].log, 1, i)

\* `linearizable`: every replica applies a command at most once, and after all that
\* were done when it was sent.
Linearizable ==
    \A r \in Replica :
       LET applied == replicas[r].applied
       IN \A i \in DOMAIN applied :
             applied[i] # Noop =>
                /\ \A j \in DOMAIN applied : applied[j] = applied[i] => j = i
                /\ after[applied[i]] \subseteq ToSet(SubSeq(applied, 1, i - 1))

\* What the pre-vote is for: a replica begins a term only when, with it, a majority
\* said it could stand in that very term, so nobody deaf ever moves the others.
StandsOnMajority ==
    [][\A r \in Replica :
         replicas'[r].role = "candidate" /\ replicas'[r].term # replicas[r].term =>
            Cardinality({r} \cup {v \in Replica :
               \E y \in yeses : /\ y.kind = "PreVoted" /\ y.from = v /\ y.to = r
                                /\ y.proposed = replicas'[r].term}) >= Majority]_vars
================================================================================
