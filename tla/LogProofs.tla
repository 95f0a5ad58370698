------------------------------- MODULE LogProofs -------------------------------
(***************************************************************************)
(* That the replicated log is one: no two replicas lead the same term,     *)
(* none stands for one without a majority's yes, logs match, what is       *)
(* committed holds, and a leader has all of it, whatever the replicas, the *)
(* clients and the bounds are.                                             *)
(*                                                                         *)
(* The first half is about votes only.  A yes to a vote is spent: whoever  *)
(* said it has since moved to a later term or still holds that vote        *)
(* (`VotesSpent`), so it says yes once a term (`OneYesATerm`).  Whoever    *)
(* led a term had a majority's yes (`LeadersElected`), and two majorities  *)
(* meet.                                                                   *)
(*                                                                         *)
(* The invariant of the second half speaks of two things no replica        *)
(* remembers, so it says that there are such: `lines`, the log of each     *)
(* term's leader as far as it ever got, and `held`, which replica held     *)
(* which entry of a term while it was in that term.  A log follows the lines: up to an entry of a      *)
(* term, it is that term's line (`Follows`).  An entry a majority held is  *)
(* chosen, and is in the line of every later term: whoever won it had the  *)
(* vote of one of them (`ChosenIsForGood`).  A line has a command once,    *)
(* after every command answered before it was asked for, so what replicas  *)
(* apply is one order of the commands that clients can have seen.          *)
(***************************************************************************)
EXTENDS Replog, FiniteSetTheorems, WellFoundedInduction, TLAPS

\* The fields of a replica that elections are about.
VotingFields == {"term", "role", "votedFor", "votes", "led"}

\* Among the yeses said is replica v's to replica r standing in a term.
Gave(said, v, r, term) ==
    \E y \in said : y.kind = "Vote" /\ y.from = v /\ y.to = r /\ y.term = term

\* A majority, r itself among it, voted for r in a term.
Elected(said, r, term) ==
    \E Q \in SUBSET Replica :
       /\ Cardinality(Q) >= Majority
       /\ \A v \in Q \ {r} : Gave(said, v, r, term)

ReplicasTyped ==
    /\ DOMAIN replicas = Replica
    /\ \A r \in Replica :
          /\ VotingFields \subseteq DOMAIN replicas[r]
          /\ replicas[r].term \in Nat
          /\ replicas[r].votes \subseteq Replica
          /\ replicas[r].led \subseteq Nat

\* What a handler may rely on in a message.
Sensible(m) ==
    /\ m.kind # "Submitted" => m.to \in Replica
    /\ m.kind \notin {"Submit", "Submitted"} => m.from \in Replica \ {m.to}
    /\ m.kind \in {"PreVoted", "RequestVote", "Vote", "Append", "Appended"} => m.term \in Nat

WireSensible ==
    \A m \in BagToSet(wire) :
       /\ Sensible(m)
       /\ m.kind = "Vote" /\ m.granted => m \in yeses

\* A vote said yes to is spent.
VotesSpent ==
    \A y \in yeses : y.kind = "Vote" =>
       /\ y.from \in Replica /\ y.to \in Replica \ {y.from} /\ y.term \in Nat
       /\ \/ replicas[y.from].term > y.term
          \/ replicas[y.from].term = y.term /\ replicas[y.from].votedFor = y.to

OneYesATerm ==
    \A x, y \in yeses :
       x.kind = "Vote" /\ y.kind = "Vote" /\ x.from = y.from /\ x.term = y.term => x.to = y.to

\* A candidate has its own vote and counts only votes given to it in its term.
CandidatesCountVotes ==
    \A r \in Replica : replicas[r].role = "candidate" =>
       /\ replicas[r].votedFor = r
       /\ \A v \in replicas[r].votes \ {r} : Gave(yeses, v, r, replicas[r].term)

LeadersElected ==
    \A r \in Replica : \A term \in replicas[r].led :
       /\ \/ replicas[r].term > term
          \/ replicas[r].term = term /\ replicas[r].votedFor = r
       /\ \A y \in yeses : y.kind = "Vote" /\ y.from = r => y.term # term
       /\ Elected(yeses, r, term)

Voting ==
    /\ ReplicasTyped /\ WireSensible /\ VotesSpent /\ OneYesATerm
    /\ CandidatesCountVotes /\ LeadersElected

\* What a step that makes replica r into s and sends `messages` owes to the votes.
Fair(r, s, messages) ==
    /\ VotingFields \subseteq DOMAIN s
    /\ s.term \in Nat /\ s.term >= replicas[r].term
    /\ s.votes \subseteq Replica
    /\ s.term = replicas[r].term =>
          s.votedFor = replicas[r].votedFor \/ replicas[r].votedFor = Nobody
    /\ s.role = "candidate" =>
          s.votedFor = r /\ \A v \in s.votes \ {r} : Gave(yeses, v, r, s.term)
    /\ \/ s.led = replicas[r].led
       \/ s.led = replicas[r].led \cup {s.term} /\ s.votedFor = r /\ Elected(yeses, r, s.term)
    /\ \A m \in messages :
          /\ Sensible(m)
          /\ m.kind = "Vote" /\ m.granted =>
                m.from = r /\ m.to = s.votedFor /\ m.term = s.term

--------------------------------------------------------------------------------

\* Messages sent join the wire.
LEMMA SentOnWire ==
    ASSUME NEW left, NEW messages
    PROVE  BagToSet(left (+) SetToBag(messages)) = BagToSet(left) \cup messages
BY DEF BagToSet, (+), SetToBag

\* A message received leaves the wire, or one copy of it does.
LEMMA ReceivedOffWire ==
    ASSUME NEW m
    PROVE  BagToSet(Without(m)) \subseteq BagToSet(wire)
BY DEF Without, BagToSet, (-)

\* Two majorities have a replica in common.
LEMMA MajoritiesMeet ==
    ASSUME NEW P \in SUBSET Replica, NEW Q \in SUBSET Replica,
           Cardinality(P) >= Majority, Cardinality(Q) >= Majority
    PROVE  P \cap Q # {}
<1>1. IsFiniteSet(Replica)
  BY ReplogAssumption
<1>2. IsFiniteSet(P) /\ IsFiniteSet(Q)
  BY <1>1, FS_Subset
<1>3. Cardinality(P) \in Nat /\ Cardinality(Q) \in Nat /\ Cardinality(Replica) \in Nat
  BY <1>1, <1>2, FS_CardinalityType
<1>4. Cardinality(P) + Cardinality(Q) > Cardinality(Replica)
  BY <1>3 DEF Majority
<1> QED
  BY <1>1, <1>4, FS_MajoritiesIntersect

\* Whoever led one term is one replica.
LEMMA VotingImpliesOneLeader ==
    Voting => OneLeaderATerm
<1> SUFFICES ASSUME Voting,
                    NEW q \in Replica, NEW r \in Replica, q # r,
                    NEW term \in replicas[q].led, term \in replicas[r].led
             PROVE  FALSE
  BY DEF OneLeaderATerm
<1>1. PICK P \in SUBSET Replica :
         Cardinality(P) >= Majority /\ \A v \in P \ {q} : Gave(yeses, v, q, term)
  BY DEF Voting, LeadersElected, Elected
<1>2. PICK Q \in SUBSET Replica :
         Cardinality(Q) >= Majority /\ \A v \in Q \ {r} : Gave(yeses, v, r, term)
  BY DEF Voting, LeadersElected, Elected
<1>3. PICK v \in P : v \in Q
  BY <1>1, <1>2, MajoritiesMeet
<1>4. ~ Gave(yeses, q, r, term) /\ ~ Gave(yeses, r, q, term)
  BY DEF Voting, LeadersElected, Gave
<1>5. v # q /\ v # r
  BY <1>1, <1>2, <1>3, <1>4
<1>6. Gave(yeses, v, q, term) /\ Gave(yeses, v, r, term)
  BY <1>1, <1>2, <1>3, <1>5
<1> QED
  BY <1>6 DEF Gave, Voting, OneYesATerm

\* A yes said is never taken back.
LEMMA GaveStays ==
    ASSUME NEW r, NEW v, NEW term, yeses \subseteq yeses', Gave(yeses, v, r, term)
    PROVE  Gave(yeses', v, r, term)
BY DEF Gave

\* An election won stays won.
LEMMA ElectedStays ==
    ASSUME NEW r, NEW term, yeses \subseteq yeses', Elected(yeses, r, term)
    PROVE  Elected(yeses', r, term)
<1>1. PICK Q \in SUBSET Replica :
         Cardinality(Q) >= Majority /\ \A v \in Q \ {r} : Gave(yeses, v, r, term)
  BY DEF Elected
<1>2. \A v \in Q \ {r} : Gave(yeses', v, r, term)
  BY <1>1, GaveStays
<1> QED
  BY <1>1, <1>2 DEF Elected, Majority

\* A fair step keeps the invariant.
LEMMA FairStepKeepsVoting ==
    ASSUME Voting, NEW r \in Replica, NEW s, NEW messages, NEW left,
           Fair(r, s, messages), BagToSet(left) \subseteq BagToSet(wire),
           Becomes(r, s, messages, left)
    PROVE  Voting'
<1>1. /\ replicas'[r] = s
      /\ DOMAIN replicas' = Replica
      /\ \A q \in Replica \ {r} : replicas'[q] = replicas[q]
  BY DEF Becomes, Voting, ReplicasTyped
<1>2. yeses' = yeses \cup Yeses(messages)
  BY DEF Becomes
<1>3. yeses \subseteq yeses'
  BY <1>2
<1>4. BagToSet(wire') \subseteq BagToSet(wire) \cup messages
  BY SentOnWire DEF Becomes
<1>5. \A y \in yeses' : y.kind = "Vote" =>
         \/ y \in yeses
         \/ /\ y \in messages /\ y.granted /\ Sensible(y)
            /\ y.from = r /\ y.to = s.votedFor /\ y.term = s.term
  BY <1>2 DEF Yeses, Fair
<1>6. s.term \in Nat /\ replicas[r].term \in Nat /\ s.term >= replicas[r].term
  BY DEF Fair, Voting, ReplicasTyped
<1>7. s.term = replicas[r].term =>
         s.votedFor = replicas[r].votedFor \/ replicas[r].votedFor = Nobody
  BY DEF Fair
<1>8. ReplicasTyped'
  <2>1. \A q \in Replica \ {r} :
           /\ VotingFields \subseteq DOMAIN replicas[q]
           /\ replicas[q].term \in Nat
           /\ replicas[q].votes \subseteq Replica
           /\ replicas[q].led \subseteq Nat
    BY DEF Voting, ReplicasTyped
  <2>2. s.led \subseteq Nat
    BY DEF Fair, Voting, ReplicasTyped
  <2>3. VotingFields \subseteq DOMAIN s /\ s.term \in Nat /\ s.votes \subseteq Replica
    BY DEF Fair
  <2> QED
    BY <1>1, <2>1, <2>2, <2>3 DEF ReplicasTyped
<1>9. WireSensible'
  <2> SUFFICES ASSUME NEW m \in BagToSet(wire')
               PROVE  Sensible(m) /\ (m.kind = "Vote" /\ m.granted => m \in yeses')
    BY DEF WireSensible
  <2>1. CASE m \in BagToSet(wire)
    BY <2>1, <1>3 DEF Voting, WireSensible
  <2>2. CASE m \in messages
    BY <2>2, <1>2 DEF Fair, Yeses
  <2> QED
    BY <1>4, <2>1, <2>2
<1>10. VotesSpent'
  <2> SUFFICES ASSUME NEW y \in yeses', y.kind = "Vote"
               PROVE  /\ y.from \in Replica /\ y.to \in Replica \ {y.from} /\ y.term \in Nat
                      /\ \/ replicas'[y.from].term > y.term
                         \/ /\ replicas'[y.from].term = y.term
                            /\ replicas'[y.from].votedFor = y.to
    BY DEF VotesSpent
  <2>1. CASE y \in yeses
    <3>1. /\ y.from \in Replica /\ y.to \in Replica \ {y.from} /\ y.term \in Nat
          /\ \/ replicas[y.from].term > y.term
             \/ replicas[y.from].term = y.term /\ replicas[y.from].votedFor = y.to
      BY <2>1 DEF Voting, VotesSpent
    <3>2. CASE y.from # r
      BY <3>1, <3>2, <1>1
    <3>3. CASE y.from = r
      <4>1. y.to # Nobody
        BY <3>1, ReplogAssumption
      <4> QED
        BY <3>1, <3>3, <4>1, <1>1, <1>6, <1>7
    <3> QED
      BY <3>2, <3>3
  <2>2. CASE y \notin yeses
    <3>1. y.from = r /\ y.to = s.votedFor /\ y.term = s.term /\ Sensible(y)
      BY <2>2, <1>5
    <3>2. y.to \in Replica /\ y.from # y.to
      BY <3>1 DEF Sensible
    <3> QED
      BY <3>1, <3>2, <1>1, <1>6
  <2> QED
    BY <2>1, <2>2
<1>11. OneYesATerm'
  <2>1. \A x \in yeses, y \in yeses' \ yeses :
           x.kind = "Vote" /\ y.kind = "Vote" /\ x.from = y.from /\ x.term = y.term =>
              x.to = y.to
    <3> SUFFICES ASSUME NEW x \in yeses, NEW y \in yeses' \ yeses,
                        x.kind = "Vote", y.kind = "Vote", x.from = y.from, x.term = y.term
                 PROVE  x.to = y.to
      OBVIOUS
    <3>1. y.from = r /\ y.to = s.votedFor /\ y.term = s.term
      BY <1>5
    <3>2. /\ x.to \in Replica
          /\ \/ replicas[r].term > x.term
             \/ replicas[r].term = x.term /\ replicas[r].votedFor = x.to
      BY <3>1 DEF Voting, VotesSpent
    <3>3. replicas[r].term = s.term /\ replicas[r].votedFor = x.to
      BY <3>1, <3>2, <1>6
    <3> QED
      BY <3>1, <3>2, <3>3, <1>7, ReplogAssumption
  <2>2. \A x, y \in yeses' \ yeses :
           x.kind = "Vote" /\ y.kind = "Vote" => x.to = y.to
    BY <1>5
  <2>3. \A x, y \in yeses :
           x.kind = "Vote" /\ y.kind = "Vote" /\ x.from = y.from /\ x.term = y.term =>
              x.to = y.to
    BY DEF Voting, OneYesATerm
  <2> QED
    BY <2>1, <2>2, <2>3 DEF OneYesATerm
<1>12. CandidatesCountVotes'
  <2> SUFFICES ASSUME NEW q \in Replica, replicas'[q].role = "candidate"
               PROVE  /\ replicas'[q].votedFor = q
                      /\ \A v \in replicas'[q].votes \ {q} : Gave(yeses', v, q, replicas'[q].term)
    BY DEF CandidatesCountVotes
  <2>1. CASE q = r
    <3>1. s.votedFor = r /\ \A v \in s.votes \ {r} : Gave(yeses, v, r, s.term)
      BY <2>1, <1>1 DEF Fair
    <3>2. \A v \in s.votes \ {r} : Gave(yeses', v, r, s.term)
      BY <3>1, <1>3, GaveStays
    <3> QED
      BY <2>1, <1>1, <3>1, <3>2
  <2>2. CASE q # r
    <3>1. /\ replicas[q].votedFor = q
          /\ \A v \in replicas[q].votes \ {q} : Gave(yeses, v, q, replicas[q].term)
      BY <2>2, <1>1 DEF Voting, CandidatesCountVotes
    <3>2. \A v \in replicas[q].votes \ {q} : Gave(yeses', v, q, replicas[q].term)
      BY <3>1, <1>3, GaveStays
    <3> QED
      BY <2>2, <1>1, <3>1, <3>2
  <2> QED
    BY <2>1, <2>2
<1>13. LeadersElected'
  <2> SUFFICES ASSUME NEW q \in Replica, NEW term \in replicas'[q].led
               PROVE  /\ \/ replicas'[q].term > term
                         \/ replicas'[q].term = term /\ replicas'[q].votedFor = q
                      /\ \A y \in yeses' : y.kind = "Vote" /\ y.from = q => y.term # term
                      /\ Elected(yeses', q, term)
    BY DEF LeadersElected
  <2>1. CASE term \in replicas[q].led
    <3>1. /\ \/ replicas[q].term > term
             \/ replicas[q].term = term /\ replicas[q].votedFor = q
          /\ \A y \in yeses : y.kind = "Vote" /\ y.from = q => y.term # term
          /\ Elected(yeses, q, term)
      BY <2>1 DEF Voting, LeadersElected
    <3>2. term \in Nat
      BY <2>1 DEF Voting, ReplicasTyped
    <3>3. \/ replicas'[q].term > term
          \/ replicas'[q].term = term /\ replicas'[q].votedFor = q
      <4>1. CASE q = r
        <5>1. q # Nobody
          BY ReplogAssumption
        <5> QED
          BY <4>1, <5>1, <3>1, <3>2, <1>1, <1>6, <1>7
      <4>2. CASE q # r
        BY <4>2, <3>1, <1>1
      <4> QED
        BY <4>1, <4>2
    <3>4. \A y \in yeses' : y.kind = "Vote" /\ y.from = q => y.term # term
      <4> SUFFICES ASSUME NEW y \in yeses', y.kind = "Vote", y.from = q, y.term = term
                   PROVE  FALSE
        OBVIOUS
      <4>1. y \notin yeses
        BY <3>1
      <4>2. y.from = r /\ y.to = s.votedFor /\ y.term = s.term /\ Sensible(y)
        BY <4>1, <1>5
      <4>3. y.to \in Replica /\ y.to # q
        BY <4>2 DEF Sensible
      <4> QED
        BY <4>2, <4>3, <3>2, <3>3, <1>1, <1>6
    <3> QED
      BY <3>1, <3>3, <3>4, <1>3, ElectedStays
  <2>2. CASE term \notin replicas[q].led
    <3>1. q = r
      BY <2>2, <1>1
    <3>2. term = s.term /\ s.votedFor = r /\ Elected(yeses, r, s.term)
      BY <3>1, <2>2, <1>1 DEF Fair
    <3>3. \A y \in yeses' : y.kind = "Vote" /\ y.from = r => y.term # term
      <4> SUFFICES ASSUME NEW y \in yeses', y.kind = "Vote", y.from = r, y.term = term
                   PROVE  FALSE
        OBVIOUS
      <4>1. /\ y.to \in Replica \ {r}
            /\ \/ replicas'[r].term > y.term
               \/ replicas'[r].term = y.term /\ replicas'[r].votedFor = y.to
        BY <1>10 DEF VotesSpent
      <4> QED
        BY <4>1, <3>2, <1>1, <1>6
    <3> QED
      BY <3>1, <3>2, <3>3, <1>1, <1>3, ElectedStays
  <2> QED
    BY <2>1, <2>2
<1> QED
  BY <1>8, <1>9, <1>10, <1>11, <1>12, <1>13 DEF Voting

--------------------------------------------------------------------------------
(* What the handlers owe to the votes. *)

\* Taking a later term gives up any candidacy, and the vote with it.
LEMMA AdoptedVotes ==
    ASSUME NEW s, NEW term \in Nat, VotingFields \subseteq DOMAIN s, s.term \in Nat,
           NEW a, a = Adopted(s, term)
    PROVE  /\ VotingFields \subseteq DOMAIN a
           /\ a.term \in Nat /\ a.term >= s.term /\ a.term >= term
           /\ a.led = s.led
           /\ a.votes = s.votes \/ a.votes = {}
           /\ a.term = s.term => a = s
           /\ a.role = "candidate" => a = s
<1>1. CASE term <= s.term
  BY <1>1 DEF Adopted
<1>2. CASE ~ (term <= s.term)
  <2>1. CASE s.role = "follower"
    BY <1>2, <2>1 DEF Adopted, VotingFields
  <2>2. CASE s.role # "follower"
    BY <1>2, <2>2 DEF Adopted, VotingFields
  <2> QED
    BY <2>1, <2>2
<1> QED
  BY <1>1, <1>2

\* A replica that does what `s` says about votes, being already there.
Quiet(s, a) ==
    /\ VotingFields \subseteq DOMAIN a
    /\ a.term = s.term /\ a.votedFor = s.votedFor /\ a.led = s.led
    /\ a.votes = s.votes \/ a.votes = {}
    /\ a.role = "candidate" => s.role = "candidate"

\* A replica may take the term of what it hears and carry on, as long as it says yes
\* to no vote.
LEMMA QuietIsFair ==
    ASSUME Voting, NEW r \in Replica, NEW term \in Nat, NEW s, NEW messages,
           Quiet(Adopted(replicas[r], term), s),
           \A m \in messages : Sensible(m) /\ ~ (m.kind = "Vote" /\ m.granted)
    PROVE  Fair(r, s, messages)
<1> DEFINE a == Adopted(replicas[r], term)
<1>1. /\ VotingFields \subseteq DOMAIN replicas[r]
      /\ replicas[r].term \in Nat
      /\ replicas[r].votes \subseteq Replica
  BY DEF Voting, ReplicasTyped
<1>2. /\ a.term \in Nat /\ a.term >= replicas[r].term
      /\ a.led = replicas[r].led
      /\ a.votes = replicas[r].votes \/ a.votes = {}
      /\ a.term = replicas[r].term => a = replicas[r]
      /\ a.role = "candidate" => a = replicas[r]
  BY <1>1, AdoptedVotes
<1>3. /\ VotingFields \subseteq DOMAIN s
      /\ s.term = a.term /\ s.votedFor = a.votedFor /\ s.led = a.led
      /\ s.votes = a.votes \/ s.votes = {}
      /\ s.role = "candidate" => a.role = "candidate"
  BY DEF Quiet
<1> HIDE DEF a
<1>4. s.role = "candidate" =>
         s.votedFor = r /\ \A v \in s.votes \ {r} : Gave(yeses, v, r, s.term)
  <2> SUFFICES ASSUME s.role = "candidate"
               PROVE  s.votedFor = r /\ \A v \in s.votes \ {r} : Gave(yeses, v, r, s.term)
    OBVIOUS
  <2>1. a = replicas[r] /\ a.role = "candidate"
    BY <1>2, <1>3
  <2>2. a.votedFor = r /\ \A v \in a.votes \ {r} : Gave(yeses, v, r, a.term)
    BY <2>1 DEF Voting, CandidatesCountVotes
  <2> QED
    BY <2>2, <1>3
<1>5. s.term \in Nat /\ s.term >= replicas[r].term /\ s.votes \subseteq Replica
  BY <1>1, <1>2, <1>3
<1>6. s.term = replicas[r].term => s.votedFor = replicas[r].votedFor
  BY <1>2, <1>3
<1>7. s.led = replicas[r].led
  BY <1>2, <1>3
<1> QED
  BY <1>3, <1>4, <1>5, <1>6, <1>7 DEF Fair

\* The same for a replica that takes no term.
LEMMA QuietHereIsFair ==
    ASSUME Voting, NEW r \in Replica, NEW s, NEW messages, Quiet(replicas[r], s),
           \A m \in messages : Sensible(m) /\ ~ (m.kind = "Vote" /\ m.granted)
    PROVE  Fair(r, s, messages)
<1>1. replicas[r].term \in Nat
  BY DEF Voting, ReplicasTyped
<1>2. Adopted(replicas[r], replicas[r].term) = replicas[r]
  BY <1>1 DEF Adopted
<1> QED
  BY <1>1, <1>2, QuietIsFair

\* A fair answer to a message keeps the invariant.
LEMMA FairAnswerKeepsVoting ==
    ASSUME Voting, NEW m \in BagToSet(wire), m.to \in Replica, NEW s, NEW messages,
           Fair(m.to, s, messages), Answers(m, s, messages)
    PROVE  Voting'
BY FairStepKeepsVoting, ReceivedOffWire DEF Answers

\* Whatever `on_append` finds, the replica becomes one of four things and answers once.
LEMMA AppendOutcomes ==
    ASSUME NEW m, OnAppend(m)
    PROVE  LET s == Adopted(replicas[m.to], m.term)
               following == Following(s, m)
               taken == [following EXCEPT !.log = Taken(@, m.prev.index, m.entries)]
           IN  \E became \in {s, following, taken, Applied(taken, Vouched(m))} : \E matched :
                  Answers(m, became, Answered(m, s.term, matched))
<1> DEFINE s == Adopted(replicas[m.to], m.term)
           following == Following(s, m)
           taken == [following EXCEPT !.log = Taken(@, m.prev.index, m.entries)]
           reached == Applied(taken, Vouched(m))
           atEnd == m.prev.index + Len(m.entries)
<1>1. \/ Answers(m, s, Answered(m, s.term, Unmatched))
      \/ Answers(m, following, Answered(m, s.term, Unmatched))
      \/ Answers(m, IF Vouched(m) > s.commit THEN reached ELSE taken, Answered(m, s.term, atEnd))
  BY DEF OnAppend
<1>2. \E became \in {s, following, taken, reached} : \E matched :
         Answers(m, became, Answered(m, s.term, matched))
  <2> HIDE DEF s, following, taken, reached, atEnd
  <2> QED
    BY <1>1
<1> QED
  BY <1>2

\* Copies of the log are sensible, and say nothing about votes.
LEMMA CopySensible ==
    ASSUME NEW r \in Replica, NEW p \in Replica \ {r}, NEW s, s.term \in Nat
    PROVE  Sensible(CopyFor(r, s, p)) /\ CopyFor(r, s, p).kind = "Append"
<1>1. PICK prev, entries :
         CopyFor(r, s, p) =
           [kind |-> "Append", from |-> r, to |-> p, term |-> s.term, prev |-> prev,
            entries |-> entries, commit |-> s.commit]
  BY DEF CopyFor
<1> QED
  BY <1>1 DEF Sensible

LEMMA CopiesSensible ==
    ASSUME NEW r \in Replica, NEW s, s.term \in Nat
    PROVE  \A m \in CopyToEveryone(r, s) : Sensible(m) /\ ~ (m.kind = "Vote" /\ m.granted)
BY CopySensible DEF CopyToEveryone

LEMMA TimerKeepsVoting ==
    ASSUME Voting, NEW r \in Replica, OnTimer(r)
    PROVE  Voting'
<1> DEFINE s == replicas[r]
<1>1. VotingFields \subseteq DOMAIN s /\ s.term \in Nat
  BY DEF Voting, ReplicasTyped
<1>2. CASE Becomes(r, s, CopyToEveryone(r, s), wire)
  <2>1. Quiet(s, s)
    BY <1>1 DEF Quiet
  <2>2. \A m \in CopyToEveryone(r, s) : Sensible(m) /\ ~ (m.kind = "Vote" /\ m.granted)
    BY <1>1, CopiesSensible
  <2>3. Fair(r, s, CopyToEveryone(r, s))
    BY <2>1, <2>2, QuietHereIsFair
  <2> QED
    BY <1>2, <2>3, FairStepKeepsVoting
<1>3. CASE Becomes(r, [s EXCEPT !.leader = Nobody, !.prevotes = {r}], PreVotes(r, s), wire)
  <2> DEFINE asking == [s EXCEPT !.leader = Nobody, !.prevotes = {r}]
  <2>1. Quiet(s, asking)
    BY <1>1 DEF Quiet, VotingFields
  <2>2. \A m \in PreVotes(r, s) : Sensible(m) /\ ~ (m.kind = "Vote" /\ m.granted)
    BY DEF PreVotes, Sensible
  <2>3. Fair(r, asking, PreVotes(r, s))
    BY <2>1, <2>2, QuietHereIsFair
  <2> QED
    BY <1>3, <2>3, FairStepKeepsVoting
<1> QED
  BY <1>2, <1>3 DEF OnTimer

LEMMA PreVoteKeepsVoting ==
    ASSUME Voting, NEW m \in BagToSet(wire), OnPreVote(m)
    PROVE  Voting'
<1>1. m.to \in Replica /\ m.from \in Replica \ {m.to}
  BY DEF OnPreVote, Voting, WireSensible, Sensible
<1> DEFINE s == replicas[m.to]
<1>2. VotingFields \subseteq DOMAIN s /\ s.term \in Nat
  BY <1>1 DEF Voting, ReplicasTyped
<1>3. PICK granted : Answers(m, s,
         {[kind |-> "PreVoted", from |-> m.to, to |-> m.from, term |-> s.term,
           proposed |-> m.proposed, granted |-> granted]})
  BY DEF OnPreVote
<1> DEFINE answer == {[kind |-> "PreVoted", from |-> m.to, to |-> m.from, term |-> s.term,
                       proposed |-> m.proposed, granted |-> granted]}
<1>4. Quiet(s, s)
  BY <1>2 DEF Quiet
<1>5. \A n \in answer : Sensible(n) /\ ~ (n.kind = "Vote" /\ n.granted)
  BY <1>1, <1>2 DEF Sensible
<1>6. Fair(m.to, s, answer)
  BY <1>1, <1>4, <1>5, QuietHereIsFair
<1> QED
  BY <1>1, <1>3, <1>6, FairAnswerKeepsVoting

LEMMA PreVotedKeepsVoting ==
    ASSUME Voting, NEW m \in BagToSet(wire), OnPreVoted(m)
    PROVE  Voting'
<1>1. m.to \in Replica /\ m.from \in Replica \ {m.to} /\ m.term \in Nat
  BY DEF OnPreVoted, Voting, WireSensible, Sensible
<1> DEFINE r == m.to
           s == Adopted(replicas[r], m.term)
           asked == [s EXCEPT !.prevotes = @ \cup {m.from}]
           standing == Standing(r, [asked EXCEPT !.prevotes = {}])
<1>2. /\ VotingFields \subseteq DOMAIN replicas[r]
      /\ replicas[r].term \in Nat
      /\ replicas[r].votes \subseteq Replica
  BY <1>1 DEF Voting, ReplicasTyped
<1>3. /\ VotingFields \subseteq DOMAIN s
      /\ s.term \in Nat /\ s.term >= replicas[r].term
      /\ s.led = replicas[r].led
  BY <1>1, <1>2, AdoptedVotes
<1>4. CASE Answers(m, s, {})
  <2>1. Quiet(s, s)
    BY <1>3 DEF Quiet
  <2>2. Fair(r, s, {})
    BY <1>1, <2>1, QuietIsFair
  <2> QED
    BY <1>1, <1>4, <2>2, FairAnswerKeepsVoting
<1>5. CASE Answers(m, asked, {})
  <2>1. Quiet(s, asked)
    BY <1>3 DEF Quiet, VotingFields
  <2>2. Fair(r, asked, {})
    BY <1>1, <2>1, QuietIsFair
  <2> QED
    BY <1>1, <1>5, <2>2, FairAnswerKeepsVoting
<1>6. CASE Answers(m, standing, RequestVotes(r, standing))
  <2>1. /\ VotingFields \subseteq DOMAIN standing
        /\ standing.term = s.term + 1
        /\ standing.votedFor = r /\ standing.votes = {r}
        /\ standing.led = s.led
    BY <1>3 DEF Standing, VotingFields
  <2> HIDE DEF standing
  <2>2. standing.term \in Nat /\ standing.term > replicas[r].term
    BY <2>1, <1>2, <1>3
  <2>3. \A n \in RequestVotes(r, standing) :
           Sensible(n) /\ ~ (n.kind = "Vote" /\ n.granted)
    BY <1>1, <2>2 DEF RequestVotes, Sensible
  <2>4. Fair(r, standing, RequestVotes(r, standing))
    BY <1>1, <1>2, <1>3, <2>1, <2>2, <2>3 DEF Fair
  <2> QED
    BY <1>1, <1>6, <2>4, FairAnswerKeepsVoting
<1> QED
  BY <1>4, <1>5, <1>6 DEF OnPreVoted

LEMMA RequestVoteKeepsVoting ==
    ASSUME Voting, NEW m \in BagToSet(wire), OnRequestVote(m)
    PROVE  Voting'
<1>1. m.to \in Replica /\ m.from \in Replica \ {m.to} /\ m.term \in Nat
  BY DEF OnRequestVote, Voting, WireSensible, Sensible
<1> DEFINE r == m.to
           s == Adopted(replicas[r], m.term)
           voted == [s EXCEPT !.votedFor = m.from]
           answer(granted) == {[kind |-> "Vote", from |-> r, to |-> m.from, term |-> s.term,
                                granted |-> granted]}
<1>2. /\ VotingFields \subseteq DOMAIN replicas[r]
      /\ replicas[r].term \in Nat
      /\ replicas[r].votes \subseteq Replica
  BY <1>1 DEF Voting, ReplicasTyped
<1>3. /\ VotingFields \subseteq DOMAIN s
      /\ s.term \in Nat /\ s.term >= replicas[r].term
      /\ s.led = replicas[r].led
      /\ s.votes = replicas[r].votes \/ s.votes = {}
      /\ s.term = replicas[r].term => s = replicas[r]
      /\ s.role = "candidate" => s = replicas[r]
  BY <1>1, <1>2, AdoptedVotes
<1>4. CASE VoteFor(s, m)
  <2>1. Answers(m, voted, answer(TRUE))
    BY <1>4 DEF OnRequestVote
  <2>2. /\ VotingFields \subseteq DOMAIN voted
        /\ voted.term = s.term /\ voted.role = s.role /\ voted.votedFor = m.from
        /\ voted.votes = s.votes /\ voted.led = s.led
    BY <1>3 DEF VotingFields
  <2>3. s.votedFor = Nobody \/ s.votedFor = m.from
    BY <1>4 DEF VoteFor
  <2>4. \A n \in answer(TRUE) :
           Sensible(n) /\ n.from = r /\ n.to = voted.votedFor /\ n.term = voted.term
    BY <1>1, <1>3, <2>2 DEF Sensible
  <2>5. s.role # "candidate"
    <3> SUFFICES ASSUME s.role = "candidate"
                 PROVE  FALSE
      OBVIOUS
    <3>1. s = replicas[r]
      BY <1>3
    <3>2. s.votedFor = r
      BY <1>1, <3>1 DEF Voting, CandidatesCountVotes
    <3> QED
      BY <3>2, <2>3, <1>1, ReplogAssumption
  <2> HIDE DEF voted, s
  <2>6. voted.term = replicas[r].term =>
           voted.votedFor = replicas[r].votedFor \/ replicas[r].votedFor = Nobody
    BY <2>2, <2>3, <1>3
  <2>7. Fair(r, voted, answer(TRUE))
    BY <1>2, <1>3, <2>2, <2>4, <2>5, <2>6 DEF Fair
  <2> QED
    BY <1>1, <2>1, <2>7, FairAnswerKeepsVoting
<1>5. CASE ~ VoteFor(s, m)
  <2> HIDE DEF s
  <2>0. VoteFor(s, m) = FALSE
    BY <1>5 DEF VoteFor
  <2>1. Answers(m, s, answer(FALSE))
    BY <1>5, <2>0 DEF OnRequestVote, s
  <2>2. Quiet(s, s)
    BY <1>3 DEF Quiet
  <2>3. \A n \in answer(FALSE) : Sensible(n) /\ ~ (n.kind = "Vote" /\ n.granted)
    BY <1>1, <1>3 DEF Sensible
  <2>4. Fair(r, s, answer(FALSE))
    BY <1>1, <2>2, <2>3, QuietIsFair DEF s
  <2> QED
    BY <1>1, <2>1, <2>4, FairAnswerKeepsVoting
<1> QED
  BY <1>4, <1>5

LEMMA VoteKeepsVoting ==
    ASSUME Voting, NEW m \in BagToSet(wire), OnVote(m)
    PROVE  Voting'
<1>1. m.to \in Replica /\ m.from \in Replica \ {m.to} /\ m.term \in Nat
  BY DEF OnVote, Voting, WireSensible, Sensible
<1> DEFINE r == m.to
           s == Adopted(replicas[r], m.term)
           voted == [s EXCEPT !.votes = @ \cup {m.from}]
           leading == Leading(r, voted)
<1>2. /\ VotingFields \subseteq DOMAIN replicas[r]
      /\ replicas[r].term \in Nat
      /\ replicas[r].votes \subseteq Replica
  BY <1>1 DEF Voting, ReplicasTyped
<1>3. /\ VotingFields \subseteq DOMAIN s
      /\ s.term \in Nat /\ s.term >= replicas[r].term
      /\ s.led = replicas[r].led
      /\ s.role = "candidate" => s = replicas[r]
  BY <1>1, <1>2, AdoptedVotes
<1>4. CASE Answers(m, s, {})
  <2>1. Quiet(s, s)
    BY <1>3 DEF Quiet
  <2>2. Fair(r, s, {})
    BY <1>1, <2>1, QuietIsFair
  <2> QED
    BY <1>1, <1>4, <2>2, FairAnswerKeepsVoting
<1>5. CASE s.role = "candidate" /\ m.term = s.term /\ m.granted
  <2> HIDE DEF s
  <2>1. s = replicas[r]
    BY <1>3, <1>5
  <2>2. s.votedFor = r /\ \A v \in s.votes \ {r} : Gave(yeses, v, r, s.term)
    BY <1>1, <1>5, <2>1 DEF Voting, CandidatesCountVotes
  <2>3. m.kind = "Vote" /\ m \in yeses
    BY <1>5 DEF OnVote, Voting, WireSensible
  <2>4. Gave(yeses, m.from, r, s.term)
    BY <1>5, <2>3 DEF Gave
  <2>5. /\ VotingFields \subseteq DOMAIN voted
        /\ voted.term = s.term /\ voted.votedFor = r
        /\ voted.votes = s.votes \cup {m.from} /\ voted.led = s.led
    BY <1>3, <2>2 DEF VotingFields
  <2>6. voted.votes \subseteq Replica /\ \A v \in voted.votes \ {r} : Gave(yeses, v, r, s.term)
    BY <1>1, <1>2, <2>1, <2>2, <2>4, <2>5
  <2> HIDE DEF voted
  <2>7. CASE Answers(m, voted, {})
    <3>1. Fair(r, voted, {})
      BY <1>2, <1>3, <2>1, <2>2, <2>5, <2>6 DEF Fair
    <3> QED
      BY <1>1, <2>7, <3>1, FairAnswerKeepsVoting
  <2>8. CASE /\ Cardinality(voted.votes) >= Majority
             /\ Answers(m, leading, CopyToEveryone(r, leading))
    <3>1. Elected(yeses, r, s.term)
      BY <2>6, <2>8 DEF Elected
    <3>2. /\ VotingFields \subseteq DOMAIN leading
          /\ leading.term = voted.term /\ leading.role = "leader"
          /\ leading.votedFor = voted.votedFor /\ leading.votes = {}
          /\ leading.led = voted.led \cup {voted.term}
      BY <2>5 DEF Leading, VotingFields
    <3> HIDE DEF leading
    <3>3. \A n \in CopyToEveryone(r, leading) :
             Sensible(n) /\ ~ (n.kind = "Vote" /\ n.granted)
      BY <1>1, <1>3, <2>5, <3>2, CopiesSensible
    <3>4. Fair(r, leading, CopyToEveryone(r, leading))
      BY <1>2, <1>3, <2>1, <2>2, <2>5, <3>1, <3>2, <3>3 DEF Fair
    <3> QED
      BY <1>1, <2>8, <3>4, FairAnswerKeepsVoting
  <2> QED
    BY <1>4, <1>5, <2>7, <2>8 DEF OnVote, s, voted
<1> QED
  BY <1>4, <1>5 DEF OnVote

LEMMA AppendKeepsVoting ==
    ASSUME Voting, NEW m \in BagToSet(wire), OnAppend(m)
    PROVE  Voting'
<1>1. m.to \in Replica /\ m.from \in Replica \ {m.to} /\ m.term \in Nat
  BY DEF OnAppend, Voting, WireSensible, Sensible
<1> DEFINE r == m.to
           s == Adopted(replicas[r], m.term)
           following == Following(s, m)
           taken == [following EXCEPT !.log = Taken(@, m.prev.index, m.entries)]
<1>2. /\ VotingFields \subseteq DOMAIN replicas[r]
      /\ replicas[r].term \in Nat
  BY <1>1 DEF Voting, ReplicasTyped
<1>3. VotingFields \subseteq DOMAIN s /\ s.term \in Nat
  BY <1>1, <1>2, AdoptedVotes
<1>4. Quiet(s, s)
  BY <1>3 DEF Quiet
<1>5. Quiet(s, following)
  BY <1>3 DEF Quiet, Following, VotingFields
<1>6. Quiet(s, taken)
  BY <1>5 DEF Quiet, VotingFields
<1>7. Quiet(s, Applied(taken, Vouched(m)))
  BY <1>6 DEF Quiet, Applied, VotingFields
<1>8. PICK became, matched :
         /\ became \in {s, following, taken, Applied(taken, Vouched(m))}
         /\ Answers(m, became, Answered(m, s.term, matched))
  BY AppendOutcomes
<1>9. Quiet(s, became)
  BY <1>4, <1>5, <1>6, <1>7, <1>8
<1>10. \A n \in Answered(m, s.term, matched) :
          Sensible(n) /\ ~ (n.kind = "Vote" /\ n.granted)
  BY <1>1, <1>3 DEF Answered, Sensible
<1>11. Fair(r, became, Answered(m, s.term, matched))
  BY <1>1, <1>9, <1>10, QuietIsFair
<1> QED
  BY <1>1, <1>8, <1>11, FairAnswerKeepsVoting

LEMMA AppendedKeepsVoting ==
    ASSUME Voting, NEW m \in BagToSet(wire), OnAppended(m)
    PROVE  Voting'
<1>1. m.to \in Replica /\ m.from \in Replica \ {m.to} /\ m.term \in Nat
  BY DEF OnAppended, Voting, WireSensible, Sensible
<1> DEFINE r == m.to
           s == Adopted(replicas[r], m.term)
<1>2. /\ VotingFields \subseteq DOMAIN replicas[r]
      /\ replicas[r].term \in Nat
  BY <1>1 DEF Voting, ReplicasTyped
<1>3. VotingFields \subseteq DOMAIN s /\ s.term \in Nat
  BY <1>1, <1>2, AdoptedVotes
<1>4. CASE Answers(m, s, {})
  <2>1. Quiet(s, s)
    BY <1>3 DEF Quiet
  <2>2. Fair(r, s, {})
    BY <1>1, <2>1, QuietIsFair
  <2> QED
    BY <1>1, <1>4, <2>2, FairAnswerKeepsVoting
<1>5. CASE ~ Answers(m, s, {})
  <2> DEFINE held == IF m.matched # Unmatched /\ m.matched > s.matched[m.from]
                     THEN m.matched ELSE s.matched[m.from]
             next == IF m.matched # Unmatched THEN held + 1
                     ELSE SteppedBack(s.next[m.from])
             more == m.matched = Unmatched \/ next <= Len(s.log)
             heard == [s EXCEPT !.matched[m.from] = held, !.next[m.from] = next]
             messages == Confirmed(heard) \cup
                           IF more THEN {CopyFor(r, Advanced(heard), m.from)} ELSE {}
  <2>1. Answers(m, Advanced(heard), messages)
    BY <1>5 DEF OnAppended
  <2> HIDE DEF held, next, more
  <2>2. Quiet(s, heard)
    BY <1>3 DEF Quiet, VotingFields
  <2> HIDE DEF heard
  <2>3. Quiet(s, Advanced(heard))
    BY <2>2 DEF Quiet, Advanced, Applied, VotingFields
  <2>4. Advanced(heard).term \in Nat
    BY <1>3, <2>3 DEF Quiet
  <2>5. \A n \in messages : Sensible(n) /\ ~ (n.kind = "Vote" /\ n.granted)
    BY <1>1, <2>4, CopySensible DEF Confirmed, Sensible
  <2>6. Fair(r, Advanced(heard), messages)
    BY <1>1, <2>3, <2>5, QuietIsFair
  <2> QED
    BY <1>1, <2>1, <2>6, FairAnswerKeepsVoting
<1> QED
  BY <1>4, <1>5

LEMMA SubmitKeepsVoting ==
    ASSUME Voting, NEW m \in BagToSet(wire), OnSubmit(m) \/ PointElsewhere(m)
    PROVE  Voting'
<1>1. m.to \in Replica
  BY DEF OnSubmit, PointElsewhere, Voting, WireSensible, Sensible
<1> DEFINE r == m.to
           s == replicas[r]
           at == Len(s.log) + 1
           took == [s EXCEPT !.log = Append(@, [term |-> s.term, op |-> m.command]),
                             !.matched[r] = at,
                             !.pending = @ \cup {<<at, m.command>>}]
           kept == [s EXCEPT !.pending = @ \cup {<<HeldAt(s.log, m.command), m.command>>}]
           told == {[kind |-> "Submitted", command |-> m.command]}
<1>2. VotingFields \subseteq DOMAIN s /\ s.term \in Nat
  BY <1>1 DEF Voting, ReplicasTyped
<1>3. Quiet(s, s)
  BY <1>2 DEF Quiet
<1>4. Quiet(s, kept)
  BY <1>2 DEF Quiet, VotingFields
<1>5. Quiet(s, took)
  BY <1>2 DEF Quiet, VotingFields
<1>6. CASE Answers(m, s, {}) \/ Answers(m, s, told)
  <2>1. Fair(r, s, {}) /\ Fair(r, s, told)
    BY <1>1, <1>3, QuietHereIsFair DEF Sensible
  <2> QED
    BY <1>1, <1>6, <2>1, FairAnswerKeepsVoting
<1>7. CASE Answers(m, kept, {})
  <2>1. Fair(r, kept, {})
    BY <1>1, <1>4, QuietHereIsFair
  <2> QED
    BY <1>1, <1>7, <2>1, FairAnswerKeepsVoting
<1>8. CASE Answers(m, took, CopyToEveryone(r, took))
  <2> HIDE DEF took
  <2>1. took.term \in Nat
    BY <1>2, <1>5 DEF Quiet
  <2>2. \A n \in CopyToEveryone(r, took) : Sensible(n) /\ ~ (n.kind = "Vote" /\ n.granted)
    BY <1>1, <2>1, CopiesSensible
  <2>3. Fair(r, took, CopyToEveryone(r, took))
    BY <1>1, <1>5, <2>2, QuietHereIsFair
  <2> QED
    BY <1>1, <1>8, <2>3, FairAnswerKeepsVoting
<1> QED
  BY <1>6, <1>7, <1>8 DEF OnSubmit, PointElsewhere

\* Steps that say nothing about votes: a client's, or the loss of a message.
LEMMA OthersKeepVoting ==
    ASSUME Voting, UNCHANGED <<replicas, yeses>>,
           \A m \in BagToSet(wire') \ BagToSet(wire) : m.kind = "Submit" /\ m.to \in Replica
    PROVE  Voting'
<1>1. ReplicasTyped' /\ VotesSpent' /\ OneYesATerm'
  BY DEF Voting, ReplicasTyped, VotesSpent, OneYesATerm
<1>2. CandidatesCountVotes' /\ LeadersElected'
  BY DEF Voting, CandidatesCountVotes, LeadersElected, Gave, Elected
<1>3. WireSensible'
  BY DEF Voting, WireSensible, Sensible
<1> QED
  BY <1>1, <1>2, <1>3 DEF Voting

LEMMA ClientsKeepVoting ==
    ASSUME Voting, NEW c \in Client, NEW r \in Replica, Send(c, r) \/ Retry(c, r)
    PROVE  Voting'
<1>1. PICK command : Ask(r, command)
  BY DEF Send, Retry
<1>2. BagToSet(wire') = BagToSet(wire) \cup
                          {[kind |-> "Submit", to |-> r, command |-> command]}
  BY <1>1, SentOnWire DEF Ask
<1>3. \A m \in BagToSet(wire') \ BagToSet(wire) : m.kind = "Submit" /\ m.to \in Replica
  BY <1>2
<1>4. UNCHANGED <<replicas, yeses>>
  BY DEF Send, Retry
<1> QED
  BY <1>3, <1>4, OthersKeepVoting

\* Elections stay sound at every step, of a handler, a client or a fault.
LEMMA StepKeepsVoting ==
    ASSUME Voting, [Next]_vars
    PROVE  Voting'
<1>1. ASSUME NEW r \in Replica, OnTimer(r)
      PROVE  Voting'
  BY <1>1, TimerKeepsVoting
<1>2. ASSUME NEW m \in BagToSet(wire), Receive(m)
      PROVE  Voting'
  <2>1. CASE OnPreVote(m)
    BY <2>1, PreVoteKeepsVoting
  <2>2. CASE OnPreVoted(m)
    BY <2>2, PreVotedKeepsVoting
  <2>3. CASE OnRequestVote(m)
    BY <2>3, RequestVoteKeepsVoting
  <2>4. CASE OnVote(m)
    BY <2>4, VoteKeepsVoting
  <2>5. CASE OnAppend(m)
    BY <2>5, AppendKeepsVoting
  <2>6. CASE OnAppended(m)
    BY <2>6, AppendedKeepsVoting
  <2>7. CASE OnSubmit(m) \/ PointElsewhere(m)
    BY <2>7, SubmitKeepsVoting
  <2>8. CASE Hear(m)
    BY <2>8, ReceivedOffWire, OthersKeepVoting DEF Hear, BagToSet
  <2> QED
    BY <1>2, <2>1, <2>2, <2>3, <2>4, <2>5, <2>6, <2>7, <2>8 DEF Receive
<1>3. ASSUME NEW m \in BagToSet(wire), Cut(m)
      PROVE  Voting'
  BY <1>3, ReceivedOffWire, OthersKeepVoting DEF Cut, BagToSet
<1>4. ASSUME NEW c \in Client, NEW r \in Replica, Send(c, r) \/ Retry(c, r)
      PROVE  Voting'
  BY <1>4, ClientsKeepVoting
<1>5. CASE UNCHANGED vars
  BY <1>5, OthersKeepVoting DEF vars, BagToSet
<1> QED
  BY <1>1, <1>2, <1>3, <1>4, <1>5 DEF Next

LEMMA InitVoting ==
    Init => Voting
<1> SUFFICES ASSUME Init
             PROVE  Voting
  OBVIOUS
<1>1. ReplicasTyped /\ CandidatesCountVotes /\ LeadersElected
  BY DEF Init, Fresh, ReplicasTyped, CandidatesCountVotes, LeadersElected, VotingFields
<1>2. BagToSet(wire) = {}
  BY DEF Init, EmptyBag, SetToBag, BagToSet
<1>3. WireSensible /\ VotesSpent /\ OneYesATerm
  BY <1>2 DEF Init, WireSensible, VotesSpent, OneYesATerm
<1> QED
  BY <1>1, <1>3 DEF Voting

\* One leader a term, the promise `one_leader_a_term` judges a run by: however the
\* messages are delayed or cut off, no two replicas lead the same term.
THEOREM OneLeader ==
    Spec => []OneLeaderATerm
<1>1. Init => Voting
  BY InitVoting
<1>2. Voting /\ [Next]_vars => Voting'
  BY StepKeepsVoting
<1> QED
  BY <1>1, <1>2, VotingImpliesOneLeader, PTL DEF Spec

--------------------------------------------------------------------------------
(* Nobody stands without a majority's yes to its pre-vote.  What makes that *)
(* hard to see is that a yes may be late, and that a replica keeps the      *)
(* yeses it has counted when it takes a later term.  But it only ever       *)
(* counts a yes about the term after its own, and it asked about that term  *)
(* only once it had forgotten what it counted before.                       *)

\* The message asks whether r could stand in a term, or answers that.
AsksFor(m, r) ==
    \/ m.kind = "PreVote" /\ m.from = r
    \/ m.kind = "PreVoted" /\ m.to = r

\* Nobody is asked about r standing past a term.
AskedUpTo(r, term) ==
    \A m \in BagToSet(wire) : AsksFor(m, r) => m.proposed <= term

\* Replica v said that r could stand in a term.
Approved(v, r, term) ==
    \E y \in yeses :
       y.kind = "PreVoted" /\ y.from = v /\ y.to = r /\ y.proposed = term

Backed(r, term) ==
    Cardinality({r} \cup {v \in Replica : Approved(v, r, term)}) >= Majority

\* What a replica has counted are yeses about one term, the last it asked about.
CountsApprovals(r, s) ==
    /\ "prevotes" \in DOMAIN s /\ s.prevotes \subseteq Replica
    /\ \A v \in s.prevotes \ {r} :
          \E term \in Nat : term <= s.term + 1 /\ Approved(v, r, term) /\ AskedUpTo(r, term)

PreVoting ==
    /\ \A m \in BagToSet(wire) :
          /\ m.kind \in {"PreVote", "PreVoted"} => m.proposed \in Nat
          /\ m.kind = "PreVoted" /\ m.granted => m \in yeses
    /\ \A r \in Replica :
          CountsApprovals(r, replicas[r]) /\ AskedUpTo(r, replicas[r].term + 1)

\* What a step that makes replica r into s and sends `messages` owes to the pre-votes.
Polite(r, s, messages) ==
    /\ "prevotes" \in DOMAIN s /\ s.prevotes \subseteq Replica
    /\ s.term \in Nat /\ s.term >= replicas[r].term
    /\ \A v \in s.prevotes \ {r} :
          \/ v \in replicas[r].prevotes
          \/ Approved(v, r, s.term + 1)
    /\ s.role = "candidate" /\ s.term # replicas[r].term => Backed(r, s.term)
    /\ \A m \in messages :
          /\ m.kind = "PreVote" =>
                m.from = r /\ m.proposed = s.term + 1 /\ s.prevotes \subseteq {r}
          /\ m.kind = "PreVoted" =>
                \E n \in BagToSet(wire) :
                   n.kind = "PreVote" /\ n.from = m.to /\ n.proposed = m.proposed

\* What comes of it.
StandsBacked ==
    /\ PreVoting'
    /\ \A r \in Replica :
          replicas'[r].role = "candidate" /\ replicas'[r].term # replicas[r].term =>
             Backed(r, replicas'[r].term)

\* Those who approved stay those who did.
LEMMA ApprovedStays ==
    ASSUME NEW v, NEW r, NEW term, yeses \subseteq yeses', Approved(v, r, term)
    PROVE  Approved(v, r, term)'
BY DEF Approved

\* What is sent by a polite step asks for nobody past what is asked already, but for
\* who asks anew.
LEMMA PoliteAsks ==
    ASSUME NEW q, NEW r, NEW s, NEW messages, NEW term, Polite(r, s, messages),
           BagToSet(wire') \subseteq BagToSet(wire) \cup messages, AskedUpTo(q, term),
           q # r \/ ~ (s.prevotes \subseteq {r}) \/ term = s.term + 1
    PROVE  AskedUpTo(q, term)'
<1> SUFFICES ASSUME NEW m \in BagToSet(wire'), AsksFor(m, q)
             PROVE  m.proposed <= term
  BY DEF AskedUpTo
<1>1. CASE m \in BagToSet(wire)
  BY <1>1 DEF AskedUpTo
<1>2. CASE m \in messages /\ m.kind = "PreVote"
  <2>1. m.from = r /\ m.proposed = s.term + 1 /\ s.prevotes \subseteq {r} /\ m.from = q
    BY <1>2 DEF Polite, AsksFor
  <2> QED
    BY <2>1 DEF Polite
<1>3. CASE m \in messages /\ m.kind = "PreVoted"
  <2>1. PICK n \in BagToSet(wire) :
           n.kind = "PreVote" /\ n.from = m.to /\ n.proposed = m.proposed
    BY <1>3 DEF Polite
  <2>2. AsksFor(n, q)
    BY <1>3, <2>1 DEF AsksFor
  <2> QED
    BY <2>1, <2>2 DEF AskedUpTo
<1> QED
  BY <1>1, <1>2, <1>3 DEF AsksFor

\* A polite step keeps the invariant, and who stands by it is backed.
LEMMA PoliteStep ==
    ASSUME Voting, PreVoting, NEW r \in Replica, NEW s, NEW messages, NEW left,
           Polite(r, s, messages), BagToSet(left) \subseteq BagToSet(wire),
           Becomes(r, s, messages, left)
    PROVE  StandsBacked
<1>1. /\ replicas'[r] = s
      /\ \A q \in Replica \ {r} : replicas'[q] = replicas[q]
  BY DEF Becomes, Voting, ReplicasTyped
<1>2. yeses' = yeses \cup Yeses(messages)
  BY DEF Becomes
<1>3. BagToSet(wire') \subseteq BagToSet(wire) \cup messages
  BY SentOnWire DEF Becomes
<1>4. /\ s.term \in Nat /\ replicas[r].term \in Nat /\ s.term >= replicas[r].term
      /\ s.term + 1 \in Nat
  BY DEF Polite, Voting, ReplicasTyped
<1>5. ASSUME NEW m \in BagToSet(wire')
      PROVE  /\ m.kind \in {"PreVote", "PreVoted"} => m.proposed \in Nat
             /\ m.kind = "PreVoted" /\ m.granted => m \in yeses'
  <2>1. CASE m \in BagToSet(wire)
    BY <2>1, <1>2 DEF PreVoting
  <2>2. CASE m \in messages
    BY <2>2, <1>2, <1>4 DEF Polite, PreVoting, Yeses
  <2> QED
    BY <1>3, <2>1, <2>2
<1>6. AskedUpTo(r, s.term + 1)
  <2> SUFFICES ASSUME NEW m \in BagToSet(wire), AsksFor(m, r)
               PROVE  m.proposed <= s.term + 1
    BY DEF AskedUpTo
  <2>1. m.proposed \in Nat /\ m.proposed <= replicas[r].term + 1
    BY DEF PreVoting, AskedUpTo, AsksFor
  <2> QED
    BY <2>1, <1>4
<1>7. AskedUpTo(r, s.term + 1)'
  BY <1>3, <1>6, PoliteAsks DEF AskedUpTo
<1>8. CountsApprovals(r, s)'
  <2>1. "prevotes" \in DOMAIN s /\ s.prevotes \subseteq Replica
    BY DEF Polite
  <2>2. ASSUME NEW v \in s.prevotes \ {r}
        PROVE  \E term \in Nat :
                  term <= s.term + 1 /\ Approved(v, r, term)' /\ AskedUpTo(r, term)'
    <3>1. CASE Approved(v, r, s.term + 1)
      <4>1. Approved(v, r, s.term + 1)'
        BY <3>1, <1>2, ApprovedStays
      <4> QED
        BY <4>1, <1>4, <1>7
    <3>2. CASE v \in replicas[r].prevotes
      <4>1. PICK term \in Nat :
               term <= replicas[r].term + 1 /\ Approved(v, r, term) /\ AskedUpTo(r, term)
        BY <3>2 DEF PreVoting, CountsApprovals
      <4>2. Approved(v, r, term)'
        BY <4>1, <1>2, ApprovedStays
      <4>3. AskedUpTo(r, term)'
        BY <4>1, <1>3, PoliteAsks
      <4>4. term <= s.term + 1
        BY <4>1, <1>4
      <4> QED
        BY <4>2, <4>3, <4>4
    <3> QED
      BY <3>1, <3>2 DEF Polite
  <2> QED
    BY <2>1, <2>2 DEF CountsApprovals
<1>9. ASSUME NEW q \in Replica
      PROVE  CountsApprovals(q, replicas[q])' /\ AskedUpTo(q, replicas[q].term + 1)'
  <2>1. CASE q = r
    BY <2>1, <1>1, <1>7, <1>8 DEF CountsApprovals, AskedUpTo
  <2>2. CASE q # r
    <3>1. PICK a : a = replicas[q] /\ a = replicas'[q]
      BY <2>2, <1>1
    <3>2. PICK next : next = a.term + 1
      OBVIOUS
    <3>3. CountsApprovals(q, a) /\ AskedUpTo(q, next)
      BY <3>1, <3>2 DEF PreVoting
    <3>4. AskedUpTo(q, next)'
      BY <2>2, <3>3, <1>3, PoliteAsks
    <3>5. ASSUME NEW v \in a.prevotes \ {q}
          PROVE  \E term \in Nat :
                    term <= a.term + 1 /\ Approved(v, q, term)' /\ AskedUpTo(q, term)'
      <4>1. PICK term \in Nat :
               term <= a.term + 1 /\ Approved(v, q, term) /\ AskedUpTo(q, term)
        BY <3>3 DEF CountsApprovals
      <4>2. Approved(v, q, term)' /\ AskedUpTo(q, term)'
        BY <2>2, <4>1, <1>2, <1>3, ApprovedStays, PoliteAsks
      <4> QED
        BY <4>1, <4>2
    <3>6. CountsApprovals(q, a)'
      BY <3>3, <3>5 DEF CountsApprovals
    <3> QED
      BY <3>1, <3>2, <3>4, <3>6 DEF CountsApprovals, AskedUpTo
  <2> QED
    BY <2>1, <2>2
<1>10. PreVoting'
  BY <1>5, <1>9 DEF PreVoting
<1>11. ASSUME NEW q \in Replica, replicas'[q].role = "candidate",
              replicas'[q].term # replicas[q].term
       PROVE  Backed(q, replicas'[q].term)
  <2>1. q = r
    BY <1>1, <1>11
  <2> QED
    BY <2>1, <1>1, <1>11 DEF Polite
<1> QED
  BY <1>10, <1>11 DEF StandsBacked

\* A replica that does what `a` says about pre-votes, or forgets them, and asks nobody.
Aside(a, s, messages) ==
    /\ "prevotes" \in DOMAIN a => "prevotes" \in DOMAIN s
    /\ s.term = a.term /\ s.prevotes \in {a.prevotes, {}}
    /\ s.role = "candidate" => a.role = "candidate"
    /\ \A m \in messages : m.kind \notin {"PreVote", "PreVoted"}

\* Taking a later term leaves what was counted.
LEMMA AdoptedPreVotes ==
    ASSUME NEW s, NEW term \in Nat, "prevotes" \in DOMAIN s
    PROVE  /\ "prevotes" \in DOMAIN Adopted(s, term)
           /\ Adopted(s, term).prevotes = s.prevotes
<1>1. CASE term <= s.term
  BY <1>1 DEF Adopted
<1>2. CASE ~ (term <= s.term) /\ s.role = "follower"
  BY <1>2 DEF Adopted
<1>3. CASE ~ (term <= s.term) /\ s.role # "follower"
  BY <1>3 DEF Adopted
<1> QED
  BY <1>1, <1>2, <1>3

\* Such an answer keeps the invariant, whether a term is taken first or none.
LEMMA AsideStands ==
    ASSUME Voting, PreVoting, NEW m \in BagToSet(wire), m.to \in Replica,
           NEW term \in Nat, NEW s, NEW messages,
           Aside(Adopted(replicas[m.to], term), s, messages), Answers(m, s, messages)
    PROVE  StandsBacked
<1> DEFINE r == m.to
           a == Adopted(replicas[r], term)
<1>1. /\ VotingFields \subseteq DOMAIN replicas[r] /\ replicas[r].term \in Nat
      /\ "prevotes" \in DOMAIN replicas[r] /\ replicas[r].prevotes \subseteq Replica
  BY DEF Voting, ReplicasTyped, PreVoting, CountsApprovals
<1>2. /\ a.term \in Nat /\ a.term >= replicas[r].term
      /\ a.role = "candidate" => a = replicas[r]
  BY <1>1, AdoptedVotes
<1>3. "prevotes" \in DOMAIN a /\ a.prevotes = replicas[r].prevotes
  BY <1>1, AdoptedPreVotes
<1> HIDE DEF a
<1>4. Polite(r, s, messages)
  BY <1>1, <1>2, <1>3 DEF Polite, Aside, a
<1> QED
  BY <1>4, PoliteStep, ReceivedOffWire DEF Answers

\* The same where no term is taken.
LEMMA AsideHereStands ==
    ASSUME Voting, PreVoting, NEW m \in BagToSet(wire), m.to \in Replica,
           NEW s, NEW messages, Aside(replicas[m.to], s, messages), Answers(m, s, messages)
    PROVE  StandsBacked
<1>1. replicas[m.to].term \in Nat
  BY DEF Voting, ReplicasTyped
<1>2. Adopted(replicas[m.to], replicas[m.to].term) = replicas[m.to]
  BY <1>1 DEF Adopted
<1> QED
  BY <1>1, <1>2, AsideStands

\* A timer that runs out is answered by asking anew, or by copies.
LEMMA TimerStands ==
    ASSUME Voting, PreVoting, NEW r \in Replica, OnTimer(r)
    PROVE  StandsBacked
<1> DEFINE s == replicas[r]
<1>1. /\ "prevotes" \in DOMAIN s /\ s.prevotes \subseteq Replica /\ s.term \in Nat
      /\ VotingFields \subseteq DOMAIN s
  BY DEF Voting, ReplicasTyped, PreVoting, CountsApprovals
<1>2. CASE Becomes(r, s, CopyToEveryone(r, s), wire)
  <2>1. \A m \in CopyToEveryone(r, s) : m.kind = "Append"
    BY <1>1, CopySensible DEF CopyToEveryone
  <2>2. Polite(r, s, CopyToEveryone(r, s))
    BY <1>1, <2>1 DEF Polite
  <2> QED
    BY <1>2, <2>2, PoliteStep
<1>3. CASE Becomes(r, [s EXCEPT !.leader = Nobody, !.prevotes = {r}], PreVotes(r, s), wire)
  <2> DEFINE asking == [s EXCEPT !.leader = Nobody, !.prevotes = {r}]
  <2>1. /\ "prevotes" \in DOMAIN asking /\ asking.prevotes = {r} /\ asking.term = s.term
    BY <1>1 DEF VotingFields
  <2>2. \A m \in PreVotes(r, s) :
           m.kind = "PreVote" /\ m.from = r /\ m.proposed = asking.term + 1
    BY <2>1 DEF PreVotes
  <2> HIDE DEF asking
  <2>3. Polite(r, asking, PreVotes(r, s))
    BY <1>1, <2>1, <2>2 DEF Polite
  <2> QED
    BY <1>3, <2>3, PoliteStep DEF asking
<1> QED
  BY <1>2, <1>3 DEF OnTimer

\* Who is asked about a term answers about it, and moves nothing.
LEMMA PreVoteStands ==
    ASSUME Voting, PreVoting, NEW m \in BagToSet(wire), OnPreVote(m)
    PROVE  StandsBacked
<1>1. m.to \in Replica /\ m.from \in Replica \ {m.to} /\ m.kind = "PreVote"
  BY DEF OnPreVote, Voting, WireSensible, Sensible
<1> DEFINE s == replicas[m.to]
<1>2. "prevotes" \in DOMAIN s /\ s.prevotes \subseteq Replica /\ s.term \in Nat
  BY <1>1 DEF Voting, ReplicasTyped, PreVoting, CountsApprovals
<1>3. PICK granted : Answers(m, s,
         {[kind |-> "PreVoted", from |-> m.to, to |-> m.from, term |-> s.term,
           proposed |-> m.proposed, granted |-> granted]})
  BY DEF OnPreVote
<1> DEFINE answer == {[kind |-> "PreVoted", from |-> m.to, to |-> m.from, term |-> s.term,
                       proposed |-> m.proposed, granted |-> granted]}
<1>4. Polite(m.to, s, answer)
  BY <1>1, <1>2 DEF Polite
<1> QED
  BY <1>1, <1>3, <1>4, PoliteStep, ReceivedOffWire DEF Answers

\* The yeses counted, with one that is about the term it asks for, are all about it.
LEMMA PreVotedStands ==
    ASSUME Voting, PreVoting, NEW m \in BagToSet(wire), OnPreVoted(m)
    PROVE  StandsBacked
<1>1. /\ m.to \in Replica /\ m.from \in Replica \ {m.to} /\ m.term \in Nat
      /\ m.kind = "PreVoted" /\ m.proposed \in Nat
  BY DEF OnPreVoted, Voting, WireSensible, Sensible, PreVoting
<1> DEFINE r == m.to
           s == Adopted(replicas[r], m.term)
           asked == [s EXCEPT !.prevotes = @ \cup {m.from}]
           standing == Standing(r, [asked EXCEPT !.prevotes = {}])
<1>2. /\ VotingFields \subseteq DOMAIN replicas[r] /\ replicas[r].term \in Nat
      /\ "prevotes" \in DOMAIN replicas[r] /\ replicas[r].prevotes \subseteq Replica
  BY <1>1 DEF Voting, ReplicasTyped, PreVoting, CountsApprovals
<1>3. /\ VotingFields \subseteq DOMAIN s
      /\ s.term \in Nat /\ s.term >= replicas[r].term
      /\ s.role = "candidate" => s = replicas[r]
      /\ "prevotes" \in DOMAIN s /\ s.prevotes = replicas[r].prevotes
  BY <1>1, <1>2, AdoptedVotes, AdoptedPreVotes
<1>4. CASE Answers(m, s, {})
  <2>1. Aside(s, s, {})
    BY DEF Aside
  <2> QED
    BY <1>1, <1>4, <2>1, AsideStands
<1>5. CASE YesNow(r, s, m)
  <2> HIDE DEF s
  <2>1. m.proposed = s.term + 1 /\ m \in yeses
    BY <1>1, <1>5 DEF YesNow, PreVoting
  <2>2. Approved(m.from, r, s.term + 1)
    BY <1>1, <2>1 DEF Approved
  <2>3. ASSUME NEW v \in s.prevotes \ {r}
        PROVE  Approved(v, r, s.term + 1)
    <3>1. PICK term \in Nat :
             term <= replicas[r].term + 1 /\ Approved(v, r, term) /\ AskedUpTo(r, term)
      BY <1>1, <1>3 DEF PreVoting, CountsApprovals
    <3>2. m.proposed <= term
      BY <1>1, <3>1 DEF AskedUpTo, AsksFor
    <3>3. term = s.term + 1
      BY <1>2, <1>3, <2>1, <3>1, <3>2
    <3> QED
      BY <3>1, <3>3
  <2>4. /\ "prevotes" \in DOMAIN asked /\ asked.prevotes = s.prevotes \cup {m.from}
        /\ asked.term = s.term /\ asked.role = s.role
        /\ VotingFields \subseteq DOMAIN asked
    BY <1>3 DEF VotingFields
  <2> HIDE DEF asked
  <2>5. CASE Answers(m, asked, {})
    <3>1. Polite(r, asked, {})
      BY <1>1, <1>2, <1>3, <2>2, <2>3, <2>4 DEF Polite
    <3> QED
      BY <1>1, <2>5, <3>1, PoliteStep, ReceivedOffWire DEF Answers
  <2>6. CASE /\ Cardinality(asked.prevotes) >= Majority
             /\ Answers(m, standing, RequestVotes(r, standing))
    <3>1. Backed(r, s.term + 1)
      <4> DEFINE backers == {r} \cup {v \in Replica : Approved(v, r, s.term + 1)}
      <4>1. asked.prevotes \subseteq backers /\ backers \subseteq Replica
        BY <1>1, <1>2, <1>3, <2>2, <2>3, <2>4
      <4>2. IsFiniteSet(backers)
        BY <4>1, ReplogAssumption, FS_Subset
      <4> HIDE DEF backers
      <4>3. IsFiniteSet(asked.prevotes) /\ Cardinality(asked.prevotes) <= Cardinality(backers)
        BY <4>1, <4>2, FS_Subset
      <4>4. /\ Cardinality(asked.prevotes) \in Nat /\ Cardinality(backers) \in Nat
            /\ Cardinality(Replica) \in Nat
        BY <4>2, <4>3, ReplogAssumption, FS_CardinalityType
      <4> QED
        BY <2>6, <4>3, <4>4 DEF Backed, backers, Majority
    <3>2. /\ "prevotes" \in DOMAIN standing /\ standing.prevotes = {}
          /\ standing.term = s.term + 1
      BY <2>4 DEF Standing, VotingFields
    <3> HIDE DEF standing
    <3>3. \A n \in RequestVotes(r, standing) : n.kind = "RequestVote"
      BY DEF RequestVotes
    <3>4. Polite(r, standing, RequestVotes(r, standing))
      BY <1>2, <1>3, <3>1, <3>2, <3>3 DEF Polite
    <3> QED
      BY <1>1, <2>6, <3>4, PoliteStep, ReceivedOffWire DEF Answers
  <2> QED
    BY <1>5, <2>5, <2>6 DEF OnPreVoted, s, asked
<1> QED
  BY <1>4, <1>5 DEF OnPreVoted

\* Votes and copies leave the pre-votes alone, or end them.
LEMMA VotesStand ==
    ASSUME Voting, PreVoting, NEW m \in BagToSet(wire), OnRequestVote(m) \/ OnVote(m)
    PROVE  StandsBacked
<1>1. m.to \in Replica /\ m.from \in Replica \ {m.to} /\ m.term \in Nat
  BY DEF OnRequestVote, OnVote, Voting, WireSensible, Sensible
<1> DEFINE r == m.to
           s == Adopted(replicas[r], m.term)
<1>2. /\ VotingFields \subseteq DOMAIN replicas[r] /\ replicas[r].term \in Nat
      /\ "prevotes" \in DOMAIN replicas[r]
  BY <1>1 DEF Voting, ReplicasTyped, PreVoting, CountsApprovals
<1>3. VotingFields \subseteq DOMAIN s /\ s.term \in Nat /\ "prevotes" \in DOMAIN s
  BY <1>1, <1>2, AdoptedVotes, AdoptedPreVotes
<1>4. CASE OnRequestVote(m)
  <2> DEFINE voted == [s EXCEPT !.votedFor = m.from]
             answer == {[kind |-> "Vote", from |-> r, to |-> m.from, term |-> s.term,
                         granted |-> VoteFor(s, m)]}
  <2>1. Answers(m, IF VoteFor(s, m) THEN voted ELSE s, answer)
    BY <1>4 DEF OnRequestVote
  <2>2. \A n \in answer : n.kind = "Vote"
    OBVIOUS
  <2>3. /\ "prevotes" \in DOMAIN voted /\ voted.term = s.term
        /\ voted.prevotes = s.prevotes /\ voted.role = s.role
    BY <1>3 DEF VotingFields
  <2> HIDE DEF voted, answer, s
  <2>4. Aside(s, s, answer) /\ Aside(s, voted, answer)
    BY <1>3, <2>2, <2>3 DEF Aside
  <2> QED
    BY <1>1, <2>1, <2>4, AsideStands DEF s
<1>5. CASE OnVote(m)
  <2> DEFINE voted == [s EXCEPT !.votes = @ \cup {m.from}]
             leading == Leading(r, voted)
  <2>1. /\ "prevotes" \in DOMAIN voted /\ voted.term = s.term
        /\ voted.prevotes = s.prevotes /\ voted.role = s.role
        /\ VotingFields \subseteq DOMAIN voted
    BY <1>3 DEF VotingFields
  <2> HIDE DEF voted
  <2>2. /\ "prevotes" \in DOMAIN leading /\ leading.term = s.term
        /\ leading.prevotes = {} /\ leading.role = "leader"
    BY <2>1 DEF Leading, VotingFields
  <2> HIDE DEF leading, s
  <2>3. \/ Answers(m, s, {}) \/ Answers(m, voted, {})
        \/ Answers(m, leading, CopyToEveryone(r, leading))
    BY <1>5 DEF OnVote, s, voted, leading
  <2>4. \A n \in CopyToEveryone(r, leading) : n.kind = "Append"
    BY <1>1, <1>3, <2>2, CopySensible DEF CopyToEveryone
  <2>5. /\ Aside(s, s, {}) /\ Aside(s, voted, {})
        /\ Aside(s, leading, CopyToEveryone(r, leading))
    BY <2>1, <2>2, <2>4 DEF Aside
  <2> QED
    BY <1>1, <2>3, <2>5, AsideStands DEF s
<1> QED
  BY <1>4, <1>5

\* Copies of the log, and the answers to them, too.
LEMMA CopiesStand ==
    ASSUME Voting, PreVoting, NEW m \in BagToSet(wire), OnAppend(m) \/ OnAppended(m)
    PROVE  StandsBacked
<1>0. m.kind \in {"Append", "Appended"}
  BY DEF OnAppend, OnAppended
<1>1. m.to \in Replica /\ m.from \in Replica \ {m.to} /\ m.term \in Nat
  BY <1>0 DEF Voting, WireSensible, Sensible
<1> DEFINE r == m.to
           s == Adopted(replicas[r], m.term)
<1>2. /\ VotingFields \subseteq DOMAIN replicas[r] /\ replicas[r].term \in Nat
      /\ "prevotes" \in DOMAIN replicas[r]
  BY <1>1 DEF Voting, ReplicasTyped, PreVoting, CountsApprovals
<1>3. VotingFields \subseteq DOMAIN s /\ s.term \in Nat /\ "prevotes" \in DOMAIN s
  BY <1>1, <1>2, AdoptedVotes, AdoptedPreVotes
<1>4. CASE OnAppend(m)
  <2> DEFINE following == Following(s, m)
             taken == [following EXCEPT !.log = Taken(@, m.prev.index, m.entries)]
  <2>1. PICK became, matched :
           /\ became \in {s, following, taken, Applied(taken, Vouched(m))}
           /\ Answers(m, became, Answered(m, s.term, matched))
    BY <1>4, AppendOutcomes
  <2>2. \A n \in Answered(m, s.term, matched) : n.kind = "Appended"
    BY DEF Answered
  <2>3. /\ Aside(s, s, {}) /\ Aside(s, following, {})
    BY <1>3 DEF Aside, Following, VotingFields
  <2> HIDE DEF s
  <2>4. Aside(s, taken, {})
    BY <2>3 DEF Aside
  <2> HIDE DEF taken
  <2>5. Aside(s, Applied(taken, Vouched(m)), {})
    BY <2>4 DEF Aside, Applied
  <2>6. Aside(s, became, {})
    BY <2>1, <2>3, <2>4, <2>5
  <2>7. Aside(s, became, Answered(m, s.term, matched))
    BY <2>2, <2>6 DEF Aside
  <2> QED
    BY <1>1, <2>1, <2>7, AsideStands DEF s
<1>5. CASE OnAppended(m) /\ ~ Answers(m, s, {})
  <2> DEFINE held == IF m.matched # Unmatched /\ m.matched > s.matched[m.from]
                     THEN m.matched ELSE s.matched[m.from]
             next == IF m.matched # Unmatched THEN held + 1
                     ELSE SteppedBack(s.next[m.from])
             more == m.matched = Unmatched \/ next <= Len(s.log)
             heard == [s EXCEPT !.matched[m.from] = held, !.next[m.from] = next]
             messages == Confirmed(heard) \cup
                           IF more THEN {CopyFor(r, Advanced(heard), m.from)} ELSE {}
  <2>1. Answers(m, Advanced(heard), messages)
    BY <1>5 DEF OnAppended
  <2> HIDE DEF held, next, more
  <2>2. Aside(s, heard, {})
    BY <1>3 DEF Aside
  <2> HIDE DEF heard
  <2>3. Aside(s, Advanced(heard), {})
    BY <1>3, <2>2 DEF Aside, Advanced, Applied
  <2>4. Advanced(heard).term \in Nat
    BY <1>3, <2>3 DEF Aside
  <2>5. \A n \in messages : n.kind \in {"Append", "Submitted"}
    BY <1>1, <2>4, CopySensible DEF Confirmed
  <2> HIDE DEF messages, s
  <2>6. Aside(s, Advanced(heard), messages)
    BY <2>3, <2>5 DEF Aside
  <2> QED
    BY <1>1, <2>1, <2>6, AsideStands DEF s
<1>6. CASE Answers(m, s, {})
  <2>1. Aside(s, s, {})
    BY DEF Aside
  <2> QED
    BY <1>1, <1>6, <2>1, AsideStands
<1> QED
  BY <1>4, <1>5, <1>6

\* And what clients ask for.
LEMMA SubmitStands ==
    ASSUME Voting, PreVoting, NEW m \in BagToSet(wire), OnSubmit(m) \/ PointElsewhere(m)
    PROVE  StandsBacked
<1>1. m.to \in Replica
  BY DEF OnSubmit, PointElsewhere, Voting, WireSensible, Sensible
<1> DEFINE r == m.to
           s == replicas[r]
           at == Len(s.log) + 1
           took == [s EXCEPT !.log = Append(@, [term |-> s.term, op |-> m.command]),
                             !.matched[r] = at,
                             !.pending = @ \cup {<<at, m.command>>}]
           kept == [s EXCEPT !.pending = @ \cup {<<HeldAt(s.log, m.command), m.command>>}]
           told == {[kind |-> "Submitted", command |-> m.command]}
<1>2. VotingFields \subseteq DOMAIN s /\ s.term \in Nat /\ "prevotes" \in DOMAIN s
  BY <1>1 DEF Voting, ReplicasTyped, PreVoting, CountsApprovals
<1>3. /\ Aside(s, s, {}) /\ Aside(s, kept, {}) /\ Aside(s, took, {})
  BY <1>2 DEF Aside, VotingFields
<1>4. took.term \in Nat
  BY <1>2, <1>3 DEF Aside
<1>5. \/ Answers(m, s, {}) \/ Answers(m, s, told) \/ Answers(m, kept, {})
      \/ Answers(m, took, CopyToEveryone(r, took))
  BY DEF OnSubmit, PointElsewhere
<1> HIDE DEF took, kept
<1>6. \A n \in CopyToEveryone(r, took) : n.kind = "Append"
  BY <1>1, <1>4, CopySensible DEF CopyToEveryone
<1>7. Aside(s, s, told) /\ Aside(s, took, CopyToEveryone(r, took))
  BY <1>3, <1>6 DEF Aside
<1> QED
  BY <1>1, <1>3, <1>5, <1>7, AsideHereStands

\* A client's step, or the loss of a message.
LEMMA OthersStand ==
    ASSUME PreVoting, UNCHANGED <<replicas, yeses>>,
           \A m \in BagToSet(wire') \ BagToSet(wire) : m.kind = "Submit"
    PROVE  StandsBacked
<1>1. ASSUME NEW r \in Replica, NEW term, AskedUpTo(r, term)
      PROVE  AskedUpTo(r, term)'
  BY <1>1 DEF AskedUpTo, AsksFor
<1>2. ASSUME NEW r \in Replica
      PROVE  CountsApprovals(r, replicas[r])' /\ AskedUpTo(r, replicas[r].term + 1)'
  BY <1>1 DEF PreVoting, CountsApprovals, Approved
<1>3. \A m \in BagToSet(wire') :
         /\ m.kind \in {"PreVote", "PreVoted"} => m.proposed \in Nat
         /\ m.kind = "PreVoted" /\ m.granted => m \in yeses'
  BY DEF PreVoting
<1>4. PreVoting'
  BY <1>2, <1>3 DEF PreVoting
<1> QED
  BY <1>4 DEF StandsBacked

\* Whoever stands is backed, at every step, of a handler, a client or a fault.
LEMMA StepStands ==
    ASSUME Voting, PreVoting, [Next]_vars
    PROVE  StandsBacked
<1>1. ASSUME NEW r \in Replica, OnTimer(r)
      PROVE  StandsBacked
  BY <1>1, TimerStands
<1>2. ASSUME NEW m \in BagToSet(wire), Receive(m)
      PROVE  StandsBacked
  <2>1. CASE OnPreVote(m) \/ OnPreVoted(m)
    BY <2>1, PreVoteStands, PreVotedStands
  <2>2. CASE OnRequestVote(m) \/ OnVote(m)
    BY <2>2, VotesStand
  <2>3. CASE OnAppend(m) \/ OnAppended(m)
    BY <2>3, CopiesStand
  <2>4. CASE OnSubmit(m) \/ PointElsewhere(m)
    BY <2>4, SubmitStands
  <2>5. CASE Hear(m)
    BY <2>5, ReceivedOffWire, OthersStand DEF Hear
  <2> QED
    BY <1>2, <2>1, <2>2, <2>3, <2>4, <2>5 DEF Receive
<1>3. ASSUME NEW m \in BagToSet(wire), Cut(m)
      PROVE  StandsBacked
  BY <1>3, ReceivedOffWire, OthersStand DEF Cut
<1>4. ASSUME NEW c \in Client, NEW r \in Replica, Send(c, r) \/ Retry(c, r)
      PROVE  StandsBacked
  <2>1. PICK command : Ask(r, command)
    BY <1>4 DEF Send, Retry
  <2>2. BagToSet(wire') = BagToSet(wire) \cup
                            {[kind |-> "Submit", to |-> r, command |-> command]}
    BY <2>1, SentOnWire DEF Ask
  <2>3. \A m \in BagToSet(wire') \ BagToSet(wire) : m.kind = "Submit"
    BY <2>2
  <2>4. UNCHANGED <<replicas, yeses>>
    BY <1>4 DEF Send, Retry
  <2> QED
    BY <2>3, <2>4, OthersStand
<1>5. CASE UNCHANGED vars
  BY <1>5, OthersStand DEF vars, BagToSet
<1> QED
  BY <1>1, <1>2, <1>3, <1>4, <1>5 DEF Next

\* Nothing is asked or counted at first.
LEMMA InitPreVoting ==
    Init => PreVoting
<1> SUFFICES ASSUME Init
             PROVE  PreVoting
  OBVIOUS
<1>1. BagToSet(wire) = {}
  BY DEF Init, EmptyBag, SetToBag, BagToSet
<1>2. \A r \in Replica : "prevotes" \in DOMAIN replicas[r] /\ replicas[r].prevotes = {}
  BY DEF Init, Fresh
<1> QED
  BY <1>1, <1>2 DEF PreVoting, CountsApprovals, AskedUpTo

\* What `on_pre_voted` promises those a deaf replica might disturb: however late or
\* stale the yeses are that a replica counts, it begins a term only when a majority,
\* with it, said that it could stand in that very term.
THEOREM NobodyStandsAlone ==
    Spec => StandsOnMajority
<1>1. Init => Voting /\ PreVoting
  BY InitVoting, InitPreVoting
<1>2. Voting /\ PreVoting /\ [Next]_vars => (Voting /\ PreVoting)'
  BY StepKeepsVoting, StepStands DEF StandsBacked
<1>3. Voting /\ PreVoting /\ [Next]_vars =>
         [\A r \in Replica :
            replicas'[r].role = "candidate" /\ replicas'[r].term # replicas[r].term =>
               Cardinality({r} \cup {v \in Replica :
                  \E y \in yeses : /\ y.kind = "PreVoted" /\ y.from = v /\ y.to = r
                                   /\ y.proposed = replicas'[r].term}) >= Majority]_vars
  BY StepStands DEF StandsBacked, Backed, Approved
<1> QED
  BY <1>1, <1>2, <1>3, PTL DEF Spec, StandsOnMajority

--------------------------------------------------------------------------------
(* The logs. *)

\* Two logs are the same as far as a place.
SameTo(x, y, n) == n <= Len(x) /\ n <= Len(y) /\ \A j \in 1 .. n : x[j] = y[j]

HoldsAt(log, i, term) == i \in DOMAIN log /\ log[i].term = term

Follows(lines, log) == \A i \in DOMAIN log : SameTo(log, lines[log[i].term], i)

TermsTo(log, term) == \A i \in DOMAIN log : log[i].term <= term

\* A copy is what follows some place of a line that has begun.
StretchOf(m, line) ==
    /\ line # <<>>
    /\ m.prev.index + Len(m.entries) <= Len(line)
    /\ m.prev.term = TermAt(line, m.prev.index)
    /\ \A j \in DOMAIN m.entries : m.entries[j] = line[m.prev.index + j]

LogFields ==
    {"term", "role", "led", "log", "commit", "applied", "next", "matched", "pending"}

Typed(s) ==
    /\ LogFields \subseteq DOMAIN s
    /\ s.log \in Seq(Entry) /\ s.commit \in Nat /\ s.applied \in Seq(Command \cup {Noop})
    /\ s.next \in [Replica -> Nat] /\ s.matched \in [Replica -> Nat]
    /\ s.pending \subseteq (Nat \ {0}) \X Command

CarriesLog(m) ==
    /\ m.kind = "RequestVote" => m.end \in End
    /\ m.kind = "Append" => m.prev \in End /\ m.entries \in Seq(Entry) /\ m.commit \in Nat
    /\ m.kind = "Appended" => m.matched \in Nat \cup {Unmatched}
    /\ m.kind \in {"Submit", "Submitted"} => m.command \in Command

LinesSound(lines) ==
    /\ lines \in [Nat -> Seq(Entry)]
    /\ \A t \in Nat : Follows(lines, lines[t]) /\ TermsTo(lines[t], t)

LinesLed(lines) == \A t \in Nat : lines[t] # <<>> => \E r \in Replica : t \in replicas[r].led

LogsFollow(lines) ==
    \A r \in Replica :
       LET s == replicas[r]
       IN  Typed(s) /\ Follows(lines, s.log) /\ TermsTo(s.log, s.term)

LeadersWrite(lines) ==
    \A r \in Replica :
       LET s == replicas[r]
       IN  /\ s.role = "leader" =>
                 /\ s.term \in s.led /\ lines[s.term] = s.log /\ s.log # <<>>
                 /\ \A p \in Replica : s.matched[p] <= Len(s.log) /\ s.next[p] <= Len(s.log) + 1
           /\ s.role = "candidate" => s.term \notin s.led

CopiesFollow(lines) ==
    \A m \in BagToSet(wire) :
       /\ CarriesLog(m)
       /\ m.kind = "Append" => StretchOf(m, lines[m.term])
       /\ m.kind = "Appended" => m.matched = Unmatched \/ m.matched <= Len(lines[m.term])

Logging(lines) ==
    LinesSound(lines) /\ LinesLed(lines) /\ LogsFollow(lines) /\ LeadersWrite(lines)
      /\ CopiesFollow(lines)

\* Some leader after a term, up to another, did not have the entry at a place.
Missed(lines, term, i, upto) ==
    \E u \in Nat : term < u /\ u <= upto /\ lines[u] # <<>> /\ ~ HoldsAt(lines[u], i, term)

VotedFor(p, c, term) == p = c \/ Gave(yeses, p, c, term)

\* A majority held the entry of a term at a place, each in that term.
Chosen(held, term, i) ==
    \E Q \in SUBSET Replica :
       Cardinality(Q) >= Majority /\ \A p \in Q : <<p, term, i>> \in held

HeldIsKept(lines, held) ==
    /\ held \subseteq Replica \X Nat \X Nat
    /\ \A p \in Replica, term \in Nat, i \in Nat : <<p, term, i>> \in held =>
          /\ HoldsAt(lines[term], i, term)
          /\ replicas[p].term >= term
          /\ HoldsAt(replicas[p].log, i, term) \/ Missed(lines, term, i, replicas[p].term)
    /\ \A p \in Replica, i \in Nat :
          HoldsAt(replicas[p].log, i, replicas[p].term) => <<p, replicas[p].term, i>> \in held

\* Whoever votes for a candidate asks that it has what the voter held.
CandidatesHold(lines, held) ==
    \A c \in Replica : replicas[c].role = "candidate" =>
       \A p \in Replica, term \in Nat, i \in Nat :
          /\ VotedFor(p, c, replicas[c].term)
          /\ <<p, term, i>> \in held /\ term < replicas[c].term
          => \/ lines[replicas[c].term] # <<>>
             \/ HoldsAt(replicas[c].log, i, term)
             \/ Missed(lines, term, i, replicas[c].term - 1)

\* What who votes is told of is what the candidate has.
RequestsSound ==
    /\ \A m \in BagToSet(wire) : m.kind = "RequestVote" =>
          /\ replicas[m.from].term >= m.term
          /\ replicas[m.from].role = "candidate" /\ replicas[m.from].term = m.term =>
                m.end = EndOf(replicas[m.from].log)
    /\ \A y \in yeses : y.kind = "Vote" => replicas[y.to].term >= y.term

\* The line of a term has all that was held by those who made its leader, unless an
\* earlier line missed it.
ElectedHold(lines, held, u) ==
    \E Q \in SUBSET Replica :
       /\ Cardinality(Q) >= Majority
       /\ \A p \in Q :
             /\ replicas[p].term >= u
             /\ \A term \in Nat, i \in Nat :
                   <<p, term, i>> \in held /\ term < u =>
                      HoldsAt(lines[u], i, term) \/ Missed(lines, term, i, u - 1)

LinesHold(lines, held) == \A u \in Nat : lines[u] # <<>> => ElectedHold(lines, held, u)

\* What a leader was told is held is held.
AnswersSound(lines, held) ==
    /\ \A m \in BagToSet(wire) : m.kind = "Appended" /\ m.matched # Unmatched =>
          \A i \in 1 .. m.matched :
             HoldsAt(lines[m.term], i, m.term) => <<m.from, m.term, i>> \in held
    /\ \A r \in Replica : replicas[r].role = "leader" =>
          \A p \in Replica : \A i \in 1 .. replicas[r].matched[p] :
             HoldsAt(replicas[r].log, i, replicas[r].term) => <<p, replicas[r].term, i>> \in held

\* What is committed reaches no further than what was chosen by then.
ChosenTo(held, commit, upto) ==
    commit > 0 =>
       \E term \in Nat, k \in Nat : term <= upto /\ k >= commit /\ Chosen(held, term, k)

Committed(lines, held, s) ==
    /\ s.commit <= Len(s.log)
    /\ Len(s.applied) = s.commit
    /\ \A i \in 1 .. s.commit : s.applied[i] = s.log[i].op
    /\ s.commit > 0 =>
          \E term \in Nat, k \in Nat :
             /\ term <= s.term /\ k >= s.commit /\ Chosen(held, term, k)
             /\ SameTo(s.log, lines[term], s.commit)

CommitsSound(lines, held) ==
    /\ \A r \in Replica : Committed(lines, held, replicas[r])
    /\ \A m \in BagToSet(wire) : m.kind = "Append" => ChosenTo(held, m.commit, m.term)

Choosing(lines, held) ==
    HeldIsKept(lines, held) /\ CandidatesHold(lines, held) /\ RequestsSound
      /\ LinesHold(lines, held) /\ AnswersSound(lines, held) /\ CommitsSound(lines, held)

\* A command a client has sent.
Sent(command) == \E c \in Client : \E j \in 1 .. round[c] : Commands[c][j] = command

\* A command among what was chosen, and one that was before another.
Settled(lines, held, command) ==
    \E t \in Nat, k \in Nat : \E j \in 1 .. k :
       Chosen(held, t, k) /\ lines[t][j].op = command

SettledBefore(lines, held, command, other) ==
    \E t \in Nat, k \in Nat : \E j \in 1 .. k :
       /\ Chosen(held, t, k) /\ lines[t][j].op = command
       /\ \A i \in 1 .. k : lines[t][i].op # other

OnceEach(log) ==
    \A i, j \in DOMAIN log : log[i].op = log[j].op /\ log[i].op # Noop => i = j

TypedClients ==
    /\ DOMAIN round = Client
    /\ \A c \in Client : round[c] \in Nat /\ round[c] <= Len(Commands[c])
    /\ DOMAIN after = Command

\* A line has a command once, and only when it was sent; who is told that one is done is
\* told the truth.
Telling(lines, held) ==
    /\ TypedClients
    /\ \A t \in Nat :
          /\ OnceEach(lines[t])
          /\ \A i \in DOMAIN lines[t] : lines[t][i].op # Noop => Sent(lines[t][i].op)
    /\ \A m \in BagToSet(wire) :
          /\ m.kind = "Submit" => Sent(m.command)
          /\ m.kind = "Submitted" => Settled(lines, held, m.command)
    /\ \A d \in done : Settled(lines, held, d)
    /\ \A c \in Command : Sent(c) => \A d \in after[c] : SettledBefore(lines, held, d, c)

History(lines, held) == Logging(lines) /\ Choosing(lines, held) /\ Telling(lines, held)

--------------------------------------------------------------------------------
(* What a step owes to the history. *)

\* The log is left as it is, and nothing new is led.
Keeps(a, s) ==
    /\ s.log = a.log /\ s.led = a.led
    /\ s.role = "leader" => a.role = "leader" /\ s.term = a.term
    /\ s.role = "candidate" => \/ a.role = "candidate" /\ s.term = a.term
                               \/ s.term > a.term

\* The log of the leader is taken over, as far as a copy of it goes.
Takes(lines, a, s) ==
    /\ s.role = "follower" /\ s.led = a.led
    /\ Follows(lines, s.log) /\ TermsTo(s.log, s.term)
    /\ \A i \in Nat, term \in Nat :
          HoldsAt(a.log, i, term) =>
             HoldsAt(s.log, i, term) \/ Missed(lines, term, i, s.term)

\* A majority, all in the term by now, voted for replica r.
Wins(r, term) ==
    \E Q \in SUBSET Replica :
       /\ Cardinality(Q) >= Majority
       /\ \A p \in Q : VotedFor(p, r, term) /\ replicas[p].term >= term

\* Whoever leads, or has just come to, adds an entry of its term.
Adds(r, s) ==
    /\ s.role = "leader" /\ s.term \in s.led /\ s.term = replicas[r].term
    /\ \E e \in Entry :
          /\ e.term = s.term /\ s.log = Append(replicas[r].log, e)
          /\ e.op # Noop =>
                Sent(e.op) /\ \A i \in DOMAIN replicas[r].log : replicas[r].log[i].op # e.op
    /\ \/ replicas[r].role = "leader"
       \/ replicas[r].role = "candidate" /\ s.term \notin replicas[r].led /\ Wins(r, s.term)

HeldBy(held, r, s) == held \cup {<<r, s.term, i>> : i \in {j \in DOMAIN s.log : s.log[j].term = s.term}}

LinesBy(lines, s) == IF s.role = "leader" THEN [lines EXCEPT ![s.term] = s.log] ELSE lines

\* What a leader notes of the others is no more than what they held.
Notes(held, s) ==
    \A p \in Replica :
       /\ s.matched[p] <= Len(s.log) /\ s.next[p] <= Len(s.log) + 1
       /\ \A i \in 1 .. s.matched[p] : HoldsAt(s.log, i, s.term) => <<p, s.term, i>> \in held

\* A vote goes to whoever is no further back than the voter, if it still stands.
Votes(r, s, m) ==
    /\ m.from = r /\ m.term = s.term /\ s.log = replicas[r].log
    /\ m.to \in Replica \ {r} /\ replicas[m.to].term >= m.term
    /\ replicas[m.to].role = "candidate" /\ replicas[m.to].term = m.term =>
          UpToDate(EndOf(replicas[m.to].log), EndOf(s.log))

Says(lines, held, r, s, m) ==
    /\ CarriesLog(m)
    /\ m.kind = "RequestVote" =>
          m.from = r /\ m.term = s.term /\ m.end = EndOf(s.log)
    /\ m.kind = "Vote" /\ m.granted => Votes(r, s, m)
    /\ m.kind = "Append" =>
          /\ s.role = "leader" /\ m.from = r /\ m.term = s.term
          /\ StretchOf(m, s.log) /\ m.commit = s.commit
    /\ m.kind = "Appended" =>
          /\ m.from = r /\ m.term = s.term
          /\ m.matched # Unmatched =>
                /\ m.matched <= Len(lines[s.term])
                /\ \A i \in 1 .. m.matched :
                      HoldsAt(lines[s.term], i, s.term) => HoldsAt(s.log, i, s.term)
    /\ m.kind = "Submitted" => Settled(lines, held, m.command)
    /\ m.kind # "Submit"

Does(lines, held, r, s, messages) ==
    /\ Typed(s) /\ s.term \in Nat /\ s.term >= replicas[r].term
    /\ s.led \subseteq Nat /\ replicas[r].led \subseteq s.led
    /\ Keeps(replicas[r], s) \/ Takes(lines, replicas[r], s) \/ Adds(r, s)
    /\ s.role = "leader" => Notes(HeldBy(held, r, s), s)
    /\ Committed(lines, held, s)
    /\ \A m \in messages : Says(lines, held, r, s, m)

--------------------------------------------------------------------------------
(* Lines. *)

\* A set of numbers has a least one.
LEMMA Least ==
    ASSUME NEW T \in SUBSET Nat, T # {}
    PROVE  \E x \in T : \A y \in T : x <= y
<1> DEFINE R == OpToRel(<, Nat)
<1>1. IsWellFoundedOn(R, Nat)
  BY NatLessThanWellFounded
<1>2. PICK x \in T : \A y \in T : <<y, x>> \notin R
  <2> HIDE DEF R
  <2> QED
    BY <1>1, WFMin
<1>3. \A y \in T : ~ (y < x)
  BY <1>2 DEF OpToRel
<1> QED
  BY <1>3

LEMMA EntriesTyped ==
    ASSUME NEW x \in Seq(Entry)
    PROVE  /\ Len(x) \in Nat /\ DOMAIN x = 1 .. Len(x)
           /\ \A i \in DOMAIN x : x[i] \in Entry /\ x[i].term \in Nat
<1>1. \A i \in DOMAIN x : x[i] \in Entry
  OBVIOUS
<1>2. \A e \in Entry : e.term \in Nat
  BY DEF Entry
<1> QED
  BY <1>1, <1>2

\* The last term of a log that is not empty.
LEMMA LastTerm ==
    ASSUME NEW x \in Seq(Entry), x # <<>>
    PROVE  /\ Len(x) \in Nat /\ Len(x) > 0 /\ Len(x) \in DOMAIN x
           /\ EndOf(x).term = x[Len(x)].term /\ EndOf(x).index = Len(x)
           /\ x[Len(x)].term \in Nat
<1>1. Len(x) \in Nat /\ Len(x) > 0 /\ DOMAIN x = 1 .. Len(x)
  <2>1. Len(x) \in Nat /\ DOMAIN x = 1 .. Len(x)
    BY EntriesTyped
  <2>2. Len(x) # 0
    OBVIOUS
  <2> QED
    BY <2>1, <2>2
<1>2. Len(x) \in DOMAIN x
  BY <1>1
<1> QED
  BY <1>1, <1>2, EntriesTyped DEF EndOf, TermAt

\* What two sequences come to.
LEMMA Joined ==
    ASSUME NEW T, NEW u \in Seq(T), NEW v \in Seq(T)
    PROVE  u \o v \in Seq(T) /\ Len(u \o v) = Len(u) + Len(v)
OBVIOUS

LEMMA SameToSymmetric ==
    ASSUME NEW x, NEW y, NEW n, SameTo(x, y, n)
    PROVE  SameTo(y, x, n)
BY DEF SameTo

LEMMA SameToAt ==
    ASSUME NEW x \in Seq(Entry), NEW y \in Seq(Entry), NEW n \in Nat, SameTo(x, y, n),
           NEW j \in 1 .. n
    PROVE  j \in DOMAIN x /\ j \in DOMAIN y /\ x[j] = y[j]
BY DEF SameTo

LEMMA SameToLess ==
    ASSUME NEW x \in Seq(Entry), NEW y \in Seq(Entry), NEW n \in Nat, NEW k \in Nat,
           SameTo(x, y, n), k <= n
    PROVE  SameTo(x, y, k)
BY DEF SameTo

LEMMA SameToJoins ==
    ASSUME NEW x, NEW y, NEW z, NEW n, SameTo(x, y, n), SameTo(y, z, n)
    PROVE  SameTo(x, z, n)
BY DEF SameTo

\* What holds an entry of a term at a place is the line of the term up to there.
LEMMA FollowsTo ==
    ASSUME NEW lines \in [Nat -> Seq(Entry)], NEW x \in Seq(Entry), Follows(lines, x),
           NEW i, NEW term, HoldsAt(x, i, term)
    PROVE  /\ SameTo(x, lines[term], i) /\ i \in Nat /\ i > 0 /\ term \in Nat
           /\ HoldsAt(lines[term], i, term)
<1>1. i \in 1 .. Len(x) /\ x[i].term = term /\ term \in Nat
  BY EntriesTyped DEF HoldsAt
<1>2. SameTo(x, lines[term], i)
  BY <1>1, EntriesTyped DEF Follows
<1>3. i \in DOMAIN lines[term] /\ lines[term][i] = x[i]
  <2>1. lines[term] \in Seq(Entry)
    BY <1>1
  <2>2. i \in 1 .. i
    BY <1>1, EntriesTyped
  <2> QED
    BY <1>1, <1>2, <2>1, <2>2, SameToAt
<1>4. i \in Nat /\ i > 0
  <2>1. Len(x) \in Nat
    BY EntriesTyped
  <2> QED
    BY <1>1, <2>1
<1>5. HoldsAt(lines[term], i, term)
  BY <1>1, <1>3 DEF HoldsAt
<1> QED
  BY <1>1, <1>2, <1>4, <1>5

\* Two that hold an entry of one term at one place are the same up to there.
LEMMA FollowersMatch ==
    ASSUME NEW lines \in [Nat -> Seq(Entry)],
           NEW x \in Seq(Entry), Follows(lines, x), NEW y \in Seq(Entry), Follows(lines, y),
           NEW i, NEW term, HoldsAt(x, i, term), HoldsAt(y, i, term)
    PROVE  SameTo(x, y, i)
<1>1. SameTo(x, lines[term], i) /\ SameTo(y, lines[term], i)
  BY FollowsTo
<1>2. SameTo(lines[term], y, i)
  BY <1>1, SameToSymmetric
<1> QED
  BY <1>1, <1>2, SameToJoins

\* Being the same up to a place, one holds what the other does up to there.
LEMMA SameToHolds ==
    ASSUME NEW x \in Seq(Entry), NEW y \in Seq(Entry), NEW n \in Nat, SameTo(x, y, n),
           NEW i, i <= n, NEW term, HoldsAt(x, i, term)
    PROVE  HoldsAt(y, i, term)
BY DEF SameTo, HoldsAt

\* Terms do not go down along a log.
LEMMA TermsRise ==
    ASSUME NEW lines, LinesSound(lines), NEW x \in Seq(Entry), Follows(lines, x),
           NEW i \in DOMAIN x, NEW j \in DOMAIN x, i <= j
    PROVE  x[i].term <= x[j].term
<1>1. x[j].term \in Nat
  BY EntriesTyped
<1>2. SameTo(x, lines[x[j].term], j) /\ TermsTo(lines[x[j].term], x[j].term)
  BY <1>1 DEF Follows, LinesSound
<1>3. i \in DOMAIN lines[x[j].term] /\ lines[x[j].term][i] = x[i]
  <2>1. lines[x[j].term] \in Seq(Entry)
    BY <1>1 DEF LinesSound
  <2>2. i \in 1 .. j
    BY EntriesTyped
  <2> QED
    BY <1>2, <2>1, <2>2, EntriesTyped DEF SameTo
<1> QED
  BY <1>2, <1>3 DEF TermsTo

\* What is chosen is in the line of every later term: the first to miss it would have
\* had the vote of a replica that held it.
LEMMA ChosenIsForGood ==
    ASSUME NEW lines, NEW held, LinesHold(lines, held),
           NEW term \in Nat, NEW i \in Nat, Chosen(held, term, i),
           NEW later \in Nat, later > term, lines[later] # <<>>
    PROVE  HoldsAt(lines[later], i, term)
<1> SUFFICES ASSUME ~ HoldsAt(lines[later], i, term)
             PROVE  FALSE
  OBVIOUS
<1> DEFINE Missing == {u \in Nat : term < u /\ lines[u] # <<>> /\ ~ HoldsAt(lines[u], i, term)}
<1>1. PICK u \in Missing : \A w \in Missing : u <= w
  BY Least
<1>2. ~ Missed(lines, term, i, u - 1)
  BY <1>1 DEF Missed
<1>3. PICK P \in SUBSET Replica :
         /\ Cardinality(P) >= Majority
         /\ \A p \in P : <<p, term, i>> \in held => HoldsAt(lines[u], i, term)
  BY <1>1, <1>2 DEF LinesHold, ElectedHold
<1>4. PICK Q \in SUBSET Replica :
         Cardinality(Q) >= Majority /\ \A p \in Q : <<p, term, i>> \in held
  BY DEF Chosen
<1>5. P \cap Q # {}
  BY <1>3, <1>4, MajoritiesMeet
<1> QED
  BY <1>1, <1>3, <1>4, <1>5

\* What is chosen is in its own line.
LEMMA ChosenIsHeld ==
    ASSUME NEW lines, NEW held, HeldIsKept(lines, held),
           NEW term \in Nat, NEW i \in Nat, Chosen(held, term, i)
    PROVE  HoldsAt(lines[term], i, term)
<1>1. PICK Q \in SUBSET Replica :
         Cardinality(Q) >= Majority /\ \A p \in Q : <<p, term, i>> \in held
  BY DEF Chosen
<1>2. Q \cap Q # {}
  BY <1>1, MajoritiesMeet
<1>3. \E p \in Replica : <<p, term, i>> \in held
  BY <1>1, <1>2
<1> QED
  BY <1>3 DEF HeldIsKept

\* So a later line is the line it was chosen in, up to there.
LEMMA ChosenLinesMatch ==
    ASSUME NEW lines, LinesSound(lines), NEW held, HeldIsKept(lines, held), LinesHold(lines, held),
           NEW term \in Nat, NEW i \in Nat, Chosen(held, term, i),
           NEW later \in Nat, later >= term, lines[later] # <<>>
    PROVE  SameTo(lines[later], lines[term], i)
<1>2. HoldsAt(lines[term], i, term)
  BY ChosenIsHeld
<1>3. HoldsAt(lines[later], i, term)
  <2>1. CASE later = term
    BY <1>2, <2>1
  <2>2. CASE later > term
    BY <2>2, ChosenIsForGood
  <2> QED
    BY <2>1, <2>2
<1> QED
  BY <1>2, <1>3, FollowersMatch DEF LinesSound

--------------------------------------------------------------------------------
(* What becomes of a log. *)

\* A part of a line from its beginning follows the lines.
LEMMA BeginningFollows ==
    ASSUME NEW lines, LinesSound(lines), NEW y \in Seq(Entry), Follows(lines, y), NEW n \in Nat,
           NEW z \in Seq(Entry), Len(z) = n, SameTo(z, y, n)
    PROVE  Follows(lines, z)
<1> SUFFICES ASSUME NEW i \in DOMAIN z PROVE SameTo(z, lines[z[i].term], i)
  BY DEF Follows
<1>1. i \in Nat /\ i <= n /\ i \in 1 .. n /\ z[i].term \in Nat
  BY EntriesTyped
<1>2. i \in DOMAIN y /\ y[i] = z[i]
  BY <1>1, EntriesTyped DEF SameTo
<1>3. SameTo(z, y, i)
  BY <1>1, SameToLess
<1>4. SameTo(y, lines[z[i].term], i)
  BY <1>2 DEF Follows
<1> QED
  BY <1>3, <1>4, SameToJoins

\* `take` leaves a log that is the leader's as far as the copy goes, and loses nothing
\* that was the leader's.
LEMMA TakenFollows ==
    ASSUME NEW lines, LinesSound(lines), NEW term \in Nat,
           NEW x \in Seq(Entry), Follows(lines, x), TermsTo(x, term),
           NEW m, m.prev \in End, m.entries \in Seq(Entry), StretchOf(m, lines[term]),
           Holds(x, m.prev),
           NEW z, z = Taken(x, m.prev.index, m.entries)
    PROVE  /\ z \in Seq(Entry) /\ Follows(lines, z) /\ TermsTo(z, term)
           /\ SameTo(z, lines[term], m.prev.index + Len(m.entries))
           /\ \A k \in Nat : SameTo(x, lines[term], k) => SameTo(z, lines[term], k)
<1> DEFINE y == lines[term]
           at == m.prev.index
           es == m.entries
           n == at + Len(es)
<1>1. /\ y \in Seq(Entry) /\ Follows(lines, y) /\ TermsTo(y, term)
      /\ lines \in [Nat -> Seq(Entry)]
  BY DEF LinesSound
<1>2. /\ at \in Nat /\ Len(es) \in Nat /\ DOMAIN es = 1 .. Len(es) /\ es \in Seq(Entry)
      /\ n \in Nat /\ n <= Len(y) /\ m.prev.term = TermAt(y, at)
      /\ \A j \in 1 .. Len(es) : es[j] = y[at + j]
  BY EntriesTyped DEF End, StretchOf
<1>3. at <= Len(x) /\ TermAt(x, at) = TermAt(y, at)
  BY <1>2 DEF Holds
<1>4. z = Taken(x, at, es)
  OBVIOUS
<1> HIDE DEF y, at, es
<1>0. /\ Len(x) \in Nat /\ DOMAIN x = 1 .. Len(x)
      /\ Len(y) \in Nat /\ DOMAIN y = 1 .. Len(y)
      /\ \A j \in 1 .. Len(x) : x[j].term \in Nat
  BY <1>1, EntriesTyped
<1>5. SameTo(x, y, at)
  <2>1. CASE at = 0
    BY <1>0, <2>1 DEF SameTo
  <2>2. CASE at # 0
    <3>1. at \in DOMAIN x /\ at \in DOMAIN y
      BY <1>0, <1>2, <1>3, <2>2
    <3>2. HoldsAt(x, at, x[at].term) /\ HoldsAt(y, at, x[at].term)
      BY <1>3, <3>1 DEF TermAt, HoldsAt
    <3> QED
      BY <1>1, <3>2, FollowersMatch
  <2> QED
    BY <2>1, <2>2
<1>6. ASSUME NEW j \in Nat, j <= Len(es), \A i \in 1 .. j : i \notin Differs(x, at, es)
      PROVE  SameTo(x, y, at + j)
  <2>1. CASE j = 0
    BY <1>2, <1>5, <2>1
  <2>2. CASE j # 0
    <3>0. j \in 1 .. j /\ j \in DOMAIN es
      BY <1>2, <1>6, <2>2
    <3>1. j \in DOMAIN es /\ at + j <= Len(x) /\ x[at + j].term = es[j].term
      BY <1>0, <1>2, <1>6, <3>0 DEF Differs
    <3>2. HoldsAt(x, at + j, es[j].term) /\ HoldsAt(y, at + j, es[j].term)
      BY <1>0, <1>2, <1>6, <2>2, <3>1 DEF HoldsAt
    <3> QED
      BY <1>1, <3>2, FollowersMatch
  <2> QED
    BY <2>1, <2>2
<1>7. CASE Differs(x, at, es) = {}
  <2>1. z = x
    BY <1>4, <1>7 DEF Taken
  <2>2. SameTo(x, y, n)
    BY <1>2, <1>6, <1>7
  <2> QED
    BY <2>1, <2>2 DEF y, at, es
<1>8. CASE Differs(x, at, es) # {}
  <2> DEFINE first == CHOOSE i \in Differs(x, at, es) : \A j \in Differs(x, at, es) : i <= j
  <2>1. Differs(x, at, es) \subseteq 1 .. Len(es)
    BY <1>2 DEF Differs
  <2>2. first \in Differs(x, at, es) /\ \A j \in Differs(x, at, es) : first <= j
    <3>1. Differs(x, at, es) \in SUBSET Nat
      BY <2>1
    <3>2. \E i \in Differs(x, at, es) : \A j \in Differs(x, at, es) : i <= j
      BY <1>8, <3>1, Least
    <3> QED
      BY <3>2
  <2>3. z = SubSeq(x, 1, at + first - 1) \o SubSeq(es, first, Len(es))
    BY <1>4, <1>8 DEF Taken
  <2> HIDE DEF first
  <2>4. first \in Nat /\ 1 <= first /\ first <= Len(es)
    BY <1>2, <2>1, <2>2
  <2>5. SameTo(x, y, at + first - 1)
    <3>1. SameTo(x, y, at + (first - 1))
      BY <1>6, <2>1, <2>2, <2>4
    <3> QED
      BY <1>2, <2>4, <3>1
  <2>6. /\ z \in Seq(Entry) /\ Len(z) = n
        /\ \A j \in 1 .. at + first - 1 : z[j] = x[j]
        /\ \A j \in at + first .. n : z[j] = es[j - at]
    <3> DEFINE u == SubSeq(x, 1, at + first - 1)
               v == SubSeq(es, first, Len(es))
    <3>1. /\ u \in Seq(Entry) /\ Len(u) = at + first - 1
          /\ \A j \in 1 .. at + first - 1 : u[j] = x[j]
      BY <1>2, <2>4, <2>5, EntriesTyped DEF SameTo
    <3>2. /\ v \in Seq(Entry) /\ Len(v) = Len(es) - first + 1
          /\ \A j \in 1 .. Len(es) - first + 1 : v[j] = es[first + j - 1]
      <4>1. es \in Seq(Entry) /\ Len(es) \in Nat
        BY <1>2
      <4>2. \A j \in first .. Len(es) : j \in 1 .. Len(es)
        BY <2>4, <4>1
      <4> HIDE DEF es
      <4> QED
        BY <2>4, <4>1, <4>2
    <3> HIDE DEF u, v
    <3>3. z \in Seq(Entry) /\ Len(z) = n
      <4>1. z = u \o v
        BY <2>3 DEF u, v
      <4>2. z \in Seq(Entry) /\ Len(z) = Len(u) + Len(v)
        BY <3>1, <3>2, <4>1, Joined
      <4>3. Len(u) + Len(v) = n
        BY <1>2, <2>4, <3>1, <3>2
      <4> QED
        BY <4>2, <4>3
    <3>4. \A j \in 1 .. at + first - 1 : z[j] = x[j]
      BY <1>2, <2>3, <2>4, <3>1, <3>2 DEF u, v
    <3>5. ASSUME NEW j \in at + first .. n PROVE z[j] = es[j - at]
      <4>1. j - Len(u) \in 1 .. Len(v) /\ first + (j - Len(u)) - 1 = j - at
        BY <1>2, <2>4, <3>1, <3>2
      <4>2. z[j] = v[j - Len(u)]
        BY <1>2, <2>3, <2>4, <3>1, <3>2, <4>1 DEF u, v
      <4> QED
        BY <3>2, <4>1, <4>2
    <3> QED
      BY <3>3, <3>4, <3>5
  <2>7. SameTo(z, y, n)
    <3>1. ASSUME NEW j \in 1 .. n PROVE z[j] = y[j]
      <4>1. CASE j <= at + first - 1
        <5>1. j \in 1 .. at + first - 1
          BY <1>2, <2>4, <4>1
        <5> QED
          BY <2>5, <2>6, <5>1 DEF SameTo
      <4>2. CASE j >= at + first
        <5>1. j - at \in 1 .. Len(es) /\ at + (j - at) = j
          BY <1>2, <2>4, <4>2
        <5> QED
          BY <1>2, <2>4, <2>6, <4>2, <5>1
      <4> QED
        BY <1>2, <2>4, <4>1, <4>2
    <3> QED
      BY <1>2, <2>6, <3>1 DEF SameTo
  <2>8. Follows(lines, z)
    BY <1>1, <1>2, <2>6, <2>7, BeginningFollows
  <2>9. TermsTo(z, term)
    <3> SUFFICES ASSUME NEW j \in DOMAIN z PROVE z[j].term <= term
      BY DEF TermsTo
    <3>1. j \in 1 .. n
      BY <2>6, EntriesTyped
    <3>2. z[j] = y[j] /\ j \in DOMAIN y
      BY <1>0, <1>2, <2>7, <3>1 DEF SameTo
    <3> QED
      BY <1>1, <3>2 DEF TermsTo
  <2>10. ASSUME NEW k \in Nat, SameTo(x, y, k)
         PROVE  SameTo(z, y, k)
    <3>1. k < at + first
      <4> SUFFICES ASSUME k >= at + first PROVE FALSE
        BY <1>2, <2>4
      <4>1. at + first \in 1 .. k /\ at + first <= Len(x) /\ x[at + first] = y[at + first]
        BY <1>0, <1>2, <2>4, <2>10 DEF SameTo
      <4>2. x[at + first].term = es[first].term
        BY <1>2, <2>4, <4>1
      <4> QED
        BY <2>2, <4>1, <4>2, <1>0, <1>2, <2>4 DEF Differs
    <3>2. k <= n
      BY <1>2, <2>4, <3>1
    <3> QED
      BY <1>1, <1>2, <2>6, <2>7, <3>2, SameToLess
  <2> QED
    BY <2>6, <2>7, <2>8, <2>9, <2>10 DEF y, at, es
<1> QED
  BY <1>7, <1>8

--------------------------------------------------------------------------------
(* What such a step does to the lines. *)

\* A line stays as it was, begins, or gains an entry of its term.
Grows(lines, new) ==
    /\ new \in [Nat -> Seq(Entry)]
    /\ \A t \in Nat :
          \/ new[t] = lines[t]
          \/ lines[t] = <<>> /\ new[t] # <<>>
          \/ \E e \in Entry : e.term = t /\ lines[t] # <<>> /\ new[t] = Append(lines[t], e)

\* What an entry more makes of a log.
Longer(x, e, z) ==
    /\ z \in Seq(Entry) /\ Len(z) = Len(x) + 1 /\ Len(x) \in Nat
    /\ DOMAIN x = 1 .. Len(x) /\ DOMAIN z = 1 .. Len(x) + 1
    /\ \A i \in 1 .. Len(x) : z[i] = x[i]
    /\ z[Len(x) + 1] = e
    /\ SameTo(z, x, Len(x))
    /\ z # <<>>

LEMMA AppendFacts ==
    ASSUME NEW x \in Seq(Entry), NEW e \in Entry, NEW z, z = Append(x, e)
    PROVE  Longer(x, e, z)
BY DEF SameTo, Longer

\* A longer log holds what it held, and its new entry.
LEMMA AppendHolds ==
    ASSUME NEW x \in Seq(Entry), NEW e \in Entry, NEW z, z = Append(x, e), NEW i, NEW u
    PROVE  HoldsAt(z, i, u) <=> HoldsAt(x, i, u) \/ (i = Len(x) + 1 /\ e.term = u)
<1>1. /\ Len(x) \in Nat
      /\ DOMAIN x = 1 .. Len(x) /\ DOMAIN z = 1 .. Len(x) + 1
      /\ \A j \in 1 .. Len(x) : z[j] = x[j]
      /\ z[Len(x) + 1] = e
  BY AppendFacts DEF Longer
<1>2. i \in DOMAIN z <=> i \in DOMAIN x \/ i = Len(x) + 1
  BY <1>1
<1>3. Len(x) + 1 \notin DOMAIN x
  BY <1>1
<1>4. i \in DOMAIN x => z[i] = x[i]
  BY <1>1
<1> QED
  BY <1>1, <1>2, <1>3, <1>4 DEF HoldsAt

LEMMA GrownSound ==
    ASSUME NEW lines \in [Nat -> Seq(Entry)], NEW new, Grows(lines, new), NEW t \in Nat
    PROVE  /\ lines[t] # <<>> => new[t] # <<>>
           /\ SameTo(new[t], lines[t], Len(lines[t]))
<1>1. lines[t] \in Seq(Entry) /\ Len(lines[t]) \in Nat
  BY EntriesTyped
<1>2. CASE new[t] = lines[t]
  BY <1>1, <1>2 DEF SameTo
<1>3. CASE lines[t] = <<>> /\ new[t] # <<>>
  <2>1. new[t] \in Seq(Entry) /\ Len(new[t]) \in Nat
    BY EntriesTyped DEF Grows
  <2> QED
    BY <1>3, <2>1 DEF SameTo
<1>4. CASE \E e \in Entry : e.term = t /\ lines[t] # <<>> /\ new[t] = Append(lines[t], e)
  <2>1. PICK e \in Entry : new[t] = Append(lines[t], e)
    BY <1>4
  <2> DEFINE x == lines[t]
             z == new[t]
  <2>2. x \in Seq(Entry) /\ z = Append(x, e)
    BY <2>1
  <2> HIDE DEF x, z
  <2>3. SameTo(z, x, Len(x)) /\ z # <<>>
    BY <2>2, AppendFacts DEF Longer
  <2> QED
    BY <2>3 DEF x, z
<1> QED
  BY <1>2, <1>3, <1>4 DEF Grows

LEMMA GrownHolds ==
    ASSUME NEW lines \in [Nat -> Seq(Entry)], NEW new, Grows(lines, new), NEW t \in Nat,
           NEW i, NEW u
    PROVE  /\ HoldsAt(lines[t], i, u) => HoldsAt(new[t], i, u)
           /\ lines[t] # <<>> /\ u # t /\ HoldsAt(new[t], i, u) => HoldsAt(lines[t], i, u)
<1>1. lines[t] \in Seq(Entry)
  OBVIOUS
<1>2. CASE new[t] = lines[t]
  BY <1>2
<1>3. CASE lines[t] = <<>> /\ new[t] # <<>>
  BY <1>3 DEF HoldsAt
<1>4. CASE \E e \in Entry : e.term = t /\ lines[t] # <<>> /\ new[t] = Append(lines[t], e)
  BY <1>1, <1>4, AppendHolds
<1> QED
  BY <1>2, <1>3, <1>4 DEF Grows

\* What was missed stays missed.
LEMMA MissedStays ==
    ASSUME NEW lines \in [Nat -> Seq(Entry)], NEW new, Grows(lines, new),
           NEW term \in Nat, NEW i, NEW n \in Int, NEW upto \in Int, n <= upto,
           Missed(lines, term, i, n)
    PROVE  Missed(new, term, i, upto)
<1>1. PICK u \in Nat : term < u /\ u <= n /\ lines[u] # <<>> /\ ~ HoldsAt(lines[u], i, term)
  BY DEF Missed
<1>2. new[u] # <<>>
  BY <1>1, GrownSound
<1>3. term # u
  BY <1>1
<1>4. ~ HoldsAt(new[u], i, term)
  BY <1>1, <1>3, GrownHolds
<1>5. u <= upto
  BY <1>1
<1> QED
  BY <1>1, <1>2, <1>4, <1>5 DEF Missed

\* A line as far as it went is a line.
LEMMA GrownSame ==
    ASSUME NEW lines \in [Nat -> Seq(Entry)], NEW new, Grows(lines, new), NEW t \in Nat,
           NEW x \in Seq(Entry), NEW n \in Nat, SameTo(x, lines[t], n)
    PROVE  SameTo(x, new[t], n)
<1>1. lines[t] \in Seq(Entry) /\ new[t] \in Seq(Entry)
  BY DEF Grows
<1>2. SameTo(new[t], lines[t], Len(lines[t]))
  BY GrownSound
<1>3. n <= Len(lines[t]) /\ Len(lines[t]) \in Nat
  BY <1>1 DEF SameTo
<1>4. SameTo(lines[t], new[t], n)
  BY <1>1, <1>2, <1>3, SameToLess, SameToSymmetric
<1> QED
  BY <1>4, SameToJoins

LEMMA GrownFollows ==
    ASSUME NEW lines \in [Nat -> Seq(Entry)], NEW new, Grows(lines, new),
           NEW x \in Seq(Entry), Follows(lines, x)
    PROVE  Follows(new, x)
<1> SUFFICES ASSUME NEW i \in DOMAIN x PROVE SameTo(x, new[x[i].term], i)
  BY DEF Follows
<1>1. i \in Nat /\ x[i].term \in Nat
  <2>1. DOMAIN x = 1 .. Len(x) /\ Len(x) \in Nat /\ x[i].term \in Nat
    BY EntriesTyped
  <2>2. i \in 1 .. Len(x)
    BY <2>1
  <2> QED
    BY <2>1, <2>2
<1>2. SameTo(x, lines[x[i].term], i)
  BY DEF Follows
<1> QED
  BY <1>1, <1>2, GrownSame

\* The lines grow only where an entry is added, in the line of the leader that adds it.
GrowsBy(lines, r, s, new) ==
    /\ Grows(lines, new)
    /\ s.role = "leader" => new[s.term] = s.log
    /\ \A t \in Nat : new[t] # lines[t] => Adds(r, s) /\ t = s.term
    /\ Adds(r, s) => lines[s.term] = <<>> \/ lines[s.term] = replicas[r].log
    /\ Adds(r, s) /\ replicas[r].role # "leader" => lines[s.term] = <<>>

LEMMA LinesByGrow ==
    ASSUME Voting, NEW lines, Logging(lines), NEW held, OneLeaderATerm',
           NEW r \in Replica, NEW s, NEW messages, Does(lines, held, r, s, messages),
           replicas'[r] = s, \A q \in Replica : q # r => replicas'[q] = replicas[q],
           NEW new, new = LinesBy(lines, s)
    PROVE  GrowsBy(lines, r, s, new)
<1> DEFINE a == replicas[r]
<1>1. /\ lines \in [Nat -> Seq(Entry)] /\ s.term \in Nat /\ s.log \in Seq(Entry)
      /\ a.log \in Seq(Entry) /\ DOMAIN replicas = Replica
      /\ a.role = "leader" => lines[a.term] = a.log
  BY DEF Does, Typed, Logging, LinesSound, LogsFollow, LeadersWrite, Voting, ReplicasTyped
<1>2. new \in [Nat -> Seq(Entry)] /\ (s.role = "leader" => new[s.term] = s.log)
      /\ \A t \in Nat : new[t] # lines[t] => s.role = "leader" /\ t = s.term
  BY <1>1 DEF LinesBy
<1>3. Adds(r, s) => lines[s.term] = <<>> \/ (lines[s.term] = a.log /\ a.role = "leader")
  <2> SUFFICES ASSUME Adds(r, s), lines[s.term] # <<>>
               PROVE  lines[s.term] = a.log /\ a.role = "leader"
    OBVIOUS
  <2>1. CASE a.role = "leader"
    BY <1>1, <2>1 DEF Adds
  <2>2. CASE s.term \notin a.led
    <3>1. PICK q \in Replica : s.term \in replicas[q].led
      BY <1>1 DEF Logging, LinesLed
    <3>2. q # r
      BY <2>2, <3>1
    <3>3. s.term \in replicas'[q].led /\ s.term \in replicas'[r].led
      BY <1>1, <3>1, <3>2 DEF Adds
    <3> QED
      BY <3>2, <3>3 DEF OneLeaderATerm
  <2> QED
    BY <2>1, <2>2 DEF Adds
<1>4. CASE Adds(r, s)
  <2>1. PICK e \in Entry : e.term = s.term /\ s.log = Append(a.log, e)
    BY <1>4 DEF Adds
  <2>2. s.log # <<>>
    <3>1. a.log \in Seq(Entry)
      BY <1>1
    <3> QED
      BY <2>1, <3>1, AppendFacts DEF Longer
  <2>3. s.role = "leader"
    BY <1>4 DEF Adds
  <2>4. \A t \in Nat :
          \/ new[t] = lines[t]
          \/ lines[t] = <<>> /\ new[t] # <<>>
          \/ \E f \in Entry : f.term = t /\ lines[t] # <<>> /\ new[t] = Append(lines[t], f)
    BY <1>2, <1>3, <1>4, <2>1, <2>2, <2>3
  <2> QED
    BY <1>2, <1>3, <1>4, <2>4 DEF Grows, GrowsBy
<1>5. CASE ~ Adds(r, s)
  <2>1. s.role = "leader" => Keeps(a, s)
    BY <1>5 DEF Does, Takes
  <2>2. s.role = "leader" => s.log = lines[s.term]
    BY <1>1, <2>1 DEF Keeps
  <2>3. \A t \in Nat : new[t] = lines[t]
    BY <1>2, <2>2
  <2> QED
    BY <1>2, <1>5, <2>3 DEF Grows, GrowsBy
<1> QED
  BY <1>4, <1>5

LEMMA AddsFollow ==
    ASSUME NEW lines, LinesSound(lines), LogsFollow(lines), NEW new, Grows(lines, new),
           NEW r \in Replica, NEW s, Adds(r, s), new[s.term] = s.log, s.term \in Nat,
           s.log \in Seq(Entry)
    PROVE  Follows(new, s.log) /\ TermsTo(s.log, s.term)
<1> DEFINE x == replicas[r].log
           z == s.log
<1>1. /\ x \in Seq(Entry) /\ Follows(lines, x) /\ TermsTo(x, s.term)
      /\ lines \in [Nat -> Seq(Entry)]
  BY DEF LogsFollow, Typed, LinesSound, Adds
<1>2. PICK e \in Entry : e.term = s.term /\ z = Append(x, e)
  BY DEF Adds
<1>3. z \in Seq(Entry) /\ new[s.term] = z
  OBVIOUS
<1>x. x \in Seq(Entry) /\ z = Append(x, e) /\ e \in Entry
  BY <1>1, <1>2
<1> HIDE DEF x, z
<1>4. /\ Len(z) = Len(x) + 1 /\ Len(x) \in Nat
      /\ DOMAIN x = 1 .. Len(x) /\ DOMAIN z = 1 .. Len(x) + 1
      /\ \A i \in 1 .. Len(x) : z[i] = x[i]
      /\ z[Len(x) + 1] = e
      /\ SameTo(z, x, Len(x))
  <2>1. Longer(x, e, z)
    BY <1>x, AppendFacts
  <2> QED
    BY <2>1 DEF Longer
<1>5. Follows(new, x)
  BY <1>1, GrownFollows
<1>6. ASSUME NEW i \in DOMAIN z
      PROVE  SameTo(z, new[z[i].term], i) /\ z[i].term <= s.term
  <2>1. CASE i \in DOMAIN x
    <3>1. i \in Nat /\ i <= Len(x) /\ z[i] = x[i]
      BY <1>4, <2>1
    <3>2. SameTo(z, x, i)
      BY <1>1, <1>3, <1>4, <3>1, SameToLess
    <3>3. SameTo(x, new[x[i].term], i) /\ x[i].term <= s.term
      BY <1>1, <1>5, <2>1 DEF Follows, TermsTo
    <3> QED
      BY <3>1, <3>2, <3>3, SameToJoins
  <2>2. CASE i = Len(x) + 1
    <3>1. z[i].term = s.term
      BY <1>2, <1>4, <2>2
    <3>2. SameTo(z, z, i)
      BY <1>4, <2>2 DEF SameTo
    <3> QED
      BY <1>3, <3>1, <3>2
  <2> QED
    BY <1>4, <1>6, <2>1, <2>2
<1> QED
  BY <1>6 DEF Follows, TermsTo, z

\* A copy of a line is a copy of the line further on.
LEMMA StretchGrows ==
    ASSUME NEW x \in Seq(Entry), NEW y \in Seq(Entry), SameTo(y, x, Len(x)),
           NEW m, m.prev \in End, m.entries \in Seq(Entry), StretchOf(m, x)
    PROVE  StretchOf(m, y)
<1> DEFINE at == m.prev.index
           es == m.entries
<1>1. /\ at \in Nat /\ Len(es) \in Nat /\ DOMAIN es = 1 .. Len(es)
      /\ at + Len(es) <= Len(x) /\ m.prev.term = TermAt(x, at)
      /\ \A j \in 1 .. Len(es) : es[j] = x[at + j]
  BY EntriesTyped DEF End, StretchOf
<1>2. /\ Len(x) \in Nat /\ DOMAIN x = 1 .. Len(x) /\ Len(y) \in Nat /\ DOMAIN y = 1 .. Len(y)
      /\ Len(x) <= Len(y) /\ \A j \in 1 .. Len(x) : y[j] = x[j]
  BY EntriesTyped DEF SameTo
<1> HIDE DEF at, es
<1>3. at + Len(es) <= Len(y)
  BY <1>1, <1>2
<1>4. TermAt(x, at) = TermAt(y, at)
  <2>1. at \in DOMAIN x <=> at \in DOMAIN y
    BY <1>1, <1>2
  <2>2. at \in DOMAIN x => x[at] = y[at]
    BY <1>1, <1>2
  <2> QED
    BY <2>1, <2>2 DEF TermAt
<1>5. \A j \in 1 .. Len(es) : es[j] = y[at + j]
  BY <1>1, <1>2
<1>6. y # <<>>
  <2>1. x # <<>>
    BY DEF StretchOf
  <2>2. Len(x) > 0
    BY <1>2, <2>1, LastTerm
  <2> QED
    BY <1>2, <2>2
<1> QED
  BY <1>1, <1>3, <1>4, <1>5, <1>6 DEF StretchOf, at, es

\* What a step touches.
LEMMA StepTouches ==
    ASSUME Voting, NEW r \in Replica, NEW s, NEW messages, NEW left,
           BagToSet(left) \subseteq BagToSet(wire), Becomes(r, s, messages, left)
    PROVE  /\ replicas' = [replicas EXCEPT ![r] = s]
           /\ replicas'[r] = s /\ \A q \in Replica : q # r => replicas'[q] = replicas[q]
           /\ \A m \in BagToSet(wire') : m \in BagToSet(wire) \/ m \in messages
           /\ yeses' = yeses \cup Yeses(messages)
           /\ UNCHANGED clientVars
BY SentOnWire DEF Becomes, Voting, ReplicasTyped

LEMMA LoggingStays ==
    ASSUME Voting, Voting', OneLeaderATerm', NEW lines, NEW held, Logging(lines),
           NEW r \in Replica, NEW s, NEW messages, NEW left,
           BagToSet(left) \subseteq BagToSet(wire), Becomes(r, s, messages, left),
           Does(lines, held, r, s, messages),
           NEW new, new = LinesBy(lines, s)
    PROVE  Logging(new)'
<1> DEFINE a == replicas[r]
<1>1. /\ replicas' = [replicas EXCEPT ![r] = s]
      /\ replicas'[r] = s /\ \A q \in Replica : q # r => replicas'[q] = replicas[q]
      /\ \A m \in BagToSet(wire') : m \in BagToSet(wire) \/ m \in messages
  BY StepTouches
<1>2. /\ Grows(lines, new)
      /\ s.role = "leader" => new[s.term] = s.log
      /\ \A t \in Nat : new[t] # lines[t] => Adds(r, s) /\ t = s.term
  <2>1. replicas'[r] = s /\ \A q \in Replica : q # r => replicas'[q] = replicas[q]
    BY <1>1
  <2>2. GrowsBy(lines, r, s, new)
    BY <2>1, LinesByGrow
  <2> QED
    BY <2>2 DEF GrowsBy
<1>0. Keeps(a, s) \/ Takes(lines, a, s) \/ Adds(r, s)
  BY DEF Does
<1>3. /\ lines \in [Nat -> Seq(Entry)] /\ s.term \in Nat /\ a.term \in Nat /\ s.term >= a.term
      /\ s.log \in Seq(Entry) /\ a.log \in Seq(Entry) /\ Typed(s)
      /\ Follows(lines, a.log) /\ TermsTo(a.log, a.term)
      /\ new \in [Nat -> Seq(Entry)]
  BY <1>2 DEF Does, Typed, Logging, LinesSound, LogsFollow, Voting, ReplicasTyped, Grows
<1>4. Adds(r, s) => Follows(new, s.log) /\ TermsTo(s.log, s.term) /\ new[s.term] = s.log
  <2> SUFFICES ASSUME Adds(r, s)
               PROVE  Follows(new, s.log) /\ TermsTo(s.log, s.term) /\ new[s.term] = s.log
    OBVIOUS
  <2>1. s.role = "leader" /\ Grows(lines, new) /\ new[s.term] = s.log
    BY <1>2 DEF Adds
  <2> QED
    BY <1>3, <2>1, AddsFollow DEF Logging
<1>5. LinesSound(new)
  <2> SUFFICES ASSUME NEW t \in Nat
               PROVE  Follows(new, new[t]) /\ TermsTo(new[t], t)
    BY <1>3 DEF LinesSound
  <2>1. CASE new[t] = lines[t]
    <3>1. lines[t] \in Seq(Entry) /\ Follows(lines, lines[t]) /\ TermsTo(lines[t], t)
      BY <1>3 DEF Logging, LinesSound
    <3> QED
      BY <1>2, <1>3, <2>1, <3>1, GrownFollows
  <2>2. CASE new[t] # lines[t]
    BY <1>2, <1>4, <2>2
  <2> QED
    BY <2>1, <2>2
<1>6. LinesLed(new)'
  <2> SUFFICES ASSUME NEW t \in Nat, new[t] # <<>>
               PROVE  \E q \in Replica : t \in replicas'[q].led
    BY DEF LinesLed
  <2>1. CASE lines[t] # <<>>
    <3>1. PICK q \in Replica : t \in replicas[q].led
      BY <2>1 DEF Logging, LinesLed
    <3> QED
      BY <1>1, <3>1 DEF Does
  <2>2. CASE lines[t] = <<>>
    BY <1>1, <1>2, <2>2 DEF Adds
  <2> QED
    BY <2>1, <2>2
<1>7. LogsFollow(new)'
  <2> SUFFICES ASSUME NEW q \in Replica
               PROVE  /\ Typed(replicas'[q]) /\ Follows(new, replicas'[q].log)
                      /\ TermsTo(replicas'[q].log, replicas'[q].term)
    BY DEF LogsFollow, Typed, Follows, TermsTo, SameTo
  <2>1. CASE q # r
    <3>1. /\ Typed(replicas[q]) /\ replicas[q].log \in Seq(Entry) /\ Follows(lines, replicas[q].log)
          /\ TermsTo(replicas[q].log, replicas[q].term)
      BY DEF Logging, LogsFollow, Typed
    <3> QED
      BY <1>1, <1>2, <1>3, <2>1, <3>1, GrownFollows
  <2>2. CASE q = r
    <3>1. CASE Keeps(a, s)
      <4>1. TermsTo(s.log, s.term)
        <5> SUFFICES ASSUME NEW i \in DOMAIN a.log PROVE a.log[i].term <= s.term
          BY <3>1 DEF Keeps, TermsTo
        <5>1. a.log[i].term \in Nat
          BY <1>3, EntriesTyped
        <5>2. a.log[i].term <= a.term
          BY <1>3 DEF TermsTo
        <5>3. s.term \in Nat /\ a.term \in Nat /\ a.term <= s.term
          BY <1>3
        <5> HIDE DEF a
        <5> QED
          BY <5>1, <5>2, <5>3
      <4>2. Follows(new, a.log)
        BY <1>2, <1>3, GrownFollows
      <4> QED
        BY <1>1, <1>3, <2>2, <3>1, <4>1, <4>2 DEF Keeps
    <3>2. CASE Takes(lines, a, s)
      <4>1. Follows(lines, s.log) /\ TermsTo(s.log, s.term)
        BY <3>2 DEF Takes
      <4> QED
        BY <1>1, <1>2, <1>3, <2>2, <4>1, GrownFollows
    <3>3. CASE Adds(r, s)
      BY <1>1, <1>3, <1>4, <2>2, <3>3
    <3> QED
      BY <3>1, <3>2, <3>3 DEF Does
  <2> QED
    BY <2>1, <2>2
<1>8. LeadersWrite(new)'
  <2> SUFFICES ASSUME NEW q \in Replica
               PROVE  /\ replicas'[q].role = "leader" =>
                            /\ replicas'[q].term \in replicas'[q].led
                            /\ new[replicas'[q].term] = replicas'[q].log
                            /\ replicas'[q].log # <<>>
                            /\ \A p \in Replica :
                                  /\ replicas'[q].matched[p] <= Len(replicas'[q].log)
                                  /\ replicas'[q].next[p] <= Len(replicas'[q].log) + 1
                      /\ replicas'[q].role = "candidate" => replicas'[q].term \notin replicas'[q].led
    BY DEF LeadersWrite
  <2>1. CASE q # r
    <3>1. /\ replicas[q].role = "leader" =>
                /\ replicas[q].term \in replicas[q].led
                /\ lines[replicas[q].term] = replicas[q].log
                /\ replicas[q].log # <<>>
                /\ \A p \in Replica :
                      /\ replicas[q].matched[p] <= Len(replicas[q].log)
                      /\ replicas[q].next[p] <= Len(replicas[q].log) + 1
          /\ replicas[q].role = "candidate" => replicas[q].term \notin replicas[q].led
          /\ replicas[q].term \in Nat
      BY DEF Logging, LeadersWrite, Voting, ReplicasTyped
    <3>2. replicas[q].role = "leader" => ~ (Adds(r, s) /\ replicas[q].term = s.term)
      BY <1>1, <2>1, <3>1 DEF Adds, OneLeaderATerm
    <3> QED
      BY <1>1, <1>2, <2>1, <3>1, <3>2
  <2>2. CASE q = r
    <3>1. s.role = "leader" => s.term \in s.led
      BY DEF Does, Keeps, Takes, Adds, Logging, LeadersWrite
    <3>2. s.role = "leader" =>
             \A p \in Replica : s.matched[p] <= Len(s.log) /\ s.next[p] <= Len(s.log) + 1
      BY DEF Does, Notes
    <3>3. s.role = "candidate" => s.term \notin s.led
      <4> SUFFICES ASSUME s.role = "candidate" PROVE s.term \notin a.led /\ s.led = a.led
        OBVIOUS
      <4>1. Keeps(a, s)
        <5>1. Takes(lines, a, s) => s.role = "follower"
          BY DEF Takes
        <5>2. Adds(r, s) => s.role = "leader"
          BY DEF Adds
        <5> QED
          BY <1>0, <5>1, <5>2
      <4>2. \A t \in a.led : t <= a.term
        <5>1. a.term \in Nat /\ a.led \subseteq Nat
          BY DEF Voting, ReplicasTyped
        <5> QED
          BY <5>1 DEF Voting, LeadersElected
      <4>3. a.role = "candidate" => a.term \notin a.led
        BY DEF Logging, LeadersWrite
      <4>4. \/ a.role = "candidate" /\ s.term = a.term
            \/ s.term > a.term
        BY <4>1 DEF Keeps
      <4>5. CASE a.role = "candidate" /\ s.term = a.term
        BY <4>1, <4>3, <4>5 DEF Keeps
      <4>6. CASE s.term > a.term
        <5>0. a.term \in Nat /\ s.term \in Nat
          BY <1>3
        <5>1. s.term \notin a.led
          BY <5>0, <4>2, <4>6
        <5> QED
          BY <4>1, <5>1 DEF Keeps
      <4> QED
        BY <4>4, <4>5, <4>6
    <3>4. s.role = "leader" => s.log # <<>>
      <4>1. Keeps(a, s) /\ s.role = "leader" => s.log # <<>>
        <5>1. a.role = "leader" => a.log # <<>>
          BY DEF Logging, LeadersWrite
        <5> QED
          BY <5>1 DEF Keeps
      <4>2. ASSUME Adds(r, s) PROVE s.log # <<>>
        <5>1. PICK e \in Entry : s.log = Append(a.log, e)
          BY <4>2 DEF Adds
        <5>2. a.log \in Seq(Entry)
          BY <1>3
        <5> HIDE DEF a
        <5> QED
          BY <5>1, <5>2, AppendFacts DEF Longer
      <4> QED
        BY <1>0, <4>1, <4>2 DEF Takes
    <3> QED
      BY <1>1, <1>2, <2>2, <3>1, <3>2, <3>3, <3>4
  <2> QED
    BY <2>1, <2>2
<1>9. CopiesFollow(new)'
  <2> SUFFICES ASSUME NEW m \in BagToSet(wire')
               PROVE  /\ CarriesLog(m)
                      /\ m.kind = "Append" => StretchOf(m, new[m.term])
                      /\ m.kind = "Appended" =>
                            m.matched = Unmatched \/ m.matched <= Len(new[m.term])
    BY DEF CopiesFollow
  <2>1. m.kind \in {"Append", "Appended"} => m.term \in Nat
    BY DEF Voting, WireSensible, Sensible
  <2>2. CASE m \in BagToSet(wire)
    <3>1. /\ CarriesLog(m)
          /\ m.kind = "Append" => StretchOf(m, lines[m.term])
          /\ m.kind = "Appended" => m.matched = Unmatched \/ m.matched <= Len(lines[m.term])
      BY <2>2 DEF Logging, CopiesFollow
    <3>2. m.kind \in {"Append", "Appended"} =>
             /\ lines[m.term] \in Seq(Entry) /\ new[m.term] \in Seq(Entry)
             /\ SameTo(new[m.term], lines[m.term], Len(lines[m.term]))
      BY <1>2, <1>3, <2>1, GrownSound
    <3>3. m.kind = "Append" => StretchOf(m, new[m.term])
      BY <3>1, <3>2, StretchGrows DEF CarriesLog
    <3>4. m.kind = "Appended" => m.matched = Unmatched \/ m.matched <= Len(new[m.term])
      <4> SUFFICES ASSUME m.kind = "Appended", m.matched # Unmatched
                   PROVE  m.matched <= Len(new[m.term])
        OBVIOUS
      <4>1. m.matched \in Nat
        BY <3>1 DEF CarriesLog
      <4>2. Len(new[m.term]) \in Nat /\ Len(lines[m.term]) \in Nat
            /\ Len(lines[m.term]) <= Len(new[m.term])
        BY <3>2, EntriesTyped DEF SameTo
      <4> QED
        BY <3>1, <4>1, <4>2
    <3> QED
      BY <3>1, <3>3, <3>4
  <2>3. CASE m \in messages
    <3>1. Says(lines, held, r, s, m)
      BY <2>3 DEF Does
    <3>2. m.kind = "Append" => StretchOf(m, new[m.term])
      BY <1>2, <3>1 DEF Says
    <3>3. m.kind = "Appended" => m.matched = Unmatched \/ m.matched <= Len(new[m.term])
      <4> SUFFICES ASSUME m.kind = "Appended", m.matched # Unmatched
                   PROVE  m.matched <= Len(new[m.term])
        OBVIOUS
      <4>1. m.matched \in Nat /\ m.term = s.term /\ m.matched <= Len(lines[s.term])
        BY <3>1 DEF Says, CarriesLog
      <4>2. lines[s.term] \in Seq(Entry) /\ new[s.term] \in Seq(Entry)
            /\ SameTo(new[s.term], lines[s.term], Len(lines[s.term]))
        BY <1>2, <1>3, GrownSound
      <4>3. Len(new[s.term]) \in Nat /\ Len(lines[s.term]) \in Nat
            /\ Len(lines[s.term]) <= Len(new[s.term])
        BY <4>2, EntriesTyped DEF SameTo
      <4> QED
        BY <4>1, <4>3
    <3> QED
      BY <3>1, <3>2, <3>3 DEF Says
  <2> QED
    BY <1>1, <2>2, <2>3
<1> QED
  BY <1>5, <1>6, <1>7, <1>8, <1>9 DEF Logging

--------------------------------------------------------------------------------
(* What such a step does to what is held and chosen. *)

Stepped(r, s, messages) ==
    /\ replicas'[r] = s /\ \A q \in Replica : q # r => replicas'[q] = replicas[q]
    /\ \A m \in BagToSet(wire') : m \in BagToSet(wire) \/ m \in messages
    /\ yeses' = yeses \cup Yeses(messages)
    /\ UNCHANGED clientVars

\* An entry held stays held, or a later line missed it.
LEMMA HoldsStays ==
    ASSUME NEW lines, LinesSound(lines), NEW r \in Replica, NEW s, NEW a, a = replicas[r],
           a.log \in Seq(Entry), s.log \in Seq(Entry),
           Keeps(a, s) \/ Takes(lines, a, s) \/ Adds(r, s),
           NEW i \in Nat, NEW term \in Nat, HoldsAt(a.log, i, term)
    PROVE  HoldsAt(s.log, i, term) \/ Missed(lines, term, i, s.term)
<1>1. CASE Keeps(a, s)
  BY <1>1 DEF Keeps
<1>2. CASE Takes(lines, a, s)
  BY <1>2 DEF Takes
<1>3. CASE Adds(r, s)
  <2>1. PICK e \in Entry : s.log = Append(a.log, e)
    BY <1>3 DEF Adds
  <2> QED
    BY <2>1, AppendHolds
<1> QED
  BY <1>1, <1>2, <1>3

LEMMA HeldIsKeptStays ==
    ASSUME Voting, NEW lines, NEW held, Logging(lines), Choosing(lines, held),
           NEW r \in Replica, NEW s, NEW messages, Stepped(r, s, messages),
           Does(lines, held, r, s, messages),
           NEW new, Grows(lines, new), Logging(new)',
           NEW kept, kept = HeldBy(held, r, s)
    PROVE  HeldIsKept(new, kept)'
<1> DEFINE a == replicas[r]
<1>1. replicas'[r] = s /\ \A q \in Replica : q # r => replicas'[q] = replicas[q]
  BY DEF Stepped
<1>2. lines \in [Nat -> Seq(Entry)] /\ LinesSound(lines)
  BY DEF Logging, LinesSound
<1>3. a.log \in Seq(Entry)
  BY DEF Logging, LogsFollow, Typed
<1>4. s.log \in Seq(Entry)
  BY DEF Does, Typed
<1>5. \A q \in Replica : replicas[q].term \in Nat
  BY DEF Voting, ReplicasTyped
<1>6. s.term \in Nat /\ a.term \in Nat /\ a.term <= s.term
  BY <1>5 DEF Does
<1>7. Keeps(a, s) \/ Takes(lines, a, s) \/ Adds(r, s)
  BY DEF Does
<1>8. new \in [Nat -> Seq(Entry)] /\ Follows(new, s.log)
  BY <1>1 DEF Logging, LinesSound, LogsFollow
<1>9. HeldIsKept(lines, held)
  BY DEF Choosing
<1> HIDE DEF a
<1>10. kept \subseteq Replica \X Nat \X Nat
  <2>1. \A i \in DOMAIN s.log : i \in Nat
    BY <1>4, EntriesTyped
  <2>2. held \subseteq Replica \X Nat \X Nat
    BY <1>9 DEF HeldIsKept
  <2> QED
    BY <1>6, <2>1, <2>2 DEF HeldBy
<1>11. ASSUME NEW p \in Replica, NEW term \in Nat, NEW i \in Nat, <<p, term, i>> \in kept
       PROVE  /\ HoldsAt(new[term], i, term)
              /\ replicas'[p].term >= term
              /\ HoldsAt(replicas'[p].log, i, term) \/ Missed(new, term, i, replicas'[p].term)
  <2>1. CASE <<p, term, i>> \in held
    <3>1. HoldsAt(lines[term], i, term)
      BY <1>9, <2>1 DEF HeldIsKept
    <3>2. replicas[p].term >= term
      BY <1>9, <2>1 DEF HeldIsKept
    <3>3. HoldsAt(replicas[p].log, i, term) \/ Missed(lines, term, i, replicas[p].term)
      BY <1>9, <2>1 DEF HeldIsKept
    <3>4. HoldsAt(new[term], i, term)
      BY <1>2, <3>1, GrownHolds
    <3>5. CASE p # r
      <4> DEFINE n == replicas[p].term
      <4>1. n \in Int /\ n <= n
        BY <1>5
      <4> HIDE DEF n
      <4>2. Missed(lines, term, i, n) => Missed(new, term, i, n)
        BY <1>2, <4>1, MissedStays
      <4> QED
        BY <1>1, <3>2, <3>3, <3>4, <3>5, <4>2 DEF n
    <3>6. CASE p = r
      <4>1. a.term \in Int /\ s.term \in Int /\ s.term <= s.term /\ s.term >= term
        BY <1>6, <3>2, <3>6 DEF a
      <4>2. Missed(lines, term, i, a.term) => Missed(new, term, i, s.term)
        BY <1>2, <1>6, <4>1, MissedStays
      <4>3. HoldsAt(a.log, i, term) => HoldsAt(s.log, i, term) \/ Missed(lines, term, i, s.term)
        <5>1. a = replicas[r]
          BY DEF a
        <5> QED
          BY <1>2, <1>3, <1>4, <1>7, <5>1, HoldsStays
      <4>4. Missed(lines, term, i, s.term) => Missed(new, term, i, s.term)
        BY <1>2, <4>1, MissedStays
      <4>5. HoldsAt(a.log, i, term) \/ Missed(lines, term, i, a.term)
        BY <3>3, <3>6 DEF a
      <4> QED
        BY <1>1, <3>4, <3>6, <4>1, <4>2, <4>3, <4>4, <4>5
    <3> QED
      BY <3>5, <3>6
  <2>2. CASE <<p, term, i>> \notin held
    <3>1. p = r /\ term = s.term /\ HoldsAt(s.log, i, term)
      BY <1>11, <2>2 DEF HeldBy, HoldsAt
    <3>2. HoldsAt(new[term], i, term)
      BY <1>4, <1>8, <3>1, FollowsTo
    <3>3. s.term >= term
      BY <1>6, <3>1
    <3> QED
      BY <1>1, <3>1, <3>2, <3>3
  <2> QED
    BY <2>1, <2>2
<1>12. ASSUME NEW p \in Replica, NEW i \in Nat,
              HoldsAt(replicas'[p].log, i, replicas'[p].term)
       PROVE  <<p, replicas'[p].term, i>> \in kept
  <2>1. CASE p # r
    BY <1>1, <1>9, <1>12, <2>1 DEF HeldIsKept, HeldBy
  <2>2. CASE p = r
    BY <1>1, <1>12, <2>2 DEF HeldBy, HoldsAt
  <2> QED
    BY <2>1, <2>2
<1> QED
  BY <1>10, <1>11, <1>12 DEF HeldIsKept, HoldsAt, Missed

\* What is new among the votes.
LEMMA NewVotes ==
    ASSUME NEW r, NEW s, NEW messages, Stepped(r, s, messages),
           NEW p, NEW c, NEW term, VotedFor(p, c, term)'
    PROVE  \/ VotedFor(p, c, term)
           \/ \E m \in messages : /\ m.kind = "Vote" /\ m.granted
                                  /\ m.from = p /\ m.to = c /\ m.term = term
BY DEF Stepped, VotedFor, Gave, Yeses

\* Nobody holds an entry of a term having voted in a later one, unless it did before.
LEMMA NothingNewHeld ==
    ASSUME Voting', NEW r \in Replica, NEW s, NEW messages, Stepped(r, s, messages),
           NEW held, NEW kept, kept = HeldBy(held, r, s),
           NEW p \in Replica, NEW term \in Nat, NEW i \in Nat, NEW u \in Nat, term < u,
           replicas'[p].term >= u, <<p, term, i>> \in kept
    PROVE  <<p, term, i>> \in held
<1> SUFFICES ASSUME <<p, term, i>> \notin held
             PROVE  FALSE
  OBVIOUS
<1>1. p = r /\ term = s.term
  BY DEF HeldBy
<1>2. replicas'[p].term = term
  BY <1>1 DEF Stepped
<1> QED
  BY <1>2

LEMMA VotersThere ==
    ASSUME Voting, NEW c \in Replica, NEW p \in Replica, NEW u, u = replicas[c].term,
           VotedFor(p, c, u)
    PROVE  u \in Nat /\ replicas[p].term >= u
<1>1. \A q \in Replica : replicas[q].term \in Nat
  BY DEF Voting, ReplicasTyped
<1>2. CASE p = c
  BY <1>1, <1>2
<1>3. CASE Gave(yeses, p, c, u)
  BY <1>1, <1>3 DEF Gave, Voting, VotesSpent
<1> QED
  BY <1>2, <1>3 DEF VotedFor

LEMMA EmptyEnd ==
    ASSUME NEW x, x = <<>>
    PROVE  EndOf(x).term = 0 /\ EndOf(x).index = 0
BY DEF EndOf, TermAt

\* Who is no further back than a log that holds an entry holds it, or was led by someone
\* who missed it.
LEMMA UpToDateHolds ==
    ASSUME NEW lines, LinesSound(lines),
           NEW x \in Seq(Entry), Follows(lines, x), NEW y \in Seq(Entry), Follows(lines, y),
           UpToDate(EndOf(x), EndOf(y)), NEW i \in Nat, NEW term \in Nat, HoldsAt(y, i, term)
    PROVE  \/ HoldsAt(x, i, term)
           \/ /\ x # <<>> /\ term < x[Len(x)].term /\ lines[x[Len(x)].term] # <<>>
              /\ ~ HoldsAt(lines[x[Len(x)].term], i, term)
<1>1. lines \in [Nat -> Seq(Entry)]
  BY DEF LinesSound
<1>2. y # <<>> /\ i \in DOMAIN y /\ y[i].term = term
  BY DEF HoldsAt
<1>3. Len(y) \in Nat /\ i \in Nat /\ i > 0 /\ i <= Len(y)
  BY <1>2, EntriesTyped
<1>4. EndOf(y).term \in Nat /\ EndOf(y).term >= term /\ EndOf(y).index = Len(y)
  <2>1. Len(y) \in DOMAIN y /\ EndOf(y).term = y[Len(y)].term /\ EndOf(y).index = Len(y)
        /\ y[Len(y)].term \in Nat
    BY <1>2, LastTerm
  <2>2. y[i].term <= y[Len(y)].term
    BY <1>2, <1>3, <2>1, TermsRise
  <2> QED
    BY <1>2, <2>1, <2>2
<1>5. x # <<>>
  <2> SUFFICES ASSUME x = <<>> PROVE FALSE
    OBVIOUS
  <2>1. EndOf(x).term = 0 /\ EndOf(x).index = 0
    BY EmptyEnd
  <2> QED
    BY <1>3, <1>4, <2>1 DEF UpToDate
<1> DEFINE n == Len(x)
           w == x[n].term
           z == lines[w]
<1>6. n \in Nat /\ n > 0 /\ n \in DOMAIN x /\ w \in Nat /\ EndOf(x).term = w /\ EndOf(x).index = n
  BY <1>5, LastTerm
<1>7. SameTo(x, z, n) /\ z \in Seq(Entry) /\ Follows(lines, z) /\ HoldsAt(z, n, w)
  <2>1. HoldsAt(x, n, w)
    BY <1>6 DEF HoldsAt
  <2>2. SameTo(x, z, n) /\ HoldsAt(z, n, w)
    BY <1>1, <2>1, FollowsTo
  <2> QED
    BY <1>6, <2>2 DEF LinesSound
<1> HIDE DEF n, w, z
<1>8. w >= term
  BY <1>4, <1>6 DEF UpToDate
<1>9. CASE w = term
  <2>1. n >= i
    BY <1>3, <1>4, <1>6, <1>9 DEF UpToDate
  <2>2. HoldsAt(z, i, term)
    BY <1>1, <1>9, FollowsTo DEF z
  <2>3. SameTo(z, x, n)
    BY <1>7, SameToSymmetric
  <2> QED
    BY <1>3, <1>6, <1>7, <2>1, <2>2, <2>3, SameToHolds
<1>10. CASE w > term /\ HoldsAt(z, i, term)
  <2>1. n \in DOMAIN z /\ i \in DOMAIN z /\ z[n].term = w /\ z[i].term = term
    BY <1>7, <1>10 DEF HoldsAt
  <2>2. i <= n
    <3> SUFFICES ASSUME n <= i PROVE z[n].term <= z[i].term
      BY <1>3, <1>6, <1>10, <2>1
    <3> QED
      BY <1>7, <2>1, TermsRise
  <2>3. SameTo(z, x, n)
    BY <1>7, SameToSymmetric
  <2> QED
    BY <1>6, <1>7, <1>10, <2>2, <2>3, SameToHolds
<1>11. CASE w > term /\ ~ HoldsAt(z, i, term)
  <2>1. z # <<>>
    BY <1>7 DEF HoldsAt
  <2> QED
    BY <1>5, <1>11, <2>1 DEF n, w, z
<1> QED
  BY <1>6, <1>8, <1>9, <1>10, <1>11

LEMMA VotersThereNext ==
    ASSUME Voting', NEW c \in Replica, NEW p \in Replica, NEW u, u = replicas'[c].term,
           VotedFor(p, c, u)'
    PROVE  u \in Nat /\ replicas'[p].term >= u
<1>1. \A q \in Replica : replicas'[q].term \in Nat
  BY DEF Voting, ReplicasTyped
<1>2. CASE p = c
  BY <1>1, <1>2
<1>3. CASE Gave(yeses', p, c, u)
  BY <1>1, <1>3 DEF Gave, Voting, VotesSpent
<1> QED
  BY <1>2, <1>3 DEF VotedFor

\* What a voter held, its candidate has.
CandidateHas(lines, log, i, term, u) ==
    lines[u] # <<>> \/ HoldsAt(log, i, term) \/ Missed(lines, term, i, u - 1)

\* A voter held it and votes: the candidate is no further back.
LEMMA VoteHas ==
    ASSUME NEW lines, LinesSound(lines), NEW u \in Nat,
           NEW x \in Seq(Entry), Follows(lines, x), TermsTo(x, u),
           NEW y \in Seq(Entry), Follows(lines, y), UpToDate(EndOf(x), EndOf(y)),
           NEW i \in Nat, NEW term \in Nat, term < u,
           HoldsAt(y, i, term) \/ Missed(lines, term, i, u)
    PROVE  CandidateHas(lines, x, i, term, u)
<1>1. CASE Missed(lines, term, i, u)
  <2>1. PICK w \in Nat : term < w /\ w <= u /\ lines[w] # <<>> /\ ~ HoldsAt(lines[w], i, term)
    BY <1>1 DEF Missed
  <2>2. w = u \/ w <= u - 1
    BY <2>1
  <2> QED
    BY <2>1, <2>2 DEF Missed, CandidateHas
<1>2. CASE HoldsAt(y, i, term)
  <2> DEFINE w == x[Len(x)].term
  <2>1. \/ HoldsAt(x, i, term)
        \/ x # <<>> /\ term < w /\ lines[w] # <<>> /\ ~ HoldsAt(lines[w], i, term)
    BY <1>2, UpToDateHolds
  <2>2. CASE x # <<>> /\ term < w /\ lines[w] # <<>> /\ ~ HoldsAt(lines[w], i, term)
    <3>1. w \in Nat /\ Len(x) \in DOMAIN x
      BY <2>2, LastTerm
    <3>2. w <= u
      BY <3>1 DEF TermsTo
    <3>3. w = u \/ w <= u - 1
      BY <3>1, <3>2
    <3> HIDE DEF w
    <3> QED
      BY <2>2, <3>1, <3>3 DEF Missed, CandidateHas
  <2> QED
    BY <2>1, <2>2 DEF CandidateHas
<1> QED
  BY <1>1, <1>2

LEMMA CandidateHasStays ==
    ASSUME NEW lines \in [Nat -> Seq(Entry)], NEW new, Grows(lines, new), NEW u \in Nat,
           NEW log, NEW i \in Nat, NEW term \in Nat, CandidateHas(lines, log, i, term, u)
    PROVE  CandidateHas(new, log, i, term, u)
<1>1. lines[u] # <<>> => new[u] # <<>>
  BY GrownSound
<1>2. PICK n \in Int : n = u - 1
  OBVIOUS
<1>3. n <= n
  OBVIOUS
<1>4. Missed(lines, term, i, n) => Missed(new, term, i, n)
  BY <1>3, MissedStays
<1> QED
  BY <1>1, <1>2, <1>4 DEF CandidateHas

LEMMA CandidatesHoldStays ==
    ASSUME Voting, Voting', NEW lines, NEW held, Logging(lines), Choosing(lines, held),
           NEW r \in Replica, NEW s, NEW messages, Stepped(r, s, messages),
           Does(lines, held, r, s, messages),
           NEW new, Grows(lines, new), Logging(new)',
           NEW kept, kept = HeldBy(held, r, s)
    PROVE  CandidatesHold(new, kept)'
<1> SUFFICES ASSUME NEW c \in Replica, replicas'[c].role = "candidate",
                    NEW p \in Replica, NEW term \in Nat, NEW i \in Nat,
                    VotedFor(p, c, replicas[c].term)', <<p, term, i>> \in kept,
                    term < replicas'[c].term
             PROVE  CandidateHas(new, replicas'[c].log, i, term, replicas'[c].term)
  BY DEF CandidatesHold, CandidateHas, HoldsAt, Missed
<1> DEFINE a == replicas[r]
<1>0. PICK u : u = replicas'[c].term
  OBVIOUS
<1>1. replicas'[r] = s /\ \A q \in Replica : q # r => replicas'[q] = replicas[q]
  BY DEF Stepped
<1>2. lines \in [Nat -> Seq(Entry)] /\ LinesSound(lines)
  BY DEF Logging, LinesSound
<1>3. \A q \in Replica : replicas[q].log \in Seq(Entry) /\ Follows(lines, replicas[q].log)
                         /\ TermsTo(replicas[q].log, replicas[q].term)
  BY DEF Logging, LogsFollow, Typed
<1>4. \A q \in Replica : replicas[q].term \in Nat
  BY DEF Voting, ReplicasTyped
<1>5. u \in Nat /\ replicas'[p].term >= u
  <2>1. VotedFor(p, c, u)' /\ u = replicas'[c].term
    BY <1>0 DEF VotedFor, Gave
  <2> QED
    BY <2>1, VotersThereNext
<1>6. term < u /\ VotedFor(p, c, u)'
  BY <1>0 DEF VotedFor, Gave
<1>7. <<p, term, i>> \in held
  BY <1>5, <1>6, NothingNewHeld
<1>8. HoldsAt(replicas[p].log, i, term) \/ Missed(lines, term, i, replicas[p].term)
  BY <1>7 DEF Choosing, HeldIsKept
<1>9. CandidatesHold(lines, held) /\ RequestsSound
  BY DEF Choosing
<1> HIDE DEF a
<1>10. CASE VotedFor(p, c, u)
  <2>1. ASSUME replicas[c].role = "candidate", replicas[c].term = u, replicas'[c].log = replicas[c].log
        PROVE  CandidateHas(new, replicas'[c].log, i, term, u)
    <3>1. CandidateHas(lines, replicas[c].log, i, term, u)
      BY <1>6, <1>7, <1>9, <1>10, <2>1 DEF CandidatesHold, CandidateHas
    <3> QED
      BY <1>2, <1>5, <2>1, <3>1, CandidateHasStays
  <2>2. CASE c # r
    BY <1>0, <1>1, <2>1, <2>2
  <2>3. CASE c = r
    <3>1. s.role = "candidate" /\ s.term = u
      BY <1>0, <1>1, <2>3
    <3>2. Keeps(a, s)
      BY <3>1 DEF Does, Takes, Adds, a
    <3>3. s.log = a.log
      BY <3>2 DEF Keeps
    <3>4. CASE a.role = "candidate" /\ s.term = a.term
      BY <1>1, <2>1, <2>3, <3>1, <3>3, <3>4 DEF a
    <3>5. CASE s.term > a.term
      <4>1. a.term \in Nat
        BY <1>4 DEF a
      <4>2. ~ Gave(yeses, p, c, u)
        <5> SUFFICES ASSUME Gave(yeses, p, c, u) PROVE FALSE
          OBVIOUS
        <5>1. replicas[c].term >= u
          BY <1>9 DEF Gave, RequestsSound
        <5> QED
          BY <1>5, <2>3, <3>1, <3>5, <4>1, <5>1 DEF a
      <4>3. p = r
        BY <1>10, <2>3, <4>2 DEF VotedFor
      <4>4. HoldsAt(a.log, i, term) \/ Missed(lines, term, i, u - 1)
        <5>1. a.term \in Int /\ u - 1 \in Int /\ a.term <= u - 1
          BY <1>5, <3>1, <3>5, <4>1
        <5>2. HoldsAt(a.log, i, term) \/ Missed(lines, term, i, a.term)
          BY <1>8, <4>3 DEF a
        <5> QED
          BY <5>1, <5>2 DEF Missed
      <4>5. CandidateHas(lines, a.log, i, term, u)
        BY <4>4 DEF CandidateHas
      <4> QED
        BY <1>0, <1>1, <1>2, <1>5, <2>3, <3>3, <4>5, CandidateHasStays
    <3> QED
      BY <3>2, <3>1, <3>4, <3>5 DEF Keeps
  <2> QED
    BY <2>2, <2>3
<1>11. CASE ~ VotedFor(p, c, u)
  <2>1. PICK m \in messages : /\ m.kind = "Vote" /\ m.granted
                              /\ m.from = p /\ m.to = c /\ m.term = u
    BY <1>6, <1>11, NewVotes
  <2>2. Votes(r, s, m)
    BY <2>1 DEF Does, Says
  <2>3. p = r /\ s.term = u /\ s.log = a.log /\ c # r
    BY <2>1, <2>2 DEF Votes, a
  <2>4. replicas'[c] = replicas[c]
    BY <1>1, <2>3
  <2>5. UpToDate(EndOf(replicas[c].log), EndOf(a.log))
    BY <1>0, <2>1, <2>2, <2>3, <2>4 DEF Votes
  <2>6. HoldsAt(a.log, i, term) \/ Missed(lines, term, i, u)
    <3>1. a.term \in Int /\ u \in Int /\ a.term <= u
      BY <1>4, <1>5, <2>3 DEF Does, a
    <3>2. HoldsAt(a.log, i, term) \/ Missed(lines, term, i, a.term)
      BY <1>8, <2>3 DEF a
    <3> QED
      BY <3>1, <3>2 DEF Missed
  <2>7. a.log \in Seq(Entry) /\ Follows(lines, a.log)
    BY <1>3 DEF a
  <2>8. replicas[c].log \in Seq(Entry) /\ Follows(lines, replicas[c].log) /\ TermsTo(replicas[c].log, u)
    BY <1>0, <1>3, <2>4
  <2>9. CandidateHas(lines, replicas[c].log, i, term, u)
    BY <1>2, <1>5, <1>6, <2>5, <2>6, <2>7, <2>8, VoteHas
  <2>10. CandidateHas(new, replicas[c].log, i, term, u)
    BY <1>2, <1>5, <2>9, CandidateHasStays
  <2> QED
    BY <1>0, <2>4, <2>10
<1> QED
  BY <1>0, <1>10, <1>11

\* Terms only rise.
LEMMA TermsStay ==
    ASSUME Voting, NEW lines, NEW held, NEW r \in Replica, NEW s, NEW messages,
           Stepped(r, s, messages), Does(lines, held, r, s, messages), NEW p \in Replica
    PROVE  replicas[p].term \in Nat /\ replicas'[p].term \in Nat
             /\ replicas'[p].term >= replicas[p].term
<1>1. \A q \in Replica : replicas[q].term \in Nat
  BY DEF Voting, ReplicasTyped
<1>2. s.term \in Nat /\ s.term >= replicas[r].term
  BY DEF Does
<1> QED
  BY <1>1, <1>2 DEF Stepped

LEMMA RequestsSoundStays ==
    ASSUME Voting, NEW lines, NEW held, RequestsSound,
           NEW r \in Replica, NEW s, NEW messages, Stepped(r, s, messages),
           Does(lines, held, r, s, messages)
    PROVE  RequestsSound'
<1> DEFINE a == replicas[r]
<1>1. replicas'[r] = s /\ \A q \in Replica : q # r => replicas'[q] = replicas[q]
  BY DEF Stepped
<1>2. s.term \in Nat /\ a.term \in Nat /\ s.term >= a.term
  BY DEF Does, Voting, ReplicasTyped
<1>3. ASSUME NEW m \in BagToSet(wire'), m.kind = "RequestVote"
      PROVE  /\ replicas'[m.from].term >= m.term
             /\ replicas'[m.from].role = "candidate" /\ replicas'[m.from].term = m.term =>
                   m.end = EndOf(replicas'[m.from].log)
  <2>1. CASE m \in BagToSet(wire)
    <3>1. m.from \in Replica /\ m.term \in Nat
      BY <1>3, <2>1 DEF Voting, WireSensible, Sensible
    <3>2. /\ replicas[m.from].term >= m.term
          /\ replicas[m.from].role = "candidate" /\ replicas[m.from].term = m.term =>
                m.end = EndOf(replicas[m.from].log)
      BY <1>3, <2>1 DEF RequestsSound
    <3>3. CASE m.from # r
      BY <1>1, <3>1, <3>2, <3>3
    <3>4. CASE m.from = r
      <4>1. a.term >= m.term /\ (a.role = "candidate" /\ a.term = m.term => m.end = EndOf(a.log))
        BY <3>2, <3>4
      <4> HIDE DEF a
      <4>2. s.term >= m.term
        BY <1>2, <3>1, <4>1
      <4>3. ASSUME s.role = "candidate", s.term = m.term PROVE m.end = EndOf(s.log)
        <5>1. Keeps(a, s)
          BY <4>3 DEF Does, Takes, Adds, a
        <5>2. ~ (s.term > a.term)
          BY <1>2, <3>1, <4>1, <4>3
        <5> QED
          BY <4>1, <4>3, <5>1, <5>2 DEF Keeps
      <4> QED
        BY <1>1, <3>4, <4>2, <4>3
    <3> QED
      BY <3>3, <3>4
  <2>2. CASE m \in messages
    <3>1. m.from = r /\ m.term = s.term /\ m.end = EndOf(s.log)
      BY <1>3, <2>2 DEF Does, Says
    <3> QED
      BY <1>1, <1>2, <3>1
  <2> QED
    BY <2>1, <2>2 DEF Stepped
<1>4. ASSUME NEW y \in yeses', y.kind = "Vote"
      PROVE  replicas'[y.to].term >= y.term
  <2>1. CASE y \in yeses
    <3>1. y.to \in Replica /\ y.term \in Nat
      BY <1>4, <2>1 DEF Voting, VotesSpent
    <3>2. replicas[y.to].term >= y.term
      BY <1>4, <2>1 DEF RequestsSound
    <3>3. replicas[y.to].term \in Nat /\ replicas'[y.to].term \in Nat
          /\ replicas'[y.to].term >= replicas[y.to].term
      BY <3>1, TermsStay
    <3> QED
      BY <3>1, <3>2, <3>3
  <2>2. CASE y \in messages /\ y.granted
    <3>1. y.to \in Replica \ {r} /\ replicas[y.to].term >= y.term
      BY <1>4, <2>2 DEF Does, Says, Votes
    <3> QED
      BY <1>1, <3>1
  <2> QED
    BY <2>1, <2>2 DEF Stepped, Yeses
<1> QED
  BY <1>3, <1>4 DEF RequestsSound, EndOf, TermAt

LEMMA LinesHoldStays ==
    ASSUME Voting, Voting', NEW lines, NEW held, Logging(lines), Choosing(lines, held),
           NEW r \in Replica, NEW s, NEW messages, Stepped(r, s, messages),
           Does(lines, held, r, s, messages),
           NEW new, GrowsBy(lines, r, s, new),
           NEW kept, kept = HeldBy(held, r, s)
    PROVE  LinesHold(new, kept)'
<1> DEFINE a == replicas[r]
<1>1. lines \in [Nat -> Seq(Entry)] /\ Grows(lines, new)
  BY DEF Logging, LinesSound, GrowsBy
<1> SUFFICES ASSUME NEW u \in Nat, new[u] # <<>>
             PROVE  ElectedHold(new, kept, u)'
  BY DEF LinesHold
<1>2. PICK Q \in SUBSET Replica :
         /\ Cardinality(Q) >= Majority
         /\ \A p \in Q :
               /\ replicas[p].term >= u
               /\ \A term \in Nat, i \in Nat :
                     <<p, term, i>> \in held /\ term < u =>
                        HoldsAt(new[u], i, term) \/ Missed(lines, term, i, u - 1)
  <2>1. CASE lines[u] # <<>>
    <3>1. ElectedHold(lines, held, u)
      BY <2>1 DEF Choosing, LinesHold
    <3>2. \A i, term : HoldsAt(lines[u], i, term) => HoldsAt(new[u], i, term)
      BY <1>1, GrownHolds
    <3> QED
      BY <3>1, <3>2 DEF ElectedHold
  <2>2. CASE lines[u] = <<>>
    <3>1. Adds(r, s) /\ u = s.term /\ new[u] = s.log
      BY <2>2 DEF GrowsBy, Adds
    <3>2. a.role = "candidate" /\ Wins(r, u) /\ a.term = u
      <4>1. a.role = "leader" => a.log # <<>> /\ lines[a.term] = a.log
        BY DEF Logging, LeadersWrite
      <4>2. a.term = u
        BY <3>1 DEF Adds
      <4>3. a.role # "leader"
        BY <2>2, <4>1, <4>2
      <4> QED
        BY <3>1, <4>2, <4>3 DEF Adds
    <3>3. a.log \in Seq(Entry)
      BY DEF Logging, LogsFollow, Typed
    <3>4. \A i, term : HoldsAt(a.log, i, term) => HoldsAt(new[u], i, term)
      <4>1. PICK e \in Entry : s.log = Append(a.log, e)
        BY <3>1 DEF Adds
      <4> QED
        BY <3>1, <3>3, <4>1, AppendHolds
    <3>5. PICK Q \in SUBSET Replica :
             /\ Cardinality(Q) >= Majority
             /\ \A p \in Q : VotedFor(p, r, u) /\ replicas[p].term >= u
      BY <3>2 DEF Wins
    <3>6. ASSUME NEW p \in Q, NEW term \in Nat, NEW i \in Nat, <<p, term, i>> \in held, term < u
          PROVE  HoldsAt(new[u], i, term) \/ Missed(lines, term, i, u - 1)
      <4>1. CandidatesHold(lines, held)
        BY DEF Choosing
      <4>2. p \in Replica /\ VotedFor(p, r, u)
        BY <3>5
      <4>3. HoldsAt(a.log, i, term) \/ Missed(lines, term, i, u - 1)
        BY <2>2, <3>2, <3>6, <4>1, <4>2 DEF CandidatesHold
      <4> QED
        BY <3>4, <4>3
    <3> QED
      BY <3>5, <3>6
  <2> QED
    BY <2>1, <2>2
<1>3. ASSUME NEW p \in Q
      PROVE  /\ replicas'[p].term >= u
             /\ \A term \in Nat, i \in Nat :
                   <<p, term, i>> \in kept /\ term < u =>
                      HoldsAt(new[u], i, term) \/ Missed(new, term, i, u - 1)
  <2>1. p \in Replica /\ replicas[p].term >= u
    BY <1>2
  <2>2. replicas'[p].term >= u
    <3>1. replicas[p].term \in Nat /\ replicas'[p].term \in Nat
          /\ replicas'[p].term >= replicas[p].term
      BY <2>1, TermsStay
    <3> QED
      BY <2>1, <3>1
  <2>3. ASSUME NEW term \in Nat, NEW i \in Nat, <<p, term, i>> \in kept, term < u
        PROVE  HoldsAt(new[u], i, term) \/ Missed(new, term, i, u - 1)
    <3>1. <<p, term, i>> \in held
      BY <2>1, <2>2, <2>3, NothingNewHeld
    <3> DEFINE n == u - 1
    <3>2. n \in Int /\ n <= n
      OBVIOUS
    <3>3. HoldsAt(new[u], i, term) \/ Missed(lines, term, i, n)
      BY <1>2, <2>3, <3>1
    <3> HIDE DEF n
    <3>4. Missed(lines, term, i, n) => Missed(new, term, i, n)
      BY <1>1, <3>2, MissedStays
    <3> QED
      BY <3>3, <3>4 DEF n
  <2> QED
    BY <2>2, <2>3
<1> QED
  BY <1>2, <1>3 DEF ElectedHold, HoldsAt, Missed

\* What a replica held it is taken to have held from then on.
LEMMA HeldStays ==
    ASSUME NEW held, NEW r, NEW s, NEW kept, kept = HeldBy(held, r, s)
    PROVE  /\ held \subseteq kept
           /\ \A term, i : Chosen(held, term, i) => Chosen(kept, term, i)
<1>1. held \subseteq kept
  BY DEF HeldBy
<1> QED
  BY <1>1 DEF Chosen

LEMMA AnswersSoundStays ==
    ASSUME Voting, NEW lines, NEW held, Logging(lines), AnswersSound(lines, held),
           NEW r \in Replica, NEW s, NEW messages, Stepped(r, s, messages),
           Does(lines, held, r, s, messages),
           NEW new, GrowsBy(lines, r, s, new),
           NEW kept, kept = HeldBy(held, r, s)
    PROVE  AnswersSound(new, kept)'
<1>1. replicas'[r] = s /\ \A q \in Replica : q # r => replicas'[q] = replicas[q]
  BY DEF Stepped
<1>2. held \subseteq kept
  BY HeldStays
<1>3. lines \in [Nat -> Seq(Entry)] /\ Grows(lines, new)
  BY DEF Logging, LinesSound, GrowsBy
<1>4. ASSUME NEW t \in Nat, NEW i \in Nat, i > 0, i <= Len(lines[t]), HoldsAt(new[t], i, t)
      PROVE  HoldsAt(lines[t], i, t)
  <2> DEFINE x == lines[t]
             z == new[t]
  <2>1. x \in Seq(Entry) /\ z \in Seq(Entry) /\ SameTo(z, x, Len(x))
    BY <1>3, GrownSound DEF Grows
  <2>2. i <= Len(x) /\ HoldsAt(z, i, t)
    BY <1>4
  <2>3. Len(x) \in Nat
    BY <2>1, EntriesTyped
  <2> HIDE DEF x, z
  <2>4. HoldsAt(x, i, t)
    BY <2>1, <2>2, <2>3, SameToHolds
  <2> QED
    BY <2>4 DEF x
<1>5. ASSUME NEW m \in BagToSet(wire'), m.kind = "Appended", m.matched # Unmatched,
             NEW i \in 1 .. m.matched, HoldsAt(new[m.term], i, m.term)
      PROVE  <<m.from, m.term, i>> \in kept
  <2>1. CASE m \in BagToSet(wire)
    <3>1. m.term \in Nat /\ m.matched \in Nat /\ m.matched <= Len(lines[m.term])
      BY <1>5, <2>1 DEF Voting, WireSensible, Sensible, Logging, CopiesFollow, CarriesLog
    <3>2. i \in Nat /\ i > 0 /\ i <= Len(lines[m.term])
      <4>1. lines[m.term] \in Seq(Entry)
        BY <1>3, <3>1
      <4>2. Len(lines[m.term]) \in Nat
        BY <4>1
      <4> QED
        BY <3>1, <4>2
    <3>3. HoldsAt(lines[m.term], i, m.term)
      BY <1>4, <1>5, <3>1, <3>2
    <3> QED
      BY <1>2, <1>5, <2>1, <3>3 DEF AnswersSound
  <2>2. CASE m \in messages
    <3>1. Says(lines, held, r, s, m)
      BY <2>2 DEF Does
    <3>2. /\ m.from = r /\ m.term = s.term /\ m.matched \in Nat /\ m.matched <= Len(lines[s.term])
          /\ HoldsAt(lines[s.term], i, s.term) => HoldsAt(s.log, i, s.term)
      BY <1>5, <3>1 DEF Says, CarriesLog
    <3>3. s.term \in Nat
      BY DEF Does
    <3>4. i \in Nat /\ i > 0 /\ i <= Len(lines[s.term])
      <4>1. lines[s.term] \in Seq(Entry)
        BY <1>3, <3>3
      <4>2. Len(lines[s.term]) \in Nat
        BY <4>1
      <4> QED
        BY <3>2, <4>2
    <3>5. HoldsAt(s.log, i, s.term)
      BY <1>4, <1>5, <3>2, <3>3, <3>4
    <3> QED
      BY <3>2, <3>5 DEF HeldBy, HoldsAt
  <2> QED
    BY <2>1, <2>2 DEF Stepped
<1>6. ASSUME NEW q \in Replica, replicas'[q].role = "leader",
             NEW p \in Replica, NEW i \in 1 .. replicas'[q].matched[p],
             HoldsAt(replicas'[q].log, i, replicas'[q].term)
      PROVE  <<p, replicas'[q].term, i>> \in kept
  <2>1. CASE q # r
    BY <1>1, <1>2, <1>6, <2>1 DEF AnswersSound
  <2>2. CASE q = r
    BY <1>1, <1>6, <2>2 DEF Does, Notes
  <2> QED
    BY <2>1, <2>2
<1> QED
  BY <1>5, <1>6 DEF AnswersSound, HoldsAt

LEMMA CommittedStays ==
    ASSUME NEW lines \in [Nat -> Seq(Entry)], NEW new, Grows(lines, new),
           NEW held, NEW kept, \A term, i : Chosen(held, term, i) => Chosen(kept, term, i),
           NEW s, s.log \in Seq(Entry), s.commit \in Nat, Committed(lines, held, s)
    PROVE  Committed(new, kept, s)
<1>1. ASSUME s.commit > 0
      PROVE  \E term \in Nat, k \in Nat :
                /\ term <= s.term /\ k >= s.commit /\ Chosen(kept, term, k)
                /\ SameTo(s.log, new[term], s.commit)
  <2>1. PICK term \in Nat, k \in Nat :
           /\ term <= s.term /\ k >= s.commit /\ Chosen(held, term, k)
           /\ SameTo(s.log, lines[term], s.commit)
    BY <1>1 DEF Committed
  <2>2. SameTo(s.log, new[term], s.commit)
    BY <2>1, GrownSame
  <2> QED
    BY <2>1, <2>2
<1> QED
  BY <1>1 DEF Committed

LEMMA CommitsSoundStays ==
    ASSUME NEW lines, NEW held, Logging(lines), CommitsSound(lines, held),
           NEW r \in Replica, NEW s, NEW messages, Stepped(r, s, messages),
           Does(lines, held, r, s, messages),
           NEW new, Grows(lines, new),
           NEW kept, kept = HeldBy(held, r, s)
    PROVE  CommitsSound(new, kept)'
<1>1. replicas'[r] = s /\ \A q \in Replica : q # r => replicas'[q] = replicas[q]
  BY DEF Stepped
<1>2. \A term, i : Chosen(held, term, i) => Chosen(kept, term, i)
  BY HeldStays
<1>3. lines \in [Nat -> Seq(Entry)]
  BY DEF Logging, LinesSound
<1>4. Committed(lines, held, s) /\ Typed(s)
  BY DEF Does
<1>5. ASSUME NEW q \in Replica PROVE Committed(new, kept, replicas'[q])
  <2>1. CASE q = r
    <3>1. Committed(new, kept, s)
      BY <1>2, <1>3, <1>4, CommittedStays DEF Typed
    <3> QED
      BY <1>1, <2>1, <3>1
  <2>2. CASE q # r
    <3>1. Committed(lines, held, replicas[q]) /\ Typed(replicas[q])
      BY DEF CommitsSound, Logging, LogsFollow
    <3> DEFINE x == replicas[q]
    <3> HIDE DEF x
    <3>2. Committed(new, kept, x)
      <4>1. Committed(lines, held, x) /\ x.log \in Seq(Entry) /\ x.commit \in Nat
        BY <3>1 DEF Typed, x
      <4> QED
        BY <1>2, <1>3, <4>1, CommittedStays
    <3> QED
      BY <1>1, <2>2, <3>2 DEF x
  <2> QED
    BY <2>1, <2>2
<1>6. ASSUME NEW m \in BagToSet(wire'), m.kind = "Append"
      PROVE  ChosenTo(kept, m.commit, m.term)
  <2>1. ChosenTo(held, m.commit, m.term)
    <3>1. CASE m \in BagToSet(wire)
      BY <1>6, <3>1 DEF CommitsSound
    <3>2. CASE m \in messages
      <4>1. m.term = s.term /\ m.commit = s.commit
        BY <1>6, <3>2 DEF Does, Says
      <4> QED
        BY <1>4, <4>1 DEF Committed, ChosenTo
    <3> QED
      BY <3>1, <3>2 DEF Stepped
  <2> QED
    BY <1>2, <2>1 DEF ChosenTo
<1>7. \A q \in Replica : Committed(new, kept, replicas[q])'
  BY <1>5 DEF Committed, SameTo, Chosen
<1> QED
  BY <1>6, <1>7 DEF CommitsSound, ChosenTo, Chosen, Majority

--------------------------------------------------------------------------------
(* What such a step does to what clients are told. *)

\* A log that follows the lines has each command once, and only those sent.
LEMMA FollowersOnce ==
    ASSUME NEW lines \in [Nat -> Seq(Entry)],
           \A t \in Nat : OnceEach(lines[t]),
           \A t \in Nat : \A i \in DOMAIN lines[t] : lines[t][i].op # Noop => Sent(lines[t][i].op),
           NEW x \in Seq(Entry), Follows(lines, x)
    PROVE  OnceEach(x) /\ \A i \in DOMAIN x : x[i].op # Noop => Sent(x[i].op)
<1>1. CASE x = <<>>
  BY <1>1 DEF OnceEach
<1>2. CASE x # <<>>
  <2> DEFINE t == x[Len(x)].term
             y == lines[t]
  <2>1. t \in Nat /\ Len(x) \in DOMAIN x /\ Len(x) \in Nat
    BY <1>2, LastTerm
  <2>2. SameTo(x, y, Len(x)) /\ y \in Seq(Entry)
    BY <2>1 DEF Follows
  <2>3. OnceEach(y) /\ \A i \in DOMAIN y : y[i].op # Noop => Sent(y[i].op)
    BY <2>1
  <2> HIDE DEF t, y
  <2>4. ASSUME NEW i \in DOMAIN x PROVE i \in DOMAIN y /\ x[i] = y[i]
    <3>1. i \in 1 .. Len(x)
      BY EntriesTyped
    <3> QED
      BY <2>1, <2>2, <3>1, SameToAt
  <2> QED
    BY <2>3, <2>4 DEF OnceEach
<1> QED
  BY <1>1, <1>2

LEMMA SettledStays ==
    ASSUME NEW lines \in [Nat -> Seq(Entry)], NEW new, Grows(lines, new),
           NEW held, HeldIsKept(lines, held),
           NEW kept, \A term, i : Chosen(held, term, i) => Chosen(kept, term, i),
           NEW x, NEW y
    PROVE  /\ Settled(lines, held, x) => Settled(new, kept, x)
           /\ SettledBefore(lines, held, x, y) => SettledBefore(new, kept, x, y)
<1>1. ASSUME NEW t \in Nat, NEW k \in Nat, Chosen(held, t, k), NEW j \in 1 .. k
      PROVE  new[t][j] = lines[t][j]
  <2>1. HoldsAt(lines[t], k, t)
    BY <1>1, ChosenIsHeld
  <2>2. lines[t] \in Seq(Entry)
    OBVIOUS
  <2>3. SameTo(new[t], lines[t], Len(lines[t]))
    BY GrownSound
  <2>4. Len(lines[t]) \in Nat /\ k <= Len(lines[t])
    BY <2>1, <2>2, EntriesTyped DEF HoldsAt
  <2>5. j \in 1 .. Len(lines[t])
    BY <2>4
  <2> QED
    BY <2>3, <2>5 DEF SameTo
<1>2. ASSUME Settled(lines, held, x) PROVE Settled(new, kept, x)
  <2>1. PICK t \in Nat, k \in Nat : \E j \in 1 .. k : Chosen(held, t, k) /\ lines[t][j].op = x
    BY <1>2 DEF Settled
  <2>2. PICK j \in 1 .. k : Chosen(held, t, k) /\ lines[t][j].op = x
    BY <2>1
  <2>3. Chosen(kept, t, k) /\ new[t][j].op = x
    BY <1>1, <2>2
  <2> QED
    BY <2>3 DEF Settled
<1>3. ASSUME SettledBefore(lines, held, x, y) PROVE SettledBefore(new, kept, x, y)
  <2>1. PICK t \in Nat, k \in Nat :
           \E j \in 1 .. k : /\ Chosen(held, t, k) /\ lines[t][j].op = x
                             /\ \A i \in 1 .. k : lines[t][i].op # y
    BY <1>3 DEF SettledBefore
  <2>2. PICK j \in 1 .. k : /\ Chosen(held, t, k) /\ lines[t][j].op = x
                            /\ \A i \in 1 .. k : lines[t][i].op # y
    BY <2>1
  <2>3. Chosen(kept, t, k) /\ new[t][j].op = x /\ \A i \in 1 .. k : new[t][i].op # y
    BY <1>1, <2>2
  <2> QED
    BY <2>3 DEF SettledBefore
<1> QED
  BY <1>2, <1>3

LEMMA TellingStays ==
    ASSUME Voting, NEW lines, NEW held, Logging(lines), Choosing(lines, held), Telling(lines, held),
           NEW r \in Replica, NEW s, NEW messages, Stepped(r, s, messages),
           Does(lines, held, r, s, messages),
           NEW new, GrowsBy(lines, r, s, new),
           NEW kept, kept = HeldBy(held, r, s)
    PROVE  Telling(new, kept)'
<1>1. UNCHANGED clientVars
  BY DEF Stepped
<1>2. lines \in [Nat -> Seq(Entry)] /\ Grows(lines, new)
  BY DEF Logging, LinesSound, GrowsBy
<1>3. \A term, i : Chosen(held, term, i) => Chosen(kept, term, i)
  BY HeldStays
<1>4. HeldIsKept(lines, held)
  BY DEF Choosing
<1>5. \A x : Settled(lines, held, x) => Settled(new, kept, x)
  BY <1>2, <1>3, <1>4, SettledStays
<1>6. \A x, y : SettledBefore(lines, held, x, y) => SettledBefore(new, kept, x, y)
  BY <1>2, <1>3, <1>4, SettledStays
<1>7. TypedClients'
  BY <1>1 DEF Telling, TypedClients, clientVars
<1>8. \A x : Sent(x) <=> Sent(x)'
  BY <1>1 DEF Sent, clientVars
<1>9. ASSUME NEW t \in Nat
      PROVE  OnceEach(new[t]) /\ \A i \in DOMAIN new[t] : new[t][i].op # Noop => Sent(new[t][i].op)
  <2>1. CASE new[t] = lines[t]
    BY <2>1 DEF Telling
  <2>2. CASE new[t] # lines[t]
    <3>1. Adds(r, s) /\ new[t] = s.log
      BY <2>2 DEF GrowsBy, Adds
    <3> DEFINE x == replicas[r].log
               z == new[t]
    <3>2. x \in Seq(Entry) /\ Follows(lines, x)
      BY DEF Logging, LogsFollow, Typed
    <3>3. OnceEach(x) /\ \A i \in DOMAIN x : x[i].op # Noop => Sent(x[i].op)
      <4>1. /\ \A u \in Nat : OnceEach(lines[u])
            /\ \A u \in Nat : \A i \in DOMAIN lines[u] : lines[u][i].op # Noop => Sent(lines[u][i].op)
        BY DEF Telling
      <4> HIDE DEF x
      <4> QED
        BY <1>2, <3>2, <4>1, FollowersOnce
    <3>4. PICK e \in Entry :
             /\ z = Append(x, e)
             /\ e.op # Noop => Sent(e.op) /\ \A i \in DOMAIN x : x[i].op # e.op
      BY <3>1 DEF Adds
    <3> HIDE DEF x, z
    <3>5. Longer(x, e, z)
      BY <3>2, <3>4, AppendFacts
    <3>6. \A i \in DOMAIN z : \/ i \in DOMAIN x /\ z[i] = x[i]
                              \/ i = Len(x) + 1 /\ z[i] = e
      BY <3>5 DEF Longer
    <3>7. \A i \in DOMAIN z : z[i].op # Noop => Sent(z[i].op)
      BY <3>3, <3>4, <3>6
    <3>8. OnceEach(z)
      BY <3>3, <3>4, <3>6 DEF OnceEach
    <3> QED
      BY <3>7, <3>8 DEF z
  <2> QED
    BY <2>1, <2>2
<1>10. ASSUME NEW m \in BagToSet(wire')
       PROVE  /\ m.kind = "Submit" => Sent(m.command)
              /\ m.kind = "Submitted" => Settled(new, kept, m.command)
  <2>1. CASE m \in BagToSet(wire)
    BY <1>5, <2>1 DEF Telling
  <2>2. CASE m \in messages
    BY <1>5, <2>2 DEF Does, Says
  <2> QED
    BY <2>1, <2>2 DEF Stepped
<1>11. \A d \in done' : Settled(new, kept, d)
  BY <1>1, <1>5 DEF Telling, clientVars
<1>12. \A c \in Command : Sent(c) => \A d \in after'[c] : SettledBefore(new, kept, d, c)
  BY <1>1, <1>6 DEF Telling, clientVars
<1> QED
  BY <1>7, <1>8, <1>9, <1>10, <1>11, <1>12
     DEF Telling, OnceEach, Settled, SettledBefore, Chosen, Majority, Command

--------------------------------------------------------------------------------
(* Steps. *)

HasHistory == \E lines, held : History(lines, held)

\* Whoever does what it owes to the history makes more of it.
LEMMA DoesKeepsHistory ==
    ASSUME Voting, Voting', NEW lines, NEW held, History(lines, held),
           NEW r \in Replica, NEW s, NEW messages, NEW left,
           BagToSet(left) \subseteq BagToSet(wire), Becomes(r, s, messages, left),
           Does(lines, held, r, s, messages)
    PROVE  HasHistory'
<1>1. PICK new : new = LinesBy(lines, s)
  OBVIOUS
<1>2. PICK kept : kept = HeldBy(held, r, s)
  OBVIOUS
<1>3. OneLeaderATerm'
  <2>1. Voting' => OneLeaderATerm'
    BY VotingImpliesOneLeader, PTL
  <2> QED
    BY <2>1
<1>4. Stepped(r, s, messages)
  BY StepTouches DEF Stepped
<1>5. Logging(lines) /\ Choosing(lines, held) /\ Telling(lines, held)
  BY DEF History
<1>6. GrowsBy(lines, r, s, new)
  BY <1>1, <1>3, <1>4, <1>5, LinesByGrow DEF Stepped
<1>7. Grows(lines, new)
  BY <1>6 DEF GrowsBy
<1>8. Logging(new)'
  BY <1>1, <1>3, <1>5, LoggingStays
<1>9. HeldIsKept(new, kept)'
  BY <1>2, <1>4, <1>5, <1>7, <1>8, HeldIsKeptStays
<1>10. CandidatesHold(new, kept)'
  BY <1>2, <1>4, <1>5, <1>7, <1>8, CandidatesHoldStays
<1>11. RequestsSound'
  BY <1>4, <1>5, RequestsSoundStays DEF Choosing
<1>12. LinesHold(new, kept)'
  BY <1>2, <1>4, <1>5, <1>6, LinesHoldStays
<1>13. AnswersSound(new, kept)'
  BY <1>2, <1>4, <1>5, <1>6, AnswersSoundStays DEF Choosing
<1>14. CommitsSound(new, kept)'
  BY <1>2, <1>4, <1>5, <1>7, CommitsSoundStays DEF Choosing
<1>15. Telling(new, kept)'
  BY <1>2, <1>4, <1>5, <1>6, TellingStays
<1>16. Choosing(new, kept)'
  BY <1>9, <1>10, <1>11, <1>12, <1>13, <1>14 DEF Choosing
<1> QED
  BY <1>8, <1>15, <1>16 DEF HasHistory, History

--------------------------------------------------------------------------------
(* What the handlers are made of. *)

\* A replica whose log and whose part of it are left as they are.
Remains(a, s) ==
    /\ Typed(s) /\ s.term \in Nat /\ s.term >= a.term
    /\ Keeps(a, s)
    /\ s.commit = a.commit /\ s.applied = a.applied
    /\ s.role = "leader" => s.matched = a.matched /\ s.next = a.next

LEMMA SameRemains ==
    ASSUME Voting, NEW lines, LogsFollow(lines), NEW r \in Replica
    PROVE  Remains(replicas[r], replicas[r])
<1>1. replicas[r].term \in Nat /\ Typed(replicas[r])
  BY DEF Voting, ReplicasTyped, LogsFollow
<1> QED
  BY <1>1 DEF Remains, Keeps

\* Taking a later term leaves the log as it is.
LEMMA AdoptedRemains ==
    ASSUME Voting, NEW lines, LogsFollow(lines), NEW r \in Replica, NEW term \in Nat,
           NEW s, s = Adopted(replicas[r], term)
    PROVE  /\ Remains(replicas[r], s)
           /\ s.term >= term
           /\ s.role \in {"candidate", "leader"} => s = replicas[r]
           /\ VotingFields \subseteq DOMAIN s
<1> DEFINE a == replicas[r]
<1>1. VotingFields \subseteq DOMAIN a /\ a.term \in Nat /\ Typed(a)
  BY DEF Voting, ReplicasTyped, LogsFollow
<1>2. s.term \in Nat /\ s.term >= a.term /\ s.term >= term /\ s.led = a.led
      /\ VotingFields \subseteq DOMAIN s
  BY <1>1, AdoptedVotes
<1>3. CASE term <= a.term
  <2>1. s = a
    BY <1>3 DEF Adopted
  <2> QED
    BY <1>2, <2>1, SameRemains
<1>4. CASE ~ (term <= a.term)
  <2>1. CASE a.role = "follower"
    <3>1. s = [a EXCEPT !.term = term, !.votedFor = Nobody, !.leader = Nobody]
      BY <1>4, <2>1 DEF Adopted
    <3>2. /\ LogFields \subseteq DOMAIN s /\ s.role = "follower" /\ s.log = a.log
          /\ s.commit = a.commit /\ s.applied = a.applied /\ s.next = a.next
          /\ s.matched = a.matched /\ s.pending = a.pending
      BY <1>1, <2>1, <3>1 DEF Typed, LogFields
    <3>3. Typed(s)
      BY <1>1, <3>2 DEF Typed
    <3> QED
      BY <1>2, <3>2, <3>3 DEF Remains, Keeps
  <2>2. CASE a.role # "follower"
    <3>1. s = [[a EXCEPT !.term = term, !.votedFor = Nobody, !.leader = Nobody]
                 EXCEPT !.role = "follower", !.votes = {}, !.pending = {}]
      BY <1>4, <2>2 DEF Adopted
    <3>2. /\ LogFields \subseteq DOMAIN s /\ s.role = "follower" /\ s.log = a.log
          /\ s.commit = a.commit /\ s.applied = a.applied /\ s.next = a.next
          /\ s.matched = a.matched /\ s.pending = {}
      BY <1>1, <2>2, <3>1 DEF Typed, LogFields
    <3>3. Typed(s)
      BY <1>1, <3>2 DEF Typed
    <3> QED
      BY <1>2, <3>2, <3>3 DEF Remains, Keeps
  <2> QED
    BY <2>1, <2>2
<1> QED
  BY <1>3, <1>4

\* What is committed stays committed in a later term.
LEMMA CommittedLater ==
    ASSUME NEW lines, NEW held, NEW a, Committed(lines, held, a), a.term \in Nat,
           NEW s, s.log = a.log, s.commit = a.commit, s.applied = a.applied,
           s.term \in Nat, s.term >= a.term
    PROVE  Committed(lines, held, s)
<1>1. \A t \in Nat : t <= a.term => t <= s.term
  OBVIOUS
<1> QED
  BY <1>1 DEF Committed

LEMMA RemainsDoes ==
    ASSUME Voting, NEW lines, NEW held, History(lines, held), NEW r \in Replica, NEW s,
           Remains(replicas[r], s)
    PROVE  Does(lines, held, r, s, {})
<1> DEFINE a == replicas[r]
<1>1. a.term \in Nat /\ a.led \subseteq Nat
  BY DEF Voting, ReplicasTyped
<1>2. /\ Typed(s) /\ s.term \in Nat /\ s.term >= a.term /\ Keeps(a, s)
      /\ s.commit = a.commit /\ s.applied = a.applied
      /\ s.role = "leader" => s.matched = a.matched /\ s.next = a.next
  BY DEF Remains
<1>3. s.log = a.log /\ s.led = a.led /\ (s.role = "leader" => a.role = "leader" /\ s.term = a.term)
  BY <1>2 DEF Keeps
<1>4. a.role = "leader" =>
         \A p \in Replica :
            /\ a.matched[p] <= Len(a.log) /\ a.next[p] <= Len(a.log) + 1
            /\ \A i \in 1 .. a.matched[p] : HoldsAt(a.log, i, a.term) => <<p, a.term, i>> \in held
  BY DEF History, Logging, LeadersWrite, Choosing, AnswersSound
<1>5. Committed(lines, held, a)
  BY DEF History, Choosing, CommitsSound
<1> HIDE DEF a
<1>6. Committed(lines, held, s)
  BY <1>1, <1>2, <1>3, <1>5, CommittedLater
<1>7. s.role = "leader" => Notes(HeldBy(held, r, s), s)
  <2>1. held \subseteq HeldBy(held, r, s)
    BY DEF HeldBy
  <2> HIDE DEF Typed
  <2> QED
    BY <1>2, <1>3, <1>4, <2>1 DEF Notes
<1> QED
  BY <1>1, <1>2, <1>3, <1>6, <1>7 DEF Does, a

\* The messages are another matter than what the replica becomes.
LEMMA DoesSaying ==
    ASSUME NEW lines, NEW held, NEW r, NEW s, Does(lines, held, r, s, {}), NEW messages,
           \A m \in messages : Says(lines, held, r, s, m)
    PROVE  Does(lines, held, r, s, messages)
BY DEF Does

LEMMA AnswerKeepsHistory ==
    ASSUME Voting, Voting', NEW lines, NEW held, History(lines, held),
           NEW m \in BagToSet(wire), m.to \in Replica,
           NEW s, NEW messages, Answers(m, s, messages),
           Does(lines, held, m.to, s, {}),
           \A n \in messages : Says(lines, held, m.to, s, n)
    PROVE  HasHistory'
<1>1. Does(lines, held, m.to, s, messages)
  BY DoesSaying
<1> QED
  BY <1>1, ReceivedOffWire, DoesKeepsHistory DEF Answers

\* What is copied out is a stretch of the log.
LEMMA CopyIsStretch ==
    ASSUME NEW lines, NEW held, NEW r \in Replica, NEW p \in Replica, NEW s, Typed(s),
           s.role = "leader", s.log # <<>>, s.next[p] <= Len(s.log) + 1
    PROVE  Says(lines, held, r, s, CopyFor(r, s, p))
<1> DEFINE prev == Max({s.next[p], 1}) - 1
           m == CopyFor(r, s, p)
           log == s.log
<1>1. log \in Seq(Entry) /\ Len(log) \in Nat /\ DOMAIN log = 1 .. Len(log) /\ s.next[p] \in Nat
      /\ s.commit \in Nat
  BY EntriesTyped DEF Typed
<1>2. prev \in Nat /\ prev <= Len(log)
  <2>1. \E a \in {s.next[p], 1} : \A b \in {s.next[p], 1} : a >= b
    BY <1>1
  <2>2. Max({s.next[p], 1}) \in {s.next[p], 1} /\ Max({s.next[p], 1}) >= 1
    BY <2>1 DEF Max
  <2>3. s.next[p] <= Len(log) + 1
    OBVIOUS
  <2>4. Len(log) > 0
    <3>1. log # <<>>
      OBVIOUS
    <3> QED
      BY <1>1, <3>1, LastTerm
  <2> HIDE DEF log
  <2> QED
    BY <1>1, <2>2, <2>3, <2>4
<1>3. /\ m.kind = "Append" /\ m.prev = [term |-> TermAt(log, prev), index |-> prev]
      /\ m.entries = SubSeq(log, prev + 1, Len(log))
      /\ m.from = r /\ m.term = s.term /\ m.commit = s.commit
  BY DEF CopyFor
<1>4. log # <<>>
  OBVIOUS
<1> HIDE DEF prev, m, log
<1>5. TermAt(log, prev) \in Nat
  BY <1>1, EntriesTyped DEF TermAt
<1>6. /\ m.entries \in Seq(Entry) /\ Len(m.entries) = Len(log) - prev
      /\ DOMAIN m.entries = 1 .. Len(log) - prev
      /\ \A i \in 1 .. Len(log) - prev : m.entries[i] = log[prev + i]
  BY <1>1, <1>2, <1>3
<1>7. m.prev.index = prev /\ m.prev.term = TermAt(log, prev) /\ m.prev \in End
  BY <1>2, <1>3, <1>5 DEF End
<1>8. StretchOf(m, log)
  <2>1. m.prev.index + Len(m.entries) <= Len(log)
    BY <1>1, <1>2, <1>6, <1>7
  <2>2. \A j \in DOMAIN m.entries : m.entries[j] = log[m.prev.index + j]
    BY <1>6, <1>7
  <2> QED
    BY <1>4, <1>7, <2>1, <2>2 DEF StretchOf
<1>9. CarriesLog(m)
  BY <1>1, <1>3, <1>6, <1>7 DEF CarriesLog
<1> QED
  BY <1>3, <1>8, <1>9 DEF Says, m, log

--------------------------------------------------------------------------------
(* The handlers. *)

LEMMA LeaderCopies ==
    ASSUME NEW lines, NEW held, NEW r \in Replica, NEW s,
           Does(lines, held, r, s, {}), s.role = "leader", s.log # <<>>
    PROVE  \A m \in CopyToEveryone(r, s) : Says(lines, held, r, s, m)
<1> SUFFICES ASSUME NEW p \in Replica \ {r}
             PROVE  Says(lines, held, r, s, CopyFor(r, s, p))
  BY DEF CopyToEveryone
<1>1. Typed(s) /\ s.next[p] <= Len(s.log) + 1
  BY DEF Does, Notes
<1> QED
  BY <1>1, CopyIsStretch

LEMMA TimerKeepsHistory ==
    ASSUME Voting, Voting', NEW lines, NEW held, History(lines, held),
           NEW r \in Replica, OnTimer(r)
    PROVE  HasHistory'
<1> DEFINE s == replicas[r]
           asking == [s EXCEPT !.leader = Nobody, !.prevotes = {r}]
<1>1. LogsFollow(lines) /\ LeadersWrite(lines)
  BY DEF History, Logging
<1>2. Remains(s, s) /\ Does(lines, held, r, s, {})
  BY <1>1, SameRemains, RemainsDoes
<1>3. CASE s.role = "leader" /\ Becomes(r, s, CopyToEveryone(r, s), wire)
  <2>1. s.log # <<>>
    BY <1>1, <1>3 DEF LeadersWrite
  <2>2. \A m \in CopyToEveryone(r, s) : Says(lines, held, r, s, m)
    BY <1>2, <1>3, <2>1, LeaderCopies
  <2>3. Does(lines, held, r, s, CopyToEveryone(r, s))
    BY <1>2, <2>2, DoesSaying
  <2> QED
    BY <1>3, <2>3, DoesKeepsHistory
<1>4. CASE s.role # "leader" /\ Becomes(r, asking, PreVotes(r, s), wire)
  <2>1. Remains(s, asking)
    <3>1. VotingFields \subseteq DOMAIN s /\ Typed(s) /\ s.term \in Nat
      BY <1>1 DEF Voting, ReplicasTyped, LogsFollow
    <3>2. /\ LogFields \subseteq DOMAIN asking /\ asking.term = s.term /\ asking.role = s.role
          /\ asking.led = s.led /\ asking.log = s.log /\ asking.commit = s.commit
          /\ asking.applied = s.applied /\ asking.next = s.next
          /\ asking.matched = s.matched /\ asking.pending = s.pending
      BY <3>1 DEF Typed, LogFields, VotingFields
    <3> HIDE DEF asking
    <3>3. Typed(asking)
      BY <3>1, <3>2 DEF Typed
    <3> QED
      BY <3>1, <3>2, <3>3 DEF Remains, Keeps
  <2>2. \A m \in PreVotes(r, s) : Says(lines, held, r, asking, m)
    BY DEF PreVotes, Says, CarriesLog
  <2>3. Does(lines, held, r, asking, {})
    BY <2>1, RemainsDoes
  <2>4. Does(lines, held, r, asking, PreVotes(r, s))
    BY <2>2, <2>3, DoesSaying
  <2> QED
    BY <1>4, <2>4, DoesKeepsHistory
<1> QED
  BY <1>3, <1>4 DEF OnTimer

LEMMA PreVoteKeepsHistory ==
    ASSUME Voting, Voting', NEW lines, NEW held, History(lines, held),
           NEW m \in BagToSet(wire), OnPreVote(m)
    PROVE  HasHistory'
<1>1. m.to \in Replica
  BY DEF OnPreVote, Voting, WireSensible, Sensible
<1> DEFINE s == replicas[m.to]
<1>2. PICK granted : Answers(m, s,
         {[kind |-> "PreVoted", from |-> m.to, to |-> m.from, term |-> s.term,
           proposed |-> m.proposed, granted |-> granted]})
  BY DEF OnPreVote
<1>3. LogsFollow(lines)
  BY DEF History, Logging
<1>4. Remains(s, s) /\ Does(lines, held, m.to, s, {})
  BY <1>1, <1>3, SameRemains, RemainsDoes
<1>5. \A n \in {[kind |-> "PreVoted", from |-> m.to, to |-> m.from, term |-> s.term,
                 proposed |-> m.proposed, granted |-> granted]} :
         Says(lines, held, m.to, s, n)
  BY DEF Says, CarriesLog
<1> QED
  BY <1>1, <1>2, <1>4, <1>5, AnswerKeepsHistory

LEMMA PreVotedKeepsHistory ==
    ASSUME Voting, Voting', NEW lines, NEW held, History(lines, held),
           NEW m \in BagToSet(wire), OnPreVoted(m)
    PROVE  HasHistory'
<1>1. m.to \in Replica /\ m.term \in Nat
  BY DEF OnPreVoted, Voting, WireSensible, Sensible
<1> DEFINE r == m.to
           a == replicas[r]
           s == Adopted(a, m.term)
           asked == [s EXCEPT !.prevotes = @ \cup {m.from}]
           standing == Standing(r, [asked EXCEPT !.prevotes = {}])
<1>2. LogsFollow(lines)
  BY DEF History, Logging
<1>3. Remains(a, s) /\ VotingFields \subseteq DOMAIN s
  BY <1>1, <1>2, AdoptedRemains
<1>4. a.term \in Nat
  BY <1>1 DEF Voting, ReplicasTyped
<1>5. OnPreVoted(m)
  OBVIOUS
<1>6. \/ Answers(m, s, {})
      \/ Answers(m, asked, {})
      \/ Answers(m, standing, RequestVotes(r, standing))
  BY <1>5 DEF OnPreVoted
<1> HIDE DEF s
<1>7. CASE Answers(m, s, {})
  <2>1. Does(lines, held, r, s, {})
    BY <1>1, <1>3, RemainsDoes
  <2> QED
    BY <1>1, <1>7, <2>1, AnswerKeepsHistory
<1>8. Remains(a, asked)
  <2>1. /\ LogFields \subseteq DOMAIN asked /\ asked.term = s.term /\ asked.role = s.role
        /\ asked.led = s.led /\ asked.log = s.log /\ asked.commit = s.commit
        /\ asked.applied = s.applied /\ asked.next = s.next
        /\ asked.matched = s.matched /\ asked.pending = s.pending
    BY <1>3 DEF Remains, Typed, LogFields, VotingFields
  <2> HIDE DEF asked
  <2>2. Typed(asked)
    BY <1>3, <2>1 DEF Remains, Typed
  <2> QED
    BY <1>3, <2>1, <2>2 DEF Remains, Keeps
<1>9. CASE Answers(m, asked, {})
  <2>1. Does(lines, held, r, asked, {})
    BY <1>1, <1>8, RemainsDoes
  <2> QED
    BY <1>1, <1>9, <2>1, AnswerKeepsHistory
<1>10. CASE Answers(m, standing, RequestVotes(r, standing))
  <2>1. /\ LogFields \subseteq DOMAIN standing /\ standing.term = s.term + 1
        /\ standing.role = "candidate"
        /\ standing.led = s.led /\ standing.log = s.log /\ standing.commit = s.commit
        /\ standing.applied = s.applied /\ standing.next = s.next
        /\ standing.matched = s.matched /\ standing.pending = s.pending
    BY <1>3 DEF Remains, Typed, LogFields, VotingFields, Standing
  <2> HIDE DEF standing
  <2>2. Typed(standing)
    BY <1>3, <2>1 DEF Remains, Typed
  <2>3. s.term \in Nat /\ s.term >= a.term
    BY <1>3 DEF Remains
  <2>4. standing.term \in Nat /\ standing.term > a.term /\ standing.term >= a.term
    BY <1>4, <2>1, <2>3
  <2>5. Remains(a, standing)
    BY <1>3, <2>1, <2>2, <2>4 DEF Remains, Keeps
  <2>6. Does(lines, held, r, standing, {})
    BY <1>1, <2>5, RemainsDoes
  <2>7. EndOf(standing.log) \in End
    <3>1. standing.log \in Seq(Entry)
      BY <2>2 DEF Typed
    <3>2. TermAt(standing.log, Len(standing.log)) \in Nat /\ Len(standing.log) \in Nat
      BY <3>1, EntriesTyped DEF TermAt
    <3> QED
      BY <3>2 DEF EndOf, End
  <2>8. \A n \in RequestVotes(r, standing) : Says(lines, held, r, standing, n)
    BY <2>7 DEF RequestVotes, Says, CarriesLog
  <2> QED
    BY <1>1, <1>10, <2>6, <2>8, AnswerKeepsHistory
<1> QED
  BY <1>6, <1>7, <1>9, <1>10

LEMMA RequestVoteKeepsHistory ==
    ASSUME Voting, Voting', NEW lines, NEW held, History(lines, held),
           NEW m \in BagToSet(wire), OnRequestVote(m)
    PROVE  HasHistory'
<1>1. m.kind = "RequestVote" /\ m.to \in Replica /\ m.from \in Replica \ {m.to} /\ m.term \in Nat
  BY DEF OnRequestVote, Voting, WireSensible, Sensible
<1> DEFINE r == m.to
           a == replicas[r]
           s == Adopted(a, m.term)
           voted == [s EXCEPT !.votedFor = m.from]
           answer(granted) == [kind |-> "Vote", from |-> r, to |-> m.from, term |-> s.term,
                               granted |-> granted]
<1>2. LogsFollow(lines) /\ RequestsSound
  BY DEF History, Logging, Choosing
<1>3. Remains(a, s) /\ VotingFields \subseteq DOMAIN s
  BY <1>1, <1>2, AdoptedRemains
<1>4. OnRequestVote(m)
  OBVIOUS
<1>5. \/ VoteFor(s, m) /\ Answers(m, voted, {answer(TRUE)})
      \/ ~ VoteFor(s, m) /\ Answers(m, s, {answer(FALSE)})
  <2>1. VoteFor(s, m) \in BOOLEAN
    BY DEF VoteFor
  <2>2. Answers(m, IF VoteFor(s, m) THEN voted ELSE s, {answer(VoteFor(s, m))})
    BY <1>4 DEF OnRequestVote
  <2> HIDE DEF s, voted, answer
  <2>3. CASE VoteFor(s, m)
    <3>1. VoteFor(s, m) = TRUE
      BY <2>1, <2>3
    <3> QED
      BY <2>2, <3>1
  <2>4. CASE ~ VoteFor(s, m)
    <3>1. VoteFor(s, m) = FALSE
      BY <2>1, <2>4
    <3> QED
      BY <2>2, <3>1
  <2> QED
    BY <2>3, <2>4
<1> HIDE DEF s
<1>6. CASE ~ VoteFor(s, m) /\ Answers(m, s, {answer(FALSE)})
  <2>1. Does(lines, held, r, s, {})
    BY <1>1, <1>3, RemainsDoes
  <2> DEFINE no == answer(FALSE)
  <2>2. no.kind = "Vote" /\ ~ no.granted
    OBVIOUS
  <2>3. Answers(m, s, {no})
    BY <1>6
  <2> HIDE DEF no
  <2>4. Says(lines, held, r, s, no)
    BY <2>2 DEF Says, CarriesLog
  <2> QED
    BY <1>1, <2>1, <2>3, <2>4, AnswerKeepsHistory
<1>7. CASE VoteFor(s, m) /\ Answers(m, voted, {answer(TRUE)})
  <2>1. /\ LogFields \subseteq DOMAIN voted /\ voted.term = s.term /\ voted.role = s.role
        /\ voted.led = s.led /\ voted.log = s.log /\ voted.commit = s.commit
        /\ voted.applied = s.applied /\ voted.next = s.next
        /\ voted.matched = s.matched /\ voted.pending = s.pending
    BY <1>3 DEF Remains, Typed, LogFields, VotingFields
  <2> HIDE DEF voted
  <2>2. Typed(voted)
    BY <1>3, <2>1 DEF Remains, Typed
  <2>3. Remains(a, voted)
    BY <1>3, <2>1, <2>2 DEF Remains, Keeps
  <2>4. Does(lines, held, r, voted, {})
    BY <1>1, <2>3, RemainsDoes
  <2>5. m.term = s.term /\ UpToDate(m.end, EndOf(s.log))
    BY <1>7 DEF VoteFor
  <2>6. /\ replicas[m.from].term >= m.term
        /\ replicas[m.from].role = "candidate" /\ replicas[m.from].term = m.term =>
              m.end = EndOf(replicas[m.from].log)
    BY <1>1, <1>2 DEF RequestsSound
  <2>7. voted.log = replicas[r].log
    BY <2>3 DEF Remains, Keeps
  <2> DEFINE yes == answer(TRUE)
  <2>8. yes.kind = "Vote" /\ yes.from = r /\ yes.to = m.from /\ yes.term = s.term
    OBVIOUS
  <2>9. Answers(m, voted, {yes})
    BY <1>7
  <2> HIDE DEF yes
  <2>10. Votes(r, voted, yes)
    BY <1>1, <2>1, <2>5, <2>6, <2>7, <2>8 DEF Votes
  <2>11. Says(lines, held, r, voted, yes)
    BY <2>8, <2>10 DEF Says, CarriesLog
  <2> QED
    BY <1>1, <2>4, <2>9, <2>11, AnswerKeepsHistory
<1> QED
  BY <1>5, <1>6, <1>7

\* An entry more leaves what is committed as it was.
LEMMA CommittedLonger ==
    ASSUME NEW lines \in [Nat -> Seq(Entry)], NEW held, NEW a, Committed(lines, held, a),
           a.log \in Seq(Entry), a.commit \in Nat, a.term \in Nat,
           NEW e \in Entry, NEW s, s.log = Append(a.log, e), s.commit = a.commit,
           s.applied = a.applied, s.term = a.term
    PROVE  Committed(lines, held, s)
<1> DEFINE x == a.log
           z == s.log
           n == a.commit
<1>1. x \in Seq(Entry) /\ z = Append(x, e)
  OBVIOUS
<1>2. n \in Nat /\ n <= Len(x)
  BY DEF Committed
<1> HIDE DEF x, z, n
<1>3. Longer(x, e, z)
  BY <1>1, AppendFacts
<1>4. SameTo(z, x, n) /\ n <= Len(z)
  <2>1. Len(x) \in Nat /\ Len(z) = Len(x) + 1
    BY <1>3 DEF Longer
  <2>2. n <= Len(z)
    BY <1>2, <2>1
  <2>3. \A i \in 1 .. Len(x) : z[i] = x[i]
    BY <1>3 DEF Longer
  <2>4. \A i \in 1 .. n : z[i] = x[i]
    BY <1>2, <2>1, <2>3
  <2> QED
    BY <1>2, <2>2, <2>4 DEF SameTo
<1>5. \A i \in 1 .. n : z[i] = x[i]
  BY <1>4 DEF SameTo
<1>6. \A y : SameTo(x, y, n) => SameTo(z, y, n)
  BY <1>4, SameToJoins
<1> QED
  BY <1>4, <1>5, <1>6 DEF Committed, x, z, n

\* Whoever has a majority's votes adds the no-op of its term.
LEMMA VoteKeepsHistory ==
    ASSUME Voting, Voting', NEW lines, NEW held, History(lines, held),
           NEW m \in BagToSet(wire), OnVote(m)
    PROVE  HasHistory'
<1>1. /\ m.kind = "Vote" /\ m.to \in Replica /\ m.from \in Replica \ {m.to} /\ m.term \in Nat
      /\ m.granted => m \in yeses
  BY DEF OnVote, Voting, WireSensible, Sensible
<1> DEFINE r == m.to
           a == replicas[r]
           s == Adopted(a, m.term)
           voted == [s EXCEPT !.votes = @ \cup {m.from}]
           leading == Leading(r, voted)
<1>2. LogsFollow(lines) /\ LeadersWrite(lines)
  BY DEF History, Logging
<1>3. Remains(a, s) /\ VotingFields \subseteq DOMAIN s
      /\ (s.role \in {"candidate", "leader"} => s = a)
  BY <1>1, <1>2, AdoptedRemains
<1>4. OnVote(m)
  OBVIOUS
<1>5. \/ Answers(m, s, {})
      \/ /\ s.role = "candidate" /\ m.term = s.term /\ m.granted
         /\ \/ Answers(m, voted, {})
            \/ /\ Cardinality(voted.votes) >= Majority
               /\ Answers(m, leading, CopyToEveryone(r, leading))
  BY <1>4 DEF OnVote
<1> HIDE DEF s
<1>6. CASE Answers(m, s, {})
  <2>1. Does(lines, held, r, s, {})
    BY <1>1, <1>3, RemainsDoes
  <2> QED
    BY <1>1, <1>6, <2>1, AnswerKeepsHistory
<1>7. /\ LogFields \subseteq DOMAIN voted /\ voted.term = s.term /\ voted.role = s.role
      /\ voted.led = s.led /\ voted.log = s.log /\ voted.commit = s.commit
      /\ voted.applied = s.applied /\ voted.next = s.next
      /\ voted.matched = s.matched /\ voted.pending = s.pending
      /\ voted.votes = s.votes \cup {m.from} /\ VotingFields \subseteq DOMAIN voted
  BY <1>3 DEF Remains, Typed, LogFields, VotingFields
<1> HIDE DEF voted
<1>8. CASE Answers(m, voted, {})
  <2>2. Typed(voted)
    BY <1>3, <1>7 DEF Remains, Typed
  <2>3. Remains(a, voted)
    BY <1>3, <1>7, <2>2 DEF Remains, Keeps
  <2>4. Does(lines, held, r, voted, {})
    BY <1>1, <2>3, RemainsDoes
  <2> QED
    BY <1>1, <1>8, <2>4, AnswerKeepsHistory
<1>9. CASE /\ s.role = "candidate" /\ m.term = s.term /\ m.granted
           /\ Cardinality(voted.votes) >= Majority
           /\ Answers(m, leading, CopyToEveryone(r, leading))
  <2>1. s = a /\ a.role = "candidate" /\ m.term = a.term /\ a.term \in Nat /\ Typed(a)
    BY <1>3, <1>9 DEF Remains
  <2>2. a.votes \subseteq Replica /\ a.led \subseteq Nat
        /\ \A v \in a.votes \ {r} : Gave(yeses, v, r, a.term)
    BY <1>1, <2>1 DEF Voting, ReplicasTyped, CandidatesCountVotes
  <2>3. Wins(r, a.term)
    <3>1. voted.votes \in SUBSET Replica
      BY <1>1, <1>7, <2>1, <2>2
    <3>2. ASSUME NEW p \in voted.votes
          PROVE  VotedFor(p, r, a.term) /\ replicas[p].term >= a.term
      <4>1. Gave(yeses, m.from, r, a.term)
        BY <1>1, <1>9, <2>1 DEF Gave
      <4>2. VotedFor(p, r, a.term)
        BY <1>7, <2>1, <2>2, <4>1 DEF VotedFor
      <4> QED
        BY <1>1, <3>1, <4>2, VotersThere
    <3> QED
      BY <1>9, <3>1, <3>2 DEF Wins
  <2> DEFINE e == [term |-> a.term, op |-> Noop]
             log == Append(a.log, e)
  <2>4. e \in Entry /\ e.term = a.term /\ e.op = Noop
    BY <2>1 DEF Entry
  <2>5. a.log \in Seq(Entry)
    BY <2>1 DEF Typed
  <2> HIDE DEF e
  <2>6. log \in Seq(Entry) /\ log # <<>> /\ Len(log) \in Nat
    BY <2>4, <2>5, AppendFacts DEF Longer
  <2>7. leading = [voted EXCEPT
                     !.role = "leader", !.led = @ \cup {voted.term}, !.log = log, !.leader = r,
                     !.votes = {}, !.prevotes = {},
                     !.next = [p \in Replica |-> Len(log)],
                     !.matched = [p \in Replica |-> IF p = r THEN Len(log) ELSE 0]]
    BY <1>7, <2>1 DEF Leading, e
  <2> HIDE DEF log, leading
  <2>8. /\ LogFields \subseteq DOMAIN leading /\ leading.term = a.term /\ leading.role = "leader"
        /\ leading.led = a.led \cup {a.term} /\ leading.log = log /\ leading.commit = a.commit
        /\ leading.applied = a.applied /\ leading.next = [p \in Replica |-> Len(log)]
        /\ leading.matched = [p \in Replica |-> IF p = r THEN Len(log) ELSE 0]
        /\ leading.pending = a.pending
    BY <1>7, <2>1, <2>7 DEF LogFields, VotingFields
  <2>9. Typed(leading)
    BY <2>1, <2>6, <2>8 DEF Typed
  <2>10. Adds(r, leading)
    <3>1. a.term \notin a.led
      BY <1>1, <1>2, <2>1 DEF LeadersWrite
    <3> QED
      BY <2>1, <2>3, <2>4, <2>8, <3>1 DEF Adds, log
  <2>11. Notes(HeldBy(held, r, leading), leading)
    <3> SUFFICES ASSUME NEW p \in Replica
                 PROVE  /\ leading.matched[p] <= Len(leading.log)
                        /\ leading.next[p] <= Len(leading.log) + 1
                        /\ \A i \in 1 .. leading.matched[p] :
                              HoldsAt(leading.log, i, leading.term) =>
                                 <<p, leading.term, i>> \in HeldBy(held, r, leading)
      BY DEF Notes
    <3>1. CASE p = r
      BY <2>6, <2>8, <3>1 DEF HeldBy, HoldsAt
    <3>2. CASE p # r
      BY <2>6, <2>8, <3>2
    <3> QED
      BY <3>1, <3>2
  <2>12. Committed(lines, held, leading)
    <3>1. lines \in [Nat -> Seq(Entry)] /\ Committed(lines, held, a)
      BY <1>1 DEF History, Logging, LinesSound, Choosing, CommitsSound
    <3>2. a.commit \in Nat
      BY <2>1 DEF Typed
    <3>3. leading.log = Append(a.log, e)
      BY <2>8 DEF log
    <3> HIDE DEF a
    <3> QED
      BY <2>1, <2>4, <2>5, <2>8, <3>1, <3>2, <3>3, CommittedLonger
  <2>13. Does(lines, held, r, leading, {})
    BY <2>1, <2>2, <2>8, <2>9, <2>10, <2>11, <2>12 DEF Does
  <2>14. \A n \in CopyToEveryone(r, leading) : Says(lines, held, r, leading, n)
    BY <1>1, <2>6, <2>8, <2>13, LeaderCopies
  <2> QED
    BY <1>1, <1>9, <2>13, <2>14, AnswerKeepsHistory
<1> QED
  BY <1>5, <1>6, <1>8, <1>9

\* A replica has applied what is committed, and one has applied all up to a place.
AppliedAll(s) ==
    /\ Typed(s) /\ Len(s.applied) = s.commit
    /\ \A i \in 1 .. s.commit : s.applied[i] = s.log[i].op

AppliedTo(s, reached, z) ==
    /\ AppliedAll(z) /\ z.commit = reached
    /\ z.log = s.log /\ z.role = s.role /\ z.led = s.led /\ z.term = s.term
    /\ z.matched = s.matched /\ z.next = s.next /\ z.pending = s.pending

\* `apply` applies what is committed, in order.
LEMMA AppliedFacts ==
    ASSUME NEW s, AppliedAll(s),
           NEW reached \in Nat, reached >= s.commit, reached <= Len(s.log),
           NEW z, z = Applied(s, reached)
    PROVE  AppliedTo(s, reached, z)
<1> DEFINE x == s.log
           old == s.applied
           n == s.commit
           more == [i \in 1 .. (reached - Len(old)) |-> x[Len(old) + i].op]
<1>1. /\ x \in Seq(Entry) /\ n \in Nat /\ old \in Seq(Command \cup {Noop}) /\ Len(old) = n
      /\ LogFields \subseteq DOMAIN s
  BY DEF AppliedAll, Typed
<1>2. /\ LogFields \subseteq DOMAIN z /\ z.commit = reached /\ z.applied = old \o more
      /\ z.log = s.log /\ z.role = s.role /\ z.led = s.led /\ z.term = s.term
      /\ z.matched = s.matched /\ z.next = s.next /\ z.pending = s.pending
  BY <1>1 DEF Applied, LogFields
<1>3. Typed(s) /\ \A i \in 1 .. n : old[i] = x[i].op
  BY DEF AppliedAll
<1>4. n <= reached /\ reached <= Len(x) /\ reached \in Nat
  OBVIOUS
<1>5. more = [i \in 1 .. (reached - n) |-> x[n + i].op]
  BY <1>1
<1> HIDE DEF x, old, n, more
<1>6. \A i \in 1 .. Len(x) : x[i].op \in Command \cup {Noop}
  <2>1. \A i \in 1 .. Len(x) : x[i] \in Entry
    BY <1>1, EntriesTyped
  <2> QED
    BY <2>1 DEF Entry
<1>7. more \in Seq(Command \cup {Noop}) /\ Len(more) = reached - n
      /\ \A i \in 1 .. (reached - n) : more[i] = x[n + i].op
  <2>1. reached - n \in Nat /\ Len(x) \in Nat
    BY <1>1, <1>4
  <2>2. \A i \in 1 .. (reached - n) : n + i \in 1 .. Len(x)
    BY <1>1, <1>4, <2>1
  <2>3. \A i \in 1 .. (reached - n) : x[n + i].op \in Command \cup {Noop}
    BY <1>6, <2>2
  <2>4. more \in [1 .. (reached - n) -> Command \cup {Noop}]
    BY <1>5, <2>3
  <2>5. more \in Seq(Command \cup {Noop})
    BY <2>1, <2>4
  <2>6. Len(more) = reached - n
    BY <2>1, <2>4, <2>5
  <2> QED
    BY <1>5, <2>5, <2>6
<1>8. old \o more \in Seq(Command \cup {Noop}) /\ Len(old \o more) = reached
  <2>1. old \in Seq(Command \cup {Noop}) /\ more \in Seq(Command \cup {Noop})
    BY <1>1, <1>7
  <2>2. old \o more \in Seq(Command \cup {Noop}) /\ Len(old \o more) = Len(old) + Len(more)
    BY <2>1, Joined
  <2>3. n + (reached - n) = reached
    BY <1>1, <1>4
  <2> QED
    BY <1>1, <1>7, <2>2, <2>3
<1>9. ASSUME NEW i \in 1 .. reached PROVE (old \o more)[i] = x[i].op
  <2>1. CASE i <= n
    <3>1. i \in 1 .. n
      BY <1>1, <1>4, <2>1
    <3>2. (old \o more)[i] = old[i]
      BY <1>1, <1>7, <3>1
    <3> QED
      BY <1>3, <3>1, <3>2
  <2>2. CASE i > n
    <3>1. i - n \in 1 .. (reached - n) /\ n + (i - n) = i
      BY <1>1, <1>4, <2>2
    <3>2. (old \o more)[i] = more[i - n]
      BY <1>1, <1>4, <1>7, <2>2, <3>1
    <3> QED
      BY <1>7, <3>1, <3>2
  <2>3. i <= n \/ i > n
    <3>1. i \in Nat /\ n \in Nat
      BY <1>1, <1>4
    <3> QED
      BY <3>1
  <2> QED
    BY <2>1, <2>2, <2>3
<1>10. z.commit \in Nat /\ z.applied \in Seq(Command \cup {Noop})
  BY <1>2, <1>4, <1>8
<1>11. Typed(z)
  BY <1>2, <1>3, <1>10 DEF Typed
<1>12. AppliedAll(z)
  BY <1>2, <1>8, <1>9, <1>11 DEF AppliedAll, x
<1> QED
  BY <1>2, <1>12 DEF AppliedTo

\* What a copy leaves of the log: what it was, or a line that missed what is gone.
LEMMA TakenKeeps ==
    ASSUME NEW lines, LinesSound(lines), NEW u \in Nat, lines[u] # <<>>,
           NEW x \in Seq(Entry), Follows(lines, x), TermsTo(x, u),
           NEW z \in Seq(Entry),
           \A k \in Nat : SameTo(x, lines[u], k) => SameTo(z, lines[u], k),
           NEW i \in Nat, NEW term \in Nat, HoldsAt(x, i, term)
    PROVE  HoldsAt(z, i, term) \/ Missed(lines, term, i, u)
<1> DEFINE y == lines[u]
<1>1. lines \in [Nat -> Seq(Entry)] /\ y \in Seq(Entry) /\ Follows(lines, y)
  BY DEF LinesSound
<1>2. term <= u
  BY DEF HoldsAt, TermsTo
<1>3. ASSUME SameTo(x, y, i) PROVE HoldsAt(z, i, term)
  <2>1. SameTo(z, y, i)
    BY <1>3
  <2>2. SameTo(y, z, i)
    BY <2>1, SameToSymmetric
  <2>3. SameTo(x, z, i)
    BY <1>3, <2>2, SameToJoins
  <2>4. i <= i
    OBVIOUS
  <2> QED
    BY <2>3, <2>4, SameToHolds
<1>4. CASE HoldsAt(y, i, term)
  <2>1. SameTo(x, y, i)
    BY <1>1, <1>4, FollowersMatch
  <2> QED
    BY <1>3, <2>1
<1>5. CASE ~ HoldsAt(y, i, term)
  <2>1. CASE term = u
    <3>1. SameTo(x, y, i)
      BY <1>1, <2>1, FollowsTo
    <3> QED
      BY <1>3, <3>1
  <2>2. CASE term # u
    BY <1>2, <1>5, <2>2 DEF Missed
  <2> QED
    BY <2>1, <2>2
<1> QED
  BY <1>4, <1>5

\* What was committed is still there once a copy of a later line is taken.
LEMMA TakenCommits ==
    ASSUME NEW lines, LinesSound(lines), NEW held, HeldIsKept(lines, held), LinesHold(lines, held),
           NEW u \in Nat, lines[u] # <<>>,
           NEW a, Typed(a), a.term \in Nat, a.term <= u, Committed(lines, held, a),
           NEW z \in Seq(Entry), \A k \in Nat : SameTo(a.log, lines[u], k) => SameTo(z, lines[u], k)
    PROVE  /\ a.commit <= Len(z)
           /\ \A i \in 1 .. a.commit : z[i] = a.log[i]
           /\ a.commit > 0 =>
                 \E term \in Nat, k \in Nat :
                    /\ term <= u /\ k >= a.commit /\ Chosen(held, term, k)
                    /\ SameTo(z, lines[term], a.commit)
<1> DEFINE x == a.log
           n == a.commit
           y == lines[u]
<1>1. x \in Seq(Entry) /\ n \in Nat /\ y \in Seq(Entry) /\ lines \in [Nat -> Seq(Entry)]
  BY DEF Typed, LinesSound
<1>2. CASE n = 0
  BY <1>1, <1>2, EntriesTyped
<1>3. CASE n > 0
  <2>1. PICK term \in Nat, k \in Nat :
           term <= a.term /\ k >= n /\ Chosen(held, term, k) /\ SameTo(x, lines[term], n)
    BY <1>3 DEF Committed
  <2>2. term <= u
    BY <2>1
  <2>3. SameTo(y, lines[term], k)
    BY <2>1, <2>2, ChosenLinesMatch
  <2>4. \A k2 \in Nat : SameTo(x, y, k2) => SameTo(z, y, k2)
    OBVIOUS
  <2>5. k \in Nat /\ lines[term] \in Seq(Entry)
    BY <1>1
  <2> HIDE DEF x, n, y
  <2>6. SameTo(y, lines[term], n)
    BY <1>1, <2>1, <2>3, <2>5, SameToLess
  <2>7. SameTo(x, y, n)
    BY <2>1, <2>6, SameToSymmetric, SameToJoins
  <2>8. SameTo(z, y, n)
    BY <1>1, <2>4, <2>7
  <2>9. SameTo(z, lines[term], n)
    BY <2>6, <2>8, SameToJoins
  <2>10. n <= Len(z) /\ \A i \in 1 .. n : z[i] = x[i]
    BY <2>7, <2>8 DEF SameTo
  <2> QED
    BY <1>3, <2>1, <2>2, <2>9, <2>10 DEF x, n
<1> QED
  BY <1>1, <1>2, <1>3

LEMMA AppendKeepsHistory ==
    ASSUME Voting, Voting', NEW lines, NEW held, History(lines, held),
           NEW m \in BagToSet(wire), OnAppend(m)
    PROVE  HasHistory'
<1>1. m.kind = "Append" /\ m.to \in Replica /\ m.term \in Nat
  BY DEF OnAppend, Voting, WireSensible, Sensible
<1> DEFINE r == m.to
           a == replicas[r]
           s == Adopted(a, m.term)
           following == Following(s, m)
           taken == [following EXCEPT !.log = Taken(@, m.prev.index, m.entries)]
           reached == Vouched(m)
           z == Taken(a.log, m.prev.index, m.entries)
           n == m.prev.index + Len(m.entries)
           answer(matched) == [kind |-> "Appended", from |-> r, to |-> m.from, term |-> s.term,
                               matched |-> matched]
<1>2. /\ LogsFollow(lines) /\ LinesSound(lines) /\ CopiesFollow(lines)
      /\ HeldIsKept(lines, held) /\ LinesHold(lines, held) /\ CommitsSound(lines, held)
  BY DEF History, Logging, Choosing
<1>3. Remains(a, s) /\ VotingFields \subseteq DOMAIN s /\ s.term >= m.term
  BY <1>1, <1>2, AdoptedRemains
<1>4. /\ a.term \in Nat /\ a.led \subseteq Nat /\ Typed(a) /\ Follows(lines, a.log)
      /\ TermsTo(a.log, a.term) /\ Committed(lines, held, a)
  BY <1>1, <1>2 DEF Voting, ReplicasTyped, LogsFollow, CommitsSound
<1>5. /\ m.prev \in End /\ m.entries \in Seq(Entry) /\ m.commit \in Nat
      /\ StretchOf(m, lines[m.term]) /\ ChosenTo(held, m.commit, m.term)
  BY <1>1, <1>2 DEF CopiesFollow, CarriesLog, CommitsSound
<1>6. OnAppend(m)
  OBVIOUS
<1>7. \/ Answers(m, s, {answer(Unmatched)})
      \/ Answers(m, following, {answer(Unmatched)})
      \/ /\ m.term = s.term /\ Holds(s.log, m.prev)
         /\ \/ reached > s.commit /\ Answers(m, Applied(taken, reached), {answer(n)})
            \/ Answers(m, taken, {answer(n)})
  BY <1>6 DEF OnAppend, Answered
<1>8. s.term \in Nat /\ s.term >= a.term /\ s.log = a.log /\ s.led = a.led /\ s.commit = a.commit
      /\ s.applied = a.applied
  BY <1>3 DEF Remains, Keeps
<1> HIDE DEF s
<1>9. /\ LogFields \subseteq DOMAIN following /\ following.term = s.term
      /\ following.role = "follower" /\ following.led = s.led /\ following.log = s.log
      /\ following.commit = s.commit /\ following.applied = s.applied
      /\ following.next = s.next /\ following.matched = s.matched
      /\ following.pending = s.pending
  BY <1>3 DEF Remains, Typed, LogFields, VotingFields, Following
<1>10. /\ LogFields \subseteq DOMAIN taken /\ taken.term = s.term
       /\ taken.role = "follower" /\ taken.led = s.led /\ taken.log = z
       /\ taken.commit = s.commit /\ taken.applied = s.applied
       /\ taken.next = s.next /\ taken.matched = s.matched /\ taken.pending = s.pending
  BY <1>8, <1>9 DEF LogFields
<1> HIDE DEF following, taken, reached, z, n, answer
<1>11. Remains(a, following)
  <2>1. Typed(following)
    BY <1>3, <1>9 DEF Remains, Typed
  <2> QED
    BY <1>3, <1>9, <2>1 DEF Remains, Keeps
<1>12. Does(lines, held, r, s, {}) /\ Does(lines, held, r, following, {})
  BY <1>1, <1>3, <1>11, RemainsDoes
<1>13. /\ answer(Unmatched).kind = "Appended" /\ answer(Unmatched).from = r
       /\ answer(Unmatched).term = s.term /\ answer(Unmatched).matched = Unmatched
       /\ answer(n).kind = "Appended" /\ answer(n).from = r
       /\ answer(n).term = s.term /\ answer(n).matched = n
  BY DEF answer
<1>14. Says(lines, held, r, s, answer(Unmatched)) /\ Says(lines, held, r, following, answer(Unmatched))
  BY <1>9, <1>13 DEF Says, CarriesLog
<1>15. CASE Answers(m, s, {answer(Unmatched)}) \/ Answers(m, following, {answer(Unmatched)})
  <2>1. /\ \A k \in {answer(Unmatched)} : Says(lines, held, r, s, k)
        /\ \A k \in {answer(Unmatched)} : Says(lines, held, r, following, k)
    BY <1>14
  <2> QED
    BY <1>1, <1>12, <1>15, <2>1, AnswerKeepsHistory
<1>16. CASE /\ m.term = s.term /\ Holds(s.log, m.prev)
            /\ \/ reached > s.commit /\ Answers(m, Applied(taken, reached), {answer(n)})
               \/ Answers(m, taken, {answer(n)})
  <2> DEFINE u == s.term
             x == a.log
             y == lines[u]
  <2>1. /\ u \in Nat /\ x \in Seq(Entry) /\ y \in Seq(Entry) /\ y # <<>> /\ a.term <= u
        /\ lines \in [Nat -> Seq(Entry)]
    BY <1>2, <1>4, <1>5, <1>8, <1>16 DEF Typed, LinesSound, StretchOf
  <2>2. TermsTo(x, u)
    <3> SUFFICES ASSUME NEW i \in DOMAIN x PROVE x[i].term <= u
      BY DEF TermsTo
    <3>1. x[i].term \in Nat /\ x[i].term <= a.term
      BY <1>4, <2>1, EntriesTyped DEF TermsTo
    <3>2. a.term \in Nat /\ u \in Nat /\ a.term <= u
      BY <1>4, <2>1
    <3> HIDE DEF u, x, a
    <3> QED
      BY <3>1, <3>2
  <2>3. StretchOf(m, y) /\ Holds(x, m.prev) /\ Follows(lines, x)
    BY <1>4, <1>5, <1>8, <1>16
  <2> HIDE DEF u, x, y
  <2>4. /\ z \in Seq(Entry) /\ Follows(lines, z) /\ TermsTo(z, u) /\ SameTo(z, y, n)
        /\ \A k \in Nat : SameTo(x, y, k) => SameTo(z, y, k)
    <3>1. z = Taken(x, m.prev.index, m.entries) /\ y = lines[u]
          /\ n = m.prev.index + Len(m.entries)
      BY DEF z, x, y, n
    <3>2. LinesSound(lines) /\ u \in Nat /\ x \in Seq(Entry)
      BY <1>2, <2>1
    <3>3. m.prev \in End /\ m.entries \in Seq(Entry) /\ StretchOf(m, lines[u])
      BY <1>5, <2>3, <3>1
    <3>4. Follows(lines, x) /\ TermsTo(x, u) /\ Holds(x, m.prev)
      BY <2>2, <2>3
    <3>5. /\ z \in Seq(Entry) /\ Follows(lines, z) /\ TermsTo(z, u)
          /\ SameTo(z, lines[u], m.prev.index + Len(m.entries))
          /\ \A k \in Nat : SameTo(x, lines[u], k) => SameTo(z, lines[u], k)
      BY <3>1, <3>2, <3>3, <3>4, TakenFollows
    <3> QED
      BY <3>1, <3>5
  <2>5. n \in Nat /\ n <= Len(z) /\ n <= Len(y)
    BY <1>5, <2>4 DEF n, SameTo, End
  <2>6. \A i \in Nat, term \in Nat :
           HoldsAt(x, i, term) => HoldsAt(z, i, term) \/ Missed(lines, term, i, u)
    BY <1>2, <2>1, <2>2, <2>3, <2>4, TakenKeeps DEF y
  <2>7. /\ a.commit <= Len(z)
        /\ \A i \in 1 .. a.commit : z[i] = x[i]
        /\ a.commit > 0 =>
              \E term \in Nat, k \in Nat :
                 /\ term <= u /\ k >= a.commit /\ Chosen(held, term, k)
                 /\ SameTo(z, lines[term], a.commit)
    BY <1>2, <1>4, <2>1, <2>4, TakenCommits DEF x, y
  <2>8. ASSUME NEW became, Typed(became), became.role = "follower", became.led = a.led,
               became.term = u, became.log = z, Committed(lines, held, became)
        PROVE  Does(lines, held, r, became, {}) /\ Says(lines, held, r, became, answer(n))
    <3>1. Takes(lines, a, became)
      BY <2>4, <2>6, <2>8 DEF Takes, x
    <3>2. Does(lines, held, r, became, {})
      BY <1>4, <2>1, <2>8, <3>1 DEF Does
    <3>3. ASSUME NEW i \in 1 .. n, HoldsAt(y, i, u) PROVE HoldsAt(z, i, u)
      <4>1. SameTo(y, z, n) /\ i <= n
        BY <2>4, <2>5, SameToSymmetric
      <4> QED
        BY <2>1, <2>4, <2>5, <3>3, <4>1, SameToHolds
    <3>4. Says(lines, held, r, became, answer(n))
      BY <1>13, <2>5, <2>8, <3>3 DEF Says, CarriesLog, u, y
    <3> QED
      BY <3>2, <3>4
  <2>9. /\ Len(taken.applied) = taken.commit /\ taken.commit \in Nat
        /\ \A i \in 1 .. taken.commit : taken.applied[i] = taken.log[i].op
    <3>1. /\ a.commit \in Nat /\ Len(a.applied) = a.commit
          /\ \A i \in 1 .. a.commit : a.applied[i] = x[i].op
      BY <1>4 DEF Committed, Typed, x
    <3> QED
      BY <1>8, <1>10, <2>7, <3>1
  <2>10. Typed(taken)
    BY <1>3, <1>10, <2>4 DEF Remains, Typed
  <2>11. CASE Answers(m, taken, {answer(n)})
    <3>1. Committed(lines, held, taken)
      BY <1>8, <1>10, <2>7, <2>9 DEF Committed, u
    <3>2. Does(lines, held, r, taken, {}) /\ Says(lines, held, r, taken, answer(n))
      BY <1>8, <1>10, <2>8, <2>10, <3>1 DEF u
    <3> QED
      BY <1>1, <2>11, <3>2, AnswerKeepsHistory
  <2>12. CASE reached > s.commit /\ Answers(m, Applied(taken, reached), {answer(n)})
    <3> DEFINE became == Applied(taken, reached)
    <3>1. reached \in Nat /\ reached <= n /\ reached <= m.commit
      BY <1>5, <2>5 DEF reached, Vouched, n
    <3>2. reached >= taken.commit /\ reached <= Len(taken.log) /\ Len(z) \in Nat
      <4>1. Len(z) \in Nat
        BY <2>4, EntriesTyped
      <4> QED
        BY <1>10, <2>5, <2>9, <2>12, <3>1, <4>1
    <3>3. /\ Typed(became) /\ became.commit = reached /\ Len(became.applied) = reached
          /\ \A i \in 1 .. reached : became.applied[i] = taken.log[i].op
          /\ became.log = taken.log /\ became.role = taken.role /\ became.led = taken.led
          /\ became.term = taken.term
      <4>1. AppliedAll(taken)
        BY <2>9, <2>10 DEF AppliedAll
      <4>2. AppliedTo(taken, reached, became)
        BY <3>1, <3>2, <4>1, AppliedFacts
      <4> HIDE DEF became
      <4> QED
        BY <4>2 DEF AppliedTo, AppliedAll
    <3> HIDE DEF became
    <3>4. \E term \in Nat, k \in Nat :
             /\ term <= u /\ k >= reached /\ Chosen(held, term, k)
             /\ SameTo(z, lines[term], reached)
      <4>1. m.commit > 0
        BY <1>5, <2>9, <2>12, <3>1, <1>10
      <4>2. PICK term \in Nat, k \in Nat : term <= u /\ k >= m.commit /\ Chosen(held, term, k)
        BY <1>5, <1>16, <4>1 DEF ChosenTo, u
      <4>3. k >= reached
        BY <1>5, <3>1, <4>2
      <4>4. SameTo(y, lines[term], k)
        BY <1>2, <2>1, <4>2, ChosenLinesMatch DEF y
      <4>5. lines[term] \in Seq(Entry)
        BY <2>1
      <4>6. SameTo(y, lines[term], reached)
        BY <2>1, <3>1, <4>3, <4>4, <4>5, SameToLess
      <4>7. SameTo(z, y, reached)
        BY <2>1, <2>4, <2>5, <3>1, SameToLess
      <4> QED
        BY <4>2, <4>3, <4>6, <4>7, SameToJoins
    <3>5. Committed(lines, held, became)
      BY <1>10, <3>2, <3>3, <3>4 DEF Committed, u
    <3>6. Does(lines, held, r, became, {}) /\ Says(lines, held, r, became, answer(n))
      BY <1>8, <1>10, <2>8, <3>3, <3>5 DEF u
    <3>7. Answers(m, became, {answer(n)})
      BY <2>12 DEF became
    <3> QED
      BY <1>1, <3>6, <3>7, AnswerKeepsHistory
  <2> QED
    BY <1>16, <2>11, <2>12
<1> QED
  BY <1>7, <1>15, <1>16

\* A set of numbers that go no further than one has a greatest.
LEMMA Greatest ==
    ASSUME NEW T \in SUBSET Nat, T # {}, NEW n \in Nat, \A x \in T : x <= n
    PROVE  \E x \in T : \A y \in T : y <= x
<1> DEFINE D == {n - x : x \in T}
<1>1. D \in SUBSET Nat /\ D # {}
  <2>1. ASSUME NEW x \in T PROVE n - x \in Nat
    <3>1. x \in Nat /\ x <= n
      OBVIOUS
    <3> QED
      BY <3>1
  <2> QED
    BY <2>1
<1>2. PICK d \in D : \A e \in D : d <= e
  <2> HIDE DEF D
  <2> QED
    BY <1>1, Least
<1>3. PICK x \in T : d = n - x
  BY <1>2
<1>4. ASSUME NEW y \in T PROVE y <= x
  <2>1. n - y \in D
    OBVIOUS
  <2>2. d <= n - y
    BY <1>2, <2>1
  <2>3. x \in Nat /\ y \in Nat /\ n \in Nat
    OBVIOUS
  <2> QED
    BY <1>3, <2>2, <2>3
<1> QED
  BY <1>4

\* `advance` commits what a majority holds, and confirms only what that commits.
LEMMA AdvancedFacts ==
    ASSUME NEW lines \in [Nat -> Seq(Entry)], NEW held, NEW s, Typed(s), s.term \in Nat,
           lines[s.term] = s.log, Notes(held, s), Committed(lines, held, s),
           NEW z, z = Advanced(s)
    PROVE  /\ Typed(z) /\ Committed(lines, held, z)
           /\ z.log = s.log /\ z.role = s.role /\ z.led = s.led /\ z.term = s.term
           /\ z.matched = s.matched /\ z.next = s.next
           /\ \A w \in s.pending \ z.pending :
                 s.log[w[1]].op = w[2] => Settled(lines, held, w[2])
<1>1. CASE Committable(s) = {}
  <2>1. z = s
    BY <1>1 DEF Advanced
  <2> QED
    BY <2>1
<1>2. CASE Committable(s) # {}
  <2> DEFINE T == Committable(s)
             x == s.log
  <2>1. /\ x \in Seq(Entry) /\ Len(x) \in Nat /\ DOMAIN x = 1 .. Len(x) /\ s.commit \in Nat
        /\ s.matched \in [Replica -> Nat] /\ s.pending \subseteq (Nat \ {0}) \X Command
        /\ s.commit <= Len(x) /\ Len(s.applied) = s.commit
        /\ \A i \in 1 .. s.commit : s.applied[i] = s.log[i].op
    BY EntriesTyped DEF Typed, Committed
  <2>2. T \in SUBSET Nat /\ \A at \in T : at > s.commit /\ at <= Len(x)
    <3>1. ASSUME NEW at \in T PROVE at \in Nat /\ at > s.commit /\ at <= Len(x)
      <4>1. at \in (s.commit + 1) .. Len(s.log)
        BY DEF Committable
      <4> DEFINE low == s.commit
                 high == Len(x)
      <4>2. low \in Nat /\ high \in Nat /\ at \in (low + 1) .. high
        BY <2>1, <4>1
      <4> HIDE DEF T, x, low, high
      <4>3. at \in Nat /\ at > low /\ at <= high
        BY ONLY <4>2
      <4> QED
        BY <4>3 DEF low, high
    <3> QED
      BY <3>1
  <2>3. PICK reached \in Nat :
           reached \in T /\ reached = CHOOSE at \in T : \A b \in T : b <= at
    <3> HIDE DEF T
    <3>1. \E at \in T : \A b \in T : b <= at
      BY <1>2, <2>1, <2>2, Greatest DEF T
    <3> QED
      BY <2>2, <3>1
  <2> DEFINE y == Applied(s, reached)
  <2>4. /\ reached \in (s.commit + 1) .. Len(x) /\ x[reached].term = s.term
        /\ Cardinality({p \in Replica : s.matched[p] >= reached}) >= Majority
    BY <2>3 DEF Committable
  <2>5. reached \in Nat /\ reached > 0 /\ reached >= s.commit /\ reached <= Len(x)
        /\ HoldsAt(x, reached, s.term)
    <3>1. reached \in Nat /\ reached > s.commit /\ reached <= Len(x)
      BY <2>2, <2>3
    <3>2. s.commit \in Nat
      BY <2>1
    <3>3. DOMAIN x = 1 .. Len(x) /\ Len(x) \in Nat /\ x[reached].term = s.term
      BY <2>1, <2>4
    <3> HIDE DEF x, T
    <3>4. reached > 0 /\ reached >= s.commit
      BY <3>1, <3>2
    <3>5. reached \in 1 .. Len(x)
      BY <3>1, <3>3, <3>4
    <3> QED
      BY <3>1, <3>3, <3>4, <3>5 DEF HoldsAt
  <2>6. Chosen(held, s.term, reached)
    <3> DEFINE Q == {p \in Replica : s.matched[p] >= reached}
    <3>1. ASSUME NEW p \in Q PROVE <<p, s.term, reached>> \in held
      <4>1. p \in Replica /\ s.matched[p] \in Nat /\ s.matched[p] >= reached
        BY <2>1
      <4>2. reached \in 1 .. s.matched[p]
        BY <2>5, <4>1
      <4>3. HoldsAt(s.log, reached, s.term)
        BY <2>5
      <4>4. \A i \in 1 .. s.matched[p] : HoldsAt(s.log, i, s.term) => <<p, s.term, i>> \in held
        BY <4>1 DEF Notes
      <4> QED
        BY <4>2, <4>3, <4>4
    <3> HIDE DEF Q
    <3>2. Q \in SUBSET Replica /\ Cardinality(Q) >= Majority
      BY <2>4 DEF Q
    <3> QED
      BY <3>1, <3>2 DEF Chosen
  <2>7. /\ Typed(y) /\ y.commit = reached /\ Len(y.applied) = reached
        /\ \A i \in 1 .. reached : y.applied[i] = s.log[i].op
        /\ y.log = s.log /\ y.role = s.role /\ y.led = s.led /\ y.term = s.term
        /\ y.matched = s.matched /\ y.next = s.next /\ y.pending = s.pending
    <3>1. reached \in Nat /\ reached >= s.commit /\ reached <= Len(s.log)
      BY <2>5
    <3>2. AppliedAll(s)
      BY <2>1 DEF AppliedAll
    <3> HIDE DEF x
    <3>3. AppliedTo(s, reached, y)
      BY <3>1, <3>2, AppliedFacts
    <3> HIDE DEF y
    <3> QED
      BY <3>3 DEF AppliedTo, AppliedAll
  <2> HIDE DEF y
  <2>8. z = [y EXCEPT !.pending = {w \in @ : w[1] > reached}]
    BY <1>2, <2>3 DEF Advanced, y
  <2>9. /\ LogFields \subseteq DOMAIN z /\ z.pending = {w \in s.pending : w[1] > reached}
        /\ z.commit = reached /\ z.applied = y.applied
        /\ z.log = s.log /\ z.role = s.role /\ z.led = s.led /\ z.term = s.term
        /\ z.matched = s.matched /\ z.next = s.next
    BY <2>7, <2>8 DEF Typed, LogFields
  <2>10. Typed(z)
    BY <2>1, <2>7, <2>9 DEF Typed
  <2>11. SameTo(s.log, lines[s.term], reached)
    BY <2>5 DEF SameTo
  <2>12. Committed(lines, held, z)
    <3>1. z.commit <= Len(z.log) /\ Len(z.applied) = z.commit
          /\ \A i \in 1 .. z.commit : z.applied[i] = z.log[i].op
      BY <2>5, <2>7, <2>9
    <3>2. s.term <= z.term /\ reached >= z.commit /\ SameTo(z.log, lines[s.term], z.commit)
      BY <2>5, <2>9, <2>11
    <3> QED
      BY <2>5, <2>6, <3>1, <3>2 DEF Committed
  <2>13. ASSUME NEW w \in s.pending \ z.pending, s.log[w[1]].op = w[2]
         PROVE  Settled(lines, held, w[2])
    <3>1. w[1] \in Nat \ {0} /\ ~ (w[1] > reached)
      <4>1. w \in s.pending /\ w \in (Nat \ {0}) \X Command
        BY <2>1
      <4>2. ~ (w[1] > reached)
        BY <2>9, <4>1
      <4> QED
        BY <4>1, <4>2
    <3>2. w[1] \in 1 .. reached
      <4> DEFINE k == w[1]
      <4>1. k \in Nat /\ k > 0 /\ ~ (k > reached)
        BY <3>1
      <4>2. reached \in Nat
        BY <2>5
      <4> HIDE DEF k
      <4>3. k \in 1 .. reached
        BY <4>1, <4>2
      <4> QED
        BY <4>3 DEF k
    <3>3. lines[s.term][w[1]].op = w[2]
      BY <2>13
    <3> QED
      BY <2>5, <2>6, <3>2, <3>3 DEF Settled
  <2> QED
    BY <2>9, <2>10, <2>12, <2>13
<1> QED
  BY <1>1, <1>2

\* A leader told of more that is held notes no more than what was held, and commits
\* and confirms by it.
LEMMA AppendedKeepsHistory ==
    ASSUME Voting, Voting', NEW lines, NEW held, History(lines, held),
           NEW m \in BagToSet(wire), OnAppended(m)
    PROVE  HasHistory'
<1>1. m.kind = "Appended" /\ m.to \in Replica /\ m.from \in Replica /\ m.term \in Nat
  BY DEF OnAppended, Voting, WireSensible, Sensible
<1> DEFINE r == m.to
           a == replicas[r]
           s == Adopted(a, m.term)
           told == IF m.matched # Unmatched /\ m.matched > s.matched[m.from]
                   THEN m.matched ELSE s.matched[m.from]
           next == IF m.matched # Unmatched THEN told + 1 ELSE SteppedBack(s.next[m.from])
           heard == [s EXCEPT !.matched[m.from] = told, !.next[m.from] = next]
           b == Advanced(heard)
<1>2. LogsFollow(lines) /\ LeadersWrite(lines) /\ CopiesFollow(lines) /\ LinesSound(lines)
      /\ AnswersSound(lines, held) /\ CommitsSound(lines, held)
  BY DEF History, Logging, Choosing
<1>3. Remains(a, s) /\ (s.role \in {"candidate", "leader"} => s = a)
  BY <1>1, <1>2, AdoptedRemains
<1>4. OnAppended(m)
  OBVIOUS
<1>5. \/ Answers(m, s, {})
      \/ /\ s.role = "leader" /\ m.term = s.term
         /\ \E copies : /\ copies \subseteq {CopyFor(r, b, m.from)}
                        /\ Answers(m, b, Confirmed(heard) \cup copies)
  BY <1>4 DEF OnAppended
<1> HIDE DEF s, told, next
<1>6. CASE Answers(m, s, {})
  <2>1. Does(lines, held, r, s, {})
    BY <1>1, <1>3, RemainsDoes
  <2> QED
    BY <1>1, <1>6, <2>1, AnswerKeepsHistory
<1>7. CASE /\ s.role = "leader" /\ m.term = s.term
           /\ \E copies : /\ copies \subseteq {CopyFor(r, b, m.from)}
                          /\ Answers(m, b, Confirmed(heard) \cup copies)
  <2>1. s = a /\ a.role = "leader" /\ m.term = a.term /\ a.term \in Nat /\ Typed(a)
    BY <1>3, <1>7 DEF Remains
  <2>2. /\ lines[a.term] = a.log /\ a.log # <<>> /\ a.led \subseteq Nat
        /\ \A p \in Replica : a.matched[p] <= Len(a.log) /\ a.next[p] <= Len(a.log) + 1
    BY <1>1, <1>2, <2>1 DEF LeadersWrite, Voting, ReplicasTyped
  <2>3. /\ a.log \in Seq(Entry) /\ Len(a.log) \in Nat /\ a.matched \in [Replica -> Nat]
        /\ a.next \in [Replica -> Nat] /\ a.commit \in Nat
        /\ a.pending \subseteq (Nat \ {0}) \X Command
    BY <2>1, EntriesTyped DEF Typed
  <2>4. /\ m.matched \in Nat \cup {Unmatched}
        /\ m.matched = Unmatched \/ m.matched <= Len(a.log)
    BY <1>1, <1>2, <2>1, <2>2 DEF CopiesFollow, CarriesLog
  <2>5. told = a.matched[m.from] \/ (told = m.matched /\ m.matched # Unmatched)
    BY <2>1 DEF told
  <2>6. told \in Nat /\ told <= Len(a.log)
    BY <1>1, <2>2, <2>3, <2>4, <2>5
  <2>7. next \in Nat /\ next <= Len(a.log) + 1
    <3>1. a.next[m.from] \in Nat /\ a.next[m.from] <= Len(a.log) + 1
      BY <1>1, <2>2, <2>3
    <3>2. SteppedBack(a.next[m.from]) \in Nat /\ SteppedBack(a.next[m.from]) <= Len(a.log) + 1
      BY <2>3, <3>1 DEF SteppedBack
    <3> QED
      BY <2>1, <2>3, <2>6, <3>2 DEF next
  <2>8. /\ LogFields \subseteq DOMAIN heard /\ heard.role = "leader" /\ heard.term = a.term
        /\ heard.led = a.led /\ heard.log = a.log /\ heard.commit = a.commit
        /\ heard.applied = a.applied /\ heard.pending = a.pending
        /\ heard.matched = [a.matched EXCEPT ![m.from] = told]
        /\ heard.next = [a.next EXCEPT ![m.from] = next]
    BY <2>1 DEF Typed, LogFields
  <2> HIDE DEF heard, a
  <2>9. Typed(heard)
    <3>1. heard.matched \in [Replica -> Nat] /\ heard.next \in [Replica -> Nat]
      BY <1>1, <2>3, <2>6, <2>7, <2>8
    <3> QED
      BY <2>1, <2>8, <3>1 DEF Typed
  <2>10. Notes(held, heard)
    <3> SUFFICES ASSUME NEW p \in Replica
                 PROVE  /\ heard.matched[p] <= Len(heard.log)
                        /\ heard.next[p] <= Len(heard.log) + 1
                        /\ \A i \in 1 .. heard.matched[p] :
                              HoldsAt(heard.log, i, heard.term) => <<p, heard.term, i>> \in held
      BY DEF Notes
    <3>1. \A i \in 1 .. a.matched[p] : HoldsAt(a.log, i, a.term) => <<p, a.term, i>> \in held
      BY <1>1, <1>2, <2>1 DEF AnswersSound, a
    <3>2. CASE p # m.from
      <4>1. heard.matched[p] = a.matched[p] /\ heard.next[p] = a.next[p]
        BY <2>3, <2>8, <3>2
      <4> QED
        BY <2>2, <2>8, <3>1, <4>1
    <3>3. CASE p = m.from
      <4>1. heard.matched[p] = told /\ heard.next[p] = next
        BY <2>3, <2>8, <3>3
      <4>2. \A i \in 1 .. told : HoldsAt(a.log, i, a.term) => <<p, a.term, i>> \in held
        <5>1. CASE told = a.matched[p]
          BY <3>1, <5>1
        <5>2. CASE told = m.matched /\ m.matched # Unmatched
          <6>1. \A i \in 1 .. m.matched :
                   HoldsAt(lines[m.term], i, m.term) => <<m.from, m.term, i>> \in held
            BY <1>1, <1>2, <5>2 DEF AnswersSound
          <6> QED
            BY <2>1, <2>2, <3>3, <5>2, <6>1
        <5> QED
          BY <2>5, <3>3, <5>1, <5>2
      <4> QED
        BY <2>6, <2>7, <2>8, <4>1, <4>2
    <3> QED
      BY <3>2, <3>3
  <2>11. Committed(lines, held, heard)
    <3>1. Committed(lines, held, a)
      BY <1>1, <1>2 DEF CommitsSound, a
    <3>2. heard.term \in Nat /\ heard.term >= a.term
      BY <2>1, <2>8
    <3> QED
      BY <2>1, <2>8, <3>1, <3>2, CommittedLater
  <2>12. /\ Typed(b) /\ Committed(lines, held, b)
         /\ b.log = a.log /\ b.role = "leader" /\ b.led = a.led /\ b.term = a.term
         /\ b.matched = heard.matched /\ b.next = heard.next
         /\ \A w \in heard.pending \ b.pending :
               heard.log[w[1]].op = w[2] => Settled(lines, held, w[2])
    <3>1. lines \in [Nat -> Seq(Entry)] /\ lines[heard.term] = heard.log /\ heard.term \in Nat
      BY <1>2, <2>1, <2>2, <2>8 DEF LinesSound
    <3>2. /\ Typed(b) /\ Committed(lines, held, b)
          /\ b.log = heard.log /\ b.role = heard.role /\ b.led = heard.led /\ b.term = heard.term
          /\ b.matched = heard.matched /\ b.next = heard.next
          /\ \A w \in heard.pending \ b.pending :
                heard.log[w[1]].op = w[2] => Settled(lines, held, w[2])
      BY <2>9, <2>10, <2>11, <3>1, AdvancedFacts
    <3> QED
      BY <2>8, <3>2
  <2>13. Confirmed(heard) = {[kind |-> "Submitted", command |-> w[2]] :
            w \in {v \in heard.pending \ b.pending : heard.log[v[1]].op = v[2]}}
    BY DEF Confirmed
  <2> HIDE DEF b
  <2>14. Notes(HeldBy(held, r, b), b)
    <3>1. held \subseteq HeldBy(held, r, b)
      BY DEF HeldBy
    <3>2. Notes(held, b)
      BY <2>8, <2>10, <2>12 DEF Notes
    <3> QED
      BY <3>1, <3>2 DEF Notes
  <2>15. Keeps(a, b)
    BY <2>1, <2>12 DEF Keeps
  <2>16. Does(lines, held, r, b, {})
    BY <2>1, <2>2, <2>12, <2>14, <2>15 DEF Does, a
  <2>17. ASSUME NEW n \in Confirmed(heard) PROVE Says(lines, held, r, b, n)
    <3>1. PICK w \in heard.pending \ b.pending :
             heard.log[w[1]].op = w[2] /\ n = [kind |-> "Submitted", command |-> w[2]]
      BY <2>13
    <3>2. w[2] \in Command /\ Settled(lines, held, w[2])
      BY <2>3, <2>8, <2>12, <3>1
    <3>3. n.kind = "Submitted" /\ n.command = w[2]
      BY <3>1
    <3> QED
      BY <3>2, <3>3 DEF Says, CarriesLog
  <2>18. Says(lines, held, r, b, CopyFor(r, b, m.from))
    <3>1. b.next[m.from] <= Len(b.log) + 1
      BY <1>1, <2>14 DEF Notes
    <3> QED
      BY <1>1, <2>2, <2>12, <3>1, CopyIsStretch
  <2>19. PICK copies : /\ copies \subseteq {CopyFor(r, b, m.from)}
                       /\ Answers(m, b, Confirmed(heard) \cup copies)
    BY <1>7
  <2>20. \A n \in Confirmed(heard) \cup copies : Says(lines, held, r, b, n)
    BY <2>17, <2>18, <2>19
  <2> QED
    BY <1>1, <2>16, <2>19, <2>20, AnswerKeepsHistory
<1> QED
  BY <1>5, <1>6, <1>7

\* Where the log holds a command, if it does.
LEMMA HeldAtFacts ==
    ASSUME NEW x \in Seq(Entry), NEW c, NEW h, h = HeldAt(x, c)
    PROVE  \/ h = 0 /\ \A i \in DOMAIN x : x[i].op # c
           \/ h \in DOMAIN x /\ h \in Nat /\ h > 0 /\ x[h].op = c
<1> DEFINE I == {i \in 1 .. Len(x) : x[i].op = c}
<1>1. h = IF I # {} THEN Min(I) ELSE 0
  BY DEF HeldAt, SelectInSeq
<1>2. DOMAIN x = 1 .. Len(x) /\ Len(x) \in Nat
  BY EntriesTyped
<1>3. CASE I = {}
  BY <1>1, <1>2, <1>3
<1>4. CASE I # {}
  <2>1. I \in SUBSET Nat
    BY <1>2
  <2> HIDE DEF I
  <2>2. \E i \in I : \A j \in I : i <= j
    BY <1>4, <2>1, Least
  <2>3. h \in I
    BY <1>1, <1>4, <2>2 DEF Min
  <2> QED
    BY <1>2, <2>3 DEF I
<1> QED
  BY <1>3, <1>4

\* A leader answers for a command that is committed, and adds one only if it has it
\* nowhere.
LEMMA SubmitKeepsHistory ==
    ASSUME Voting, Voting', NEW lines, NEW held, History(lines, held),
           NEW m \in BagToSet(wire), OnSubmit(m) \/ PointElsewhere(m)
    PROVE  HasHistory'
<1>1. m.kind = "Submit" /\ m.to \in Replica
  BY DEF OnSubmit, PointElsewhere, Voting, WireSensible, Sensible
<1> DEFINE r == m.to
           a == replicas[r]
           c == m.command
           h == HeldAt(a.log, c)
           at == Len(a.log) + 1
           kept == [a EXCEPT !.pending = @ \cup {<<h, c>>}]
           took == [a EXCEPT !.log = Append(@, [term |-> a.term, op |-> c]),
                             !.matched[r] = at,
                             !.pending = @ \cup {<<at, c>>}]
           submitted == [kind |-> "Submitted", command |-> c]
<1>2. /\ LogsFollow(lines) /\ LeadersWrite(lines) /\ CopiesFollow(lines) /\ LinesSound(lines)
      /\ AnswersSound(lines, held) /\ CommitsSound(lines, held) /\ Telling(lines, held)
  BY DEF History, Logging, Choosing
<1>3. c \in Command /\ Sent(c)
  BY <1>1, <1>2 DEF CopiesFollow, CarriesLog, Telling
<1>4. /\ Typed(a) /\ a.term \in Nat /\ a.led \subseteq Nat /\ VotingFields \subseteq DOMAIN a
      /\ Committed(lines, held, a)
  BY <1>1, <1>2 DEF Voting, ReplicasTyped, LogsFollow, CommitsSound
<1>5. Remains(a, a) /\ Does(lines, held, r, a, {})
  BY <1>1, <1>2, SameRemains, RemainsDoes
<1>6. OnSubmit(m) \/ PointElsewhere(m)
  OBVIOUS
<1>7. \/ Answers(m, a, {})
      \/ /\ a.role = "leader"
         /\ \/ h > 0 /\ h <= a.commit /\ Answers(m, a, {submitted})
            \/ h > a.commit /\ Answers(m, kept, {})
            \/ h = 0 /\ Answers(m, took, CopyToEveryone(r, took))
  BY <1>6 DEF OnSubmit, PointElsewhere
<1>8. /\ a.log \in Seq(Entry) /\ Len(a.log) \in Nat /\ a.commit \in Nat
      /\ a.matched \in [Replica -> Nat] /\ a.next \in [Replica -> Nat]
      /\ a.pending \subseteq (Nat \ {0}) \X Command
      /\ LogFields \subseteq DOMAIN a
  BY <1>4, EntriesTyped DEF Typed
<1>9. \/ h = 0 /\ \A i \in DOMAIN a.log : a.log[i].op # c
      \/ h \in DOMAIN a.log /\ h \in Nat /\ h > 0 /\ a.log[h].op = c
  BY <1>8, HeldAtFacts
<1>10. CASE Answers(m, a, {})
  BY <1>1, <1>5, <1>10, AnswerKeepsHistory
<1> HIDE DEF h
<1>11. CASE h > 0 /\ h <= a.commit /\ Answers(m, a, {submitted})
  <2>1. h \in Nat /\ h \in 1 .. a.commit /\ a.commit > 0 /\ a.log[h].op = c
    BY <1>8, <1>9, <1>11
  <2>2. PICK term \in Nat, k \in Nat :
           k >= a.commit /\ Chosen(held, term, k) /\ SameTo(a.log, lines[term], a.commit)
    BY <1>4, <2>1 DEF Committed
  <2>3. h \in 1 .. k /\ lines[term][h].op = c
    BY <1>8, <2>1, <2>2 DEF SameTo
  <2>4. Settled(lines, held, c)
    BY <2>2, <2>3 DEF Settled
  <2>5. submitted.kind = "Submitted" /\ submitted.command = c
    OBVIOUS
  <2> HIDE DEF submitted
  <2>6. Says(lines, held, r, a, submitted)
    BY <1>3, <2>4, <2>5 DEF Says, CarriesLog
  <2> QED
    BY <1>1, <1>5, <1>11, <2>6, AnswerKeepsHistory
<1>12. CASE h > a.commit /\ Answers(m, kept, {})
  <2>1. h \in Nat /\ h > 0
    BY <1>8, <1>9, <1>12
  <2>2. /\ LogFields \subseteq DOMAIN kept /\ kept.term = a.term /\ kept.role = a.role
        /\ kept.led = a.led /\ kept.log = a.log /\ kept.commit = a.commit
        /\ kept.applied = a.applied /\ kept.next = a.next /\ kept.matched = a.matched
        /\ kept.pending = a.pending \cup {<<h, c>>}
    BY <1>8 DEF LogFields
  <2> HIDE DEF kept, a, c
  <2>3. kept.pending \subseteq (Nat \ {0}) \X Command
    BY <1>3, <1>8, <2>1, <2>2
  <2>4. Typed(kept)
    BY <1>4, <2>2, <2>3 DEF Typed
  <2>5. Remains(a, kept)
    BY <1>4, <2>2, <2>4 DEF Remains, Keeps
  <2>6. Does(lines, held, r, kept, {})
    BY <1>1, <2>5, RemainsDoes DEF a
  <2> QED
    BY <1>1, <1>12, <2>6, AnswerKeepsHistory
<1>13. CASE /\ a.role = "leader" /\ h = 0
            /\ Answers(m, took, CopyToEveryone(r, took))
  <2> DEFINE e == [term |-> a.term, op |-> c]
             log == Append(a.log, e)
  <2>1. e \in Entry /\ e.term = a.term /\ e.op = c
    BY <1>3, <1>4 DEF Entry
  <2>2. /\ a.term \in a.led
        /\ \A p \in Replica : a.matched[p] <= Len(a.log) /\ a.next[p] <= Len(a.log) + 1
        /\ \A p \in Replica : \A i \in 1 .. a.matched[p] :
              HoldsAt(a.log, i, a.term) => <<p, a.term, i>> \in held
    BY <1>1, <1>2, <1>13 DEF LeadersWrite, AnswersSound
  <2>3. /\ LogFields \subseteq DOMAIN took /\ took.term = a.term /\ took.role = a.role
        /\ took.led = a.led /\ took.log = log /\ took.commit = a.commit
        /\ took.applied = a.applied /\ took.next = a.next
        /\ took.matched = [a.matched EXCEPT ![r] = at]
        /\ took.pending = a.pending \cup {<<at, c>>}
    BY <1>8 DEF LogFields
  <2> HIDE DEF e, took
  <2>4. Longer(a.log, e, log)
    BY <1>8, <2>1, AppendFacts
  <2>5. /\ log \in Seq(Entry) /\ log # <<>> /\ Len(log) = at
        /\ DOMAIN a.log = 1 .. Len(a.log) /\ \A i \in 1 .. Len(a.log) : log[i] = a.log[i]
    BY <2>4 DEF Longer
  <2>6. at \in Nat /\ at > 0
    BY <1>8
  <2> HIDE DEF a, log
  <2>7. Typed(took)
    <3>1. took.matched \in [Replica -> Nat]
      BY <1>1, <1>8, <2>3, <2>6
    <3>2. took.pending \subseteq (Nat \ {0}) \X Command
      <4> HIDE DEF at, c
      <4> QED
        BY <1>3, <1>8, <2>3, <2>6
    <3> QED
      BY <1>4, <1>8, <2>3, <2>5, <3>1, <3>2 DEF Typed
  <2>8. Adds(r, took)
    <3>1. \A i \in DOMAIN a.log : a.log[i].op # e.op
      BY <1>9, <1>13, <2>1
    <3>2. took.log = Append(a.log, e) /\ e.term = took.term /\ Sent(e.op)
      BY <1>3, <2>1, <2>3 DEF log
    <3>3. took.role = "leader" /\ took.term \in took.led /\ took.term = a.term /\ a.role = "leader"
      BY <1>13, <2>2, <2>3
    <3> HIDE DEF c
    <3> QED
      BY <2>1, <3>1, <3>2, <3>3 DEF Adds, a
  <2>9. Notes(HeldBy(held, r, took), took)
    <3> SUFFICES ASSUME NEW p \in Replica
                 PROVE  /\ took.matched[p] <= Len(took.log)
                        /\ took.next[p] <= Len(took.log) + 1
                        /\ \A i \in 1 .. took.matched[p] :
                              HoldsAt(took.log, i, took.term) =>
                                 <<p, took.term, i>> \in HeldBy(held, r, took)
      BY DEF Notes
    <3>1. took.next[p] <= Len(took.log) + 1
      <4>1. a.next[p] \in Nat /\ a.next[p] <= Len(a.log) + 1
        BY <1>8, <2>2
      <4> QED
        BY <1>8, <2>3, <2>5, <4>1
    <3>2. CASE p = r
      <4>1. took.matched[p] = at
        BY <1>8, <2>3, <3>2
      <4>2. \A i : HoldsAt(took.log, i, took.term) => <<p, took.term, i>> \in HeldBy(held, r, took)
        BY <3>2 DEF HeldBy, HoldsAt
      <4> QED
        BY <2>3, <2>5, <2>6, <3>1, <4>1, <4>2
    <3>3. CASE p # r
      <4>1. took.matched[p] = a.matched[p] /\ a.matched[p] \in Nat /\ a.matched[p] <= Len(a.log)
        BY <1>8, <2>2, <2>3, <3>3
      <4>2. took.matched[p] <= Len(took.log)
        BY <1>8, <2>3, <2>5, <4>1
      <4>3. ASSUME NEW i \in 1 .. took.matched[p], HoldsAt(took.log, i, took.term)
            PROVE  <<p, took.term, i>> \in HeldBy(held, r, took)
        <5>1. i \in 1 .. Len(a.log) /\ i \in 1 .. a.matched[p]
          BY <1>8, <4>1
        <5>2. HoldsAt(a.log, i, a.term)
          BY <2>3, <2>5, <4>3, <5>1 DEF HoldsAt
        <5>3. <<p, a.term, i>> \in held
          BY <2>2, <5>1, <5>2
        <5> QED
          BY <2>3, <5>3 DEF HeldBy
      <4> QED
        BY <3>1, <4>2, <4>3
    <3> QED
      BY <3>2, <3>3
  <2>10. Committed(lines, held, took)
    <3>1. lines \in [Nat -> Seq(Entry)]
      BY <1>2 DEF LinesSound
    <3>2. took.log = Append(a.log, e)
      BY <2>3 DEF log
    <3> QED
      BY <1>4, <1>8, <2>1, <2>3, <3>1, <3>2, CommittedLonger
  <2>11. Does(lines, held, r, took, {})
    <3>1. took.term >= a.term /\ took.term \in Nat
      BY <1>4, <2>3
    <3> QED
      BY <1>4, <2>3, <2>7, <2>8, <2>9, <2>10, <3>1 DEF Does, a
  <2>12. \A n \in CopyToEveryone(r, took) : Says(lines, held, r, took, n)
    BY <1>1, <1>13, <2>3, <2>5, <2>11, LeaderCopies
  <2> QED
    BY <1>1, <1>13, <2>11, <2>12, AnswerKeepsHistory
<1> QED
  BY <1>7, <1>10, <1>11, <1>12, <1>13

--------------------------------------------------------------------------------
(* What the clients do, and what becomes of messages nobody answers. *)

\* What touches no replica leaves the history as it is, if what is told stays true.
LEMMA OthersKeepHistory ==
    ASSUME Voting, NEW lines, NEW held, History(lines, held),
           replicas' = replicas, yeses' = yeses,
           \A m \in BagToSet(wire') :
              m \in BagToSet(wire) \/ (m.kind = "Submit" /\ m.command \in Command),
           Telling(lines, held)'
    PROVE  HasHistory'
<1>1. Logging(lines)'
  <2>1. /\ LinesSound(lines) /\ LinesLed(lines) /\ LogsFollow(lines) /\ LeadersWrite(lines)
        /\ CopiesFollow(lines)
    BY DEF History, Logging
  <2>2. LinesSound(lines)' /\ LinesLed(lines)'
    BY <2>1 DEF LinesSound, LinesLed, Follows, TermsTo, SameTo
  <2>3. LogsFollow(lines)' /\ LeadersWrite(lines)'
    BY <2>1 DEF LogsFollow, LeadersWrite, Typed, Follows, TermsTo, SameTo
  <2>4. CopiesFollow(lines)'
    <3> SUFFICES ASSUME NEW m \in BagToSet(wire')
                 PROVE  /\ CarriesLog(m)
                        /\ m.kind = "Append" => StretchOf(m, lines[m.term])
                        /\ m.kind = "Appended" =>
                              m.matched = Unmatched \/ m.matched <= Len(lines[m.term])
      BY DEF CopiesFollow, CarriesLog, StretchOf
    <3>1. CASE m \in BagToSet(wire)
      BY <2>1, <3>1 DEF CopiesFollow
    <3>2. CASE m.kind = "Submit" /\ m.command \in Command
      BY <3>2 DEF CarriesLog
    <3> QED
      BY <3>1, <3>2
  <2> QED
    BY <2>2, <2>3, <2>4 DEF Logging
<1>2. Choosing(lines, held)'
  <2>1. /\ HeldIsKept(lines, held) /\ CandidatesHold(lines, held) /\ RequestsSound
        /\ LinesHold(lines, held) /\ AnswersSound(lines, held) /\ CommitsSound(lines, held)
    BY DEF History, Choosing
  <2>2. HeldIsKept(lines, held)'
    BY <2>1 DEF HeldIsKept, HoldsAt, Missed
  <2>3. CandidatesHold(lines, held)'
    <3>1. \A p, c, term : VotedFor(p, c, term)' <=> VotedFor(p, c, term)
      BY DEF VotedFor, Gave
    <3> QED
      BY <2>1, <3>1 DEF CandidatesHold, HoldsAt, Missed
  <2>4. RequestsSound'
    BY <2>1 DEF RequestsSound, EndOf, TermAt
  <2>5. LinesHold(lines, held)'
    BY <2>1 DEF LinesHold, ElectedHold, HoldsAt, Missed, Majority
  <2>6. AnswersSound(lines, held)'
    BY <2>1 DEF AnswersSound, HoldsAt
  <2>7. CommitsSound(lines, held)'
    BY <2>1 DEF CommitsSound, Committed, ChosenTo, Chosen, SameTo, Majority
  <2> QED
    BY <2>2, <2>3, <2>4, <2>5, <2>6, <2>7 DEF Choosing
<1> QED
  BY <1>1, <1>2 DEF HasHistory, History

\* What was told stays true, and what is told anew is.
LEMMA TellingAgain ==
    ASSUME NEW lines, NEW held, Telling(lines, held),
           TypedClients',
           \A c : Sent(c) => Sent(c)',
           \A m \in BagToSet(wire') :
              m \in BagToSet(wire) \/ (m.kind = "Submit" /\ Sent(m.command)'),
           \A d \in done' : Settled(lines, held, d),
           \A c \in Command : Sent(c)' => \A d \in after'[c] : SettledBefore(lines, held, d, c)
    PROVE  Telling(lines, held)'
<1>1. /\ \A t \in Nat : OnceEach(lines[t])
      /\ \A t \in Nat : \A i \in DOMAIN lines[t] : lines[t][i].op # Noop => Sent(lines[t][i].op)
      /\ \A m \in BagToSet(wire) :
            /\ m.kind = "Submit" => Sent(m.command)
            /\ m.kind = "Submitted" => Settled(lines, held, m.command)
  BY DEF Telling
<1>2. \A t \in Nat : OnceEach(lines[t])'
  BY <1>1 DEF OnceEach
<1>3. \A t \in Nat : \A i \in DOMAIN lines[t] : lines[t][i].op # Noop => Sent(lines[t][i].op)'
  BY <1>1
<1>4. ASSUME NEW m \in BagToSet(wire')
      PROVE  /\ m.kind = "Submit" => Sent(m.command)'
             /\ m.kind = "Submitted" => Settled(lines, held, m.command)
  BY <1>1
<1>5. \A x : Settled(lines, held, x)' <=> Settled(lines, held, x)
  BY DEF Settled, Chosen, Majority
<1>6. \A x, y : SettledBefore(lines, held, x, y)' <=> SettledBefore(lines, held, x, y)
  BY DEF SettledBefore, Chosen, Majority
<1> QED
  BY <1>2, <1>3, <1>4, <1>5, <1>6 DEF Telling

\* A message lost, and a step that is none.
LEMMA LostKeepsHistory ==
    ASSUME Voting, NEW lines, NEW held, History(lines, held),
           UNCHANGED <<replicas, yeses, round, retries, done, after>>,
           BagToSet(wire') \subseteq BagToSet(wire)
    PROVE  HasHistory'
<1>1. Telling(lines, held)
  BY DEF History
<1>2. Telling(lines, held)'
  <2>1. TypedClients'
    BY <1>1 DEF Telling, TypedClients
  <2>2. \A c : Sent(c) <=> Sent(c)'
    BY DEF Sent
  <2>3. \A d \in done' : Settled(lines, held, d)
    BY <1>1 DEF Telling
  <2>4. \A c \in Command : Sent(c)' => \A d \in after'[c] : SettledBefore(lines, held, d, c)
    BY <1>1, <2>2 DEF Telling
  <2> QED
    BY <1>1, <2>1, <2>2, <2>3, <2>4, TellingAgain
<1> QED
  BY <1>2, OthersKeepHistory

\* A client is told the truth.
LEMMA HearKeepsHistory ==
    ASSUME Voting, NEW lines, NEW held, History(lines, held),
           NEW m \in BagToSet(wire), Hear(m)
    PROVE  HasHistory'
<1>1. Telling(lines, held)
  BY DEF History
<1>2. BagToSet(wire') \subseteq BagToSet(wire)
  BY ReceivedOffWire DEF Hear
<1>3. Settled(lines, held, m.command)
  BY <1>1 DEF Hear, Telling
<1>4. done' = done \cup {m.command} /\ UNCHANGED <<replicas, yeses, round, after>>
  BY DEF Hear
<1>5. Telling(lines, held)'
  <2>1. \A d \in done' : Settled(lines, held, d)
    BY <1>1, <1>3, <1>4 DEF Telling
  <2>2. TypedClients'
    BY <1>1, <1>4 DEF Telling, TypedClients
  <2>3. \A c : Sent(c) <=> Sent(c)'
    BY <1>4 DEF Sent
  <2>4. \A c \in Command : Sent(c)' => \A d \in after'[c] : SettledBefore(lines, held, d, c)
    BY <1>1, <1>4, <2>3 DEF Telling
  <2> QED
    BY <1>1, <1>2, <2>1, <2>2, <2>3, <2>4, TellingAgain
<1> QED
  BY <1>2, <1>4, <1>5, OthersKeepHistory

\* A client asks again for what it sent.
LEMMA RetryKeepsHistory ==
    ASSUME Voting, NEW lines, NEW held, History(lines, held),
           NEW c \in Client, NEW r \in Replica, Retry(c, r)
    PROVE  HasHistory'
<1>1. PICK x : x = Current(c)
  OBVIOUS
<1>2. PICK n : n = [kind |-> "Submit", to |-> r, command |-> x]
  OBVIOUS
<1>3. Telling(lines, held)
  BY DEF History
<1>4. TypedClients /\ round[c] \in Nat /\ round[c] > 0 /\ round[c] <= Len(Commands[c])
  BY <1>3 DEF Telling, TypedClients, Retry
<1>5. UNCHANGED <<replicas, yeses, round, done, after>>
  BY DEF Retry
<1>6. BagToSet(wire') = BagToSet(wire) \cup {n}
  BY <1>1, <1>2, SentOnWire DEF Retry, Ask
<1>7. Sent(x)
  <2>1. round[c] \in 1 .. round[c]
    BY <1>4
  <2> QED
    BY <1>1, <2>1 DEF Sent, Current
<1>8. x \in Command
  <2>1. Commands[c] \in Seq(Command)
    BY ReplogAssumption
  <2>2. round[c] \in 1 .. Len(Commands[c])
    BY <1>4, <2>1
  <2> QED
    BY <1>1, <2>1, <2>2 DEF Current
<1>9. n.kind = "Submit" /\ n.command = x
  BY <1>2
<1>10. \A y : Sent(y) <=> Sent(y)'
  BY <1>5 DEF Sent
<1>11. Telling(lines, held)'
  <2>1. TypedClients'
    BY <1>4, <1>5 DEF TypedClients
  <2>2. \A d \in done' : Settled(lines, held, d)
    BY <1>3, <1>5 DEF Telling
  <2>3. \A y \in Command : Sent(y)' => \A d \in after'[y] : SettledBefore(lines, held, d, y)
    BY <1>3, <1>5, <1>10 DEF Telling
  <2>4. \A m \in BagToSet(wire') :
           m \in BagToSet(wire) \/ (m.kind = "Submit" /\ Sent(m.command)')
    <3>1. Sent(x)'
      BY <1>7, <1>10
    <3> QED
      BY <1>6, <1>9, <3>1
  <2> QED
    BY <1>3, <1>10, <2>1, <2>2, <2>3, <2>4, TellingAgain
<1>12. \A m \in BagToSet(wire') :
          m \in BagToSet(wire) \/ (m.kind = "Submit" /\ m.command \in Command)
  BY <1>6, <1>8, <1>9
<1> QED
  BY <1>5, <1>11, <1>12, OthersKeepHistory

\* A command no client has sent yet is nowhere, so all that is done came before it.
LEMMA SendKeepsHistory ==
    ASSUME Voting, NEW lines, NEW held, History(lines, held),
           NEW c \in Client, NEW r \in Replica, Send(c, r)
    PROVE  HasHistory'
<1>1. PICK k : k = round[c] + 1
  OBVIOUS
<1>2. PICK x : x = Commands[c][k]
  OBVIOUS
<1>3. PICK n : n = [kind |-> "Submit", to |-> r, command |-> x]
  OBVIOUS
<1>4. Telling(lines, held) /\ TypedClients
  BY DEF History, Telling
<1>5. round[c] \in Nat /\ round[c] < Len(Commands[c])
  BY <1>4 DEF TypedClients, Send
<1>6. /\ UNCHANGED <<replicas, yeses, done>>
      /\ round' = [round EXCEPT ![c] = k]
      /\ after' = [after EXCEPT ![x] = done]
  BY <1>1, <1>2 DEF Send
<1>7. BagToSet(wire') = BagToSet(wire) \cup {n}
  BY <1>1, <1>2, <1>3, SentOnWire DEF Send, Ask
<1>8. \A d \in Client : Commands[d] \in Seq(Command) /\ IsInjective(Commands[d])
  BY ReplogAssumption
<1>9. k \in 1 .. Len(Commands[c]) /\ k \in DOMAIN Commands[c] /\ x \in Command
  <2>1. Len(Commands[c]) \in Nat /\ DOMAIN Commands[c] = 1 .. Len(Commands[c])
    BY <1>8
  <2>2. k \in 1 .. Len(Commands[c])
    BY <1>5, <1>1, <2>1
  <2> QED
    BY <1>8, <1>2, <2>1, <2>2
<1>10. n.kind = "Submit" /\ n.command = x
  BY <1>3
<1>11. ~ Sent(x)
  <2> SUFFICES ASSUME NEW d \in Client, NEW j \in 1 .. round[d], Commands[d][j] = x
               PROVE  FALSE
    BY DEF Sent
  <2>1. round[d] \in Nat /\ round[d] <= Len(Commands[d])
    BY <1>4 DEF TypedClients
  <2>2. Len(Commands[d]) \in Nat /\ DOMAIN Commands[d] = 1 .. Len(Commands[d])
    BY <1>8
  <2>3. j \in DOMAIN Commands[d]
    BY <2>1, <2>2
  <2>4. CASE d = c
    <3>1. j # k
      BY <1>5, <1>1, <2>4
    <3> QED
      BY <1>8, <1>9, <1>2, <2>3, <2>4, <3>1 DEF IsInjective
  <2>5. CASE d # c
    <3>1. ToSet(Commands[d]) \cap ToSet(Commands[c]) = {}
      BY <2>5, ReplogAssumption
    <3>2. x \in ToSet(Commands[d]) /\ x \in ToSet(Commands[c])
      BY <1>9, <1>2, <2>3 DEF ToSet
    <3> QED
      BY <3>1, <3>2
  <2> QED
    BY <2>4, <2>5
<1>12. round'[c] = k /\ \A d \in Client \ {c} : round'[d] = round[d]
  BY <1>4, <1>6 DEF TypedClients
<1>13. \A y : Sent(y)' <=> Sent(y) \/ y = x
  <2>1. ASSUME NEW y, Sent(y)' PROVE Sent(y) \/ y = x
    <3>1. PICK d \in Client : \E j \in 1 .. round'[d] : Commands[d][j] = y
      BY <2>1 DEF Sent
    <3>2. PICK j \in 1 .. round'[d] : Commands[d][j] = y
      BY <3>1
    <3>3. CASE d # c
      BY <1>12, <3>2, <3>3 DEF Sent
    <3>4. CASE d = c
      <4>1. j \in 1 .. round[c] \/ j = k
        BY <1>5, <1>12, <1>1, <3>4
      <4>2. CASE j \in 1 .. round[c]
        BY <3>2, <3>4, <4>2 DEF Sent
      <4>3. CASE j = k
        BY <1>2, <3>2, <3>4, <4>3
      <4> QED
        BY <4>1, <4>2, <4>3
    <3> QED
      BY <3>3, <3>4
  <2>2. ASSUME NEW y, Sent(y) PROVE Sent(y)'
    <3>1. PICK d \in Client : \E j \in 1 .. round[d] : Commands[d][j] = y
      BY <2>2 DEF Sent
    <3>2. PICK j \in 1 .. round[d] : Commands[d][j] = y
      BY <3>1
    <3>3. j \in 1 .. round'[d]
      BY <1>5, <1>12, <1>1
    <3> QED
      BY <3>2, <3>3 DEF Sent
  <2>3. Sent(x)'
    <3>1. k \in 1 .. round'[c]
      BY <1>5, <1>12, <1>1
    <3> QED
      BY <1>12, <1>2, <3>1 DEF Sent
  <2> QED
    BY <2>1, <2>2, <2>3
<1>14. ASSUME NEW d \in done PROVE SettledBefore(lines, held, d, x)
  <2>1. PICK t \in Nat, i \in Nat : \E j \in 1 .. i : Chosen(held, t, i) /\ lines[t][j].op = d
    BY <1>4 DEF Telling, Settled
  <2>2. PICK j \in 1 .. i : Chosen(held, t, i) /\ lines[t][j].op = d
    BY <2>1
  <2>3. HoldsAt(lines[t], i, t) /\ lines[t] \in Seq(Entry)
    BY <2>2, ChosenIsHeld DEF History, Logging, LinesSound, Choosing
  <2>4. DOMAIN lines[t] = 1 .. Len(lines[t]) /\ Len(lines[t]) \in Nat
    BY <2>3, EntriesTyped
  <2>5. i <= Len(lines[t])
    BY <2>3, <2>4 DEF HoldsAt
  <2>6. \A o \in DOMAIN lines[t] : lines[t][o].op # Noop => Sent(lines[t][o].op)
    BY <1>4 DEF Telling
  <2>7. x # Noop
    BY <1>9, ReplogAssumption
  <2>8. ASSUME NEW o \in 1 .. i PROVE lines[t][o].op # x
    <3>1. o \in DOMAIN lines[t]
      BY <2>4, <2>5
    <3> QED
      BY <1>11, <2>6, <2>7, <3>1
  <2> QED
    BY <2>2, <2>8 DEF SettledBefore
<1>15. Telling(lines, held)'
  <2>1. TypedClients'
    <3>1. DOMAIN round' = Client /\ DOMAIN after' = Command
      BY <1>4, <1>6 DEF TypedClients
    <3>2. ASSUME NEW d \in Client PROVE round'[d] \in Nat /\ round'[d] <= Len(Commands[d])
      <4>1. CASE d = c
        <5>1. Len(Commands[c]) \in Nat
          BY <1>8
        <5> QED
          BY <1>5, <1>12, <1>1, <4>1, <5>1
      <4>2. CASE d # c
        BY <1>4, <1>12, <4>2 DEF TypedClients
      <4> QED
        BY <4>1, <4>2
    <3> QED
      BY <3>1, <3>2 DEF TypedClients
  <2>2. \A d \in done' : Settled(lines, held, d)
    BY <1>4, <1>6 DEF Telling
  <2>3. ASSUME NEW y \in Command, Sent(y)', NEW d \in after'[y]
        PROVE  SettledBefore(lines, held, d, y)
    <3>1. CASE y = x
      <4>1. after'[y] = done
        BY <1>4, <1>6, <1>9, <3>1 DEF TypedClients
      <4> QED
        BY <1>14, <2>3, <3>1, <4>1
    <3>2. CASE y # x
      <4>1. after'[y] = after[y] /\ Sent(y)
        BY <1>4, <1>6, <1>13, <2>3, <3>2 DEF TypedClients
      <4> QED
        BY <1>4, <2>3, <4>1 DEF Telling
    <3> QED
      BY <3>1, <3>2
  <2>4. \A m \in BagToSet(wire') :
           m \in BagToSet(wire) \/ (m.kind = "Submit" /\ Sent(m.command)')
    <3>1. Sent(x)'
      BY <1>13
    <3> QED
      BY <1>7, <1>10, <3>1
  <2>5. \A y : Sent(y) => Sent(y)'
    BY <1>13
  <2> QED
    BY <1>4, <2>1, <2>2, <2>3, <2>4, <2>5, TellingAgain
<1>16. \A m \in BagToSet(wire') :
          m \in BagToSet(wire) \/ (m.kind = "Submit" /\ m.command \in Command)
  BY <1>7, <1>9, <1>10
<1> QED
  BY <1>6, <1>15, <1>16, OthersKeepHistory

LEMMA StepKeepsHistory ==
    ASSUME Voting, HasHistory, [Next]_vars
    PROVE  HasHistory'
<1>1. PICK lines, held : History(lines, held)
  BY DEF HasHistory
<1>2. Voting'
  BY StepKeepsVoting
<1>3. ASSUME NEW r \in Replica, OnTimer(r)
      PROVE  HasHistory'
  BY <1>1, <1>2, <1>3, TimerKeepsHistory
<1>4. ASSUME NEW m \in BagToSet(wire), Receive(m)
      PROVE  HasHistory'
  <2>1. CASE OnPreVote(m)
    BY <1>1, <1>2, <2>1, PreVoteKeepsHistory
  <2>2. CASE OnPreVoted(m)
    BY <1>1, <1>2, <2>2, PreVotedKeepsHistory
  <2>3. CASE OnRequestVote(m)
    BY <1>1, <1>2, <2>3, RequestVoteKeepsHistory
  <2>4. CASE OnVote(m)
    BY <1>1, <1>2, <2>4, VoteKeepsHistory
  <2>5. CASE OnAppend(m)
    BY <1>1, <1>2, <2>5, AppendKeepsHistory
  <2>6. CASE OnAppended(m)
    BY <1>1, <1>2, <2>6, AppendedKeepsHistory
  <2>7. CASE OnSubmit(m) \/ PointElsewhere(m)
    BY <1>1, <1>2, <2>7, SubmitKeepsHistory
  <2>8. CASE Hear(m)
    BY <1>1, <2>8, HearKeepsHistory
  <2> QED
    BY <1>4, <2>1, <2>2, <2>3, <2>4, <2>5, <2>6, <2>7, <2>8 DEF Receive
<1>5. ASSUME NEW m \in BagToSet(wire), Cut(m)
      PROVE  HasHistory'
  <2>1. UNCHANGED <<replicas, yeses, round, retries, done, after>>
    BY <1>5 DEF Cut, clientVars
  <2>2. BagToSet(wire') \subseteq BagToSet(wire)
    BY <1>5, ReceivedOffWire DEF Cut
  <2> QED
    BY <1>1, <2>1, <2>2, LostKeepsHistory
<1>6. ASSUME NEW c \in Client, NEW r \in Replica, Send(c, r) \/ Retry(c, r)
      PROVE  HasHistory'
  BY <1>1, <1>6, SendKeepsHistory, RetryKeepsHistory
<1>7. CASE UNCHANGED vars
  <2>1. UNCHANGED <<replicas, yeses, round, retries, done, after>> /\ wire' = wire
    BY <1>7 DEF vars
  <2>2. BagToSet(wire') \subseteq BagToSet(wire)
    BY <2>1 DEF BagToSet
  <2> QED
    BY <1>1, <2>1, <2>2, LostKeepsHistory
<1> QED
  BY <1>3, <1>4, <1>5, <1>6, <1>7 DEF Next

\* At first nothing was written and nothing held.
LEMMA InitHistory ==
    Init => HasHistory
<1> SUFFICES ASSUME Init
             PROVE  HasHistory
  OBVIOUS
<1>1. PICK lines : lines = [t \in Nat |-> <<>>]
  OBVIOUS
<1>2. PICK held : held = {}
  OBVIOUS
<1>3. /\ lines \in [Nat -> Seq(Entry)]
      /\ \A t \in Nat : lines[t] = <<>> /\ DOMAIN lines[t] = {}
  BY <1>1
<1>4. BagToSet(wire) = {}
  BY DEF Init, EmptyBag, SetToBag, BagToSet
<1>5. ASSUME NEW r \in Replica
      PROVE  /\ Typed(replicas[r]) /\ replicas[r].log = <<>> /\ DOMAIN replicas[r].log = {}
             /\ Len(replicas[r].log) = 0
             /\ replicas[r].role = "follower" /\ replicas[r].commit = 0
             /\ Len(replicas[r].applied) = 0
  <2>1. replicas[r] = Fresh
    BY DEF Init
  <2> QED
    BY <2>1 DEF Fresh, Typed, LogFields
<1>6. Logging(lines)
  <2>1. LinesSound(lines) /\ LinesLed(lines)
    BY <1>3 DEF LinesSound, LinesLed, Follows, TermsTo
  <2>2. LogsFollow(lines) /\ LeadersWrite(lines)
    BY <1>5 DEF LogsFollow, LeadersWrite, Follows, TermsTo
  <2>3. CopiesFollow(lines)
    BY <1>4 DEF CopiesFollow
  <2> QED
    BY <2>1, <2>2, <2>3 DEF Logging
<1>7. Choosing(lines, held)
  <2>1. HeldIsKept(lines, held)
    BY <1>2, <1>5 DEF HeldIsKept, HoldsAt
  <2>2. CandidatesHold(lines, held) /\ AnswersSound(lines, held)
    BY <1>4, <1>5 DEF CandidatesHold, AnswersSound
  <2>3. RequestsSound
    BY <1>4 DEF RequestsSound, Init
  <2>4. LinesHold(lines, held)
    BY <1>3 DEF LinesHold
  <2>5. CommitsSound(lines, held)
    BY <1>4, <1>5 DEF CommitsSound, Committed
  <2> QED
    BY <2>1, <2>2, <2>3, <2>4, <2>5 DEF Choosing
<1>8. Telling(lines, held)
  <2>1. TypedClients
    <3>1. \A c \in Client : Commands[c] \in Seq(Command)
      BY ReplogAssumption
    <3>2. \A c \in Client : Len(Commands[c]) \in Nat
      BY <3>1
    <3> QED
      BY <3>2 DEF Init, TypedClients
  <2>2. \A t \in Nat : OnceEach(lines[t])
    BY <1>3 DEF OnceEach
  <2>3. \A t \in Nat : \A i \in DOMAIN lines[t] : lines[t][i].op # Noop => Sent(lines[t][i].op)
    BY <1>3
  <2>4. done = {} /\ \A c \in Command : after[c] = {}
    BY DEF Init
  <2> QED
    BY <1>4, <2>1, <2>2, <2>3, <2>4 DEF Telling
<1> QED
  BY <1>6, <1>7, <1>8 DEF HasHistory, History

--------------------------------------------------------------------------------
(* What the history shows. *)

\* Logs that are the same up to a place have the same beginning.
LEMMA SameBeginning ==
    ASSUME NEW x \in Seq(Entry), NEW y \in Seq(Entry), NEW n \in Nat, SameTo(x, y, n)
    PROVE  SubSeq(x, 1, n) = SubSeq(y, 1, n)
<1>1. n <= Len(x) /\ n <= Len(y) /\ \A j \in 1 .. n : x[j] = y[j]
  BY DEF SameTo
<1>2. /\ SubSeq(x, 1, n) \in Seq(Entry) /\ SubSeq(y, 1, n) \in Seq(Entry)
      /\ Len(SubSeq(x, 1, n)) = n /\ Len(SubSeq(y, 1, n)) = n
      /\ \A j \in 1 .. n : SubSeq(x, 1, n)[j] = x[j] /\ SubSeq(y, 1, n)[j] = y[j]
  BY <1>1
<1> QED
  BY <1>1, <1>2

LEMMA HistoryImpliesLogsMatch ==
    HasHistory => LogsMatch
<1> SUFFICES ASSUME NEW lines, NEW held, History(lines, held),
                    NEW q \in Replica, NEW r \in Replica,
                    NEW i \in DOMAIN replicas[q].log \cap DOMAIN replicas[r].log,
                    replicas[q].log[i].term = replicas[r].log[i].term
             PROVE  SubSeq(replicas[q].log, 1, i) = SubSeq(replicas[r].log, 1, i)
  BY DEF HasHistory, LogsMatch
<1> DEFINE x == replicas[q].log
           y == replicas[r].log
<1>1. /\ lines \in [Nat -> Seq(Entry)]
      /\ x \in Seq(Entry) /\ y \in Seq(Entry) /\ Follows(lines, x) /\ Follows(lines, y)
  BY DEF History, Logging, LinesSound, LogsFollow, Typed
<1>2. i \in DOMAIN x /\ i \in DOMAIN y /\ x[i].term = y[i].term
  OBVIOUS
<1> HIDE DEF x, y
<1>3. i \in Nat
  <2>1. DOMAIN x = 1 .. Len(x) /\ Len(x) \in Nat
    BY <1>1, EntriesTyped
  <2>2. i \in 1 .. Len(x)
    BY <1>2, <2>1
  <2> QED
    BY <2>1, <2>2
<1>4. SameTo(x, y, i)
  BY <1>1, <1>2, FollowersMatch DEF HoldsAt
<1> QED
  BY <1>1, <1>3, <1>4, SameBeginning DEF x, y

\* Whatever was chosen is one log.
LEMMA ChosenAgree ==
    ASSUME NEW lines, LinesSound(lines), NEW held, HeldIsKept(lines, held), LinesHold(lines, held),
           NEW t \in Nat, NEW k \in Nat, Chosen(held, t, k),
           NEW u \in Nat, NEW l \in Nat, Chosen(held, u, l),
           NEW n \in Nat, n <= k, n <= l
    PROVE  SameTo(lines[t], lines[u], n)
<1>1. lines[t] \in Seq(Entry) /\ lines[u] \in Seq(Entry)
  BY DEF LinesSound
<1>2. lines[t] # <<>> /\ lines[u] # <<>>
  <2>1. HoldsAt(lines[t], k, t) /\ HoldsAt(lines[u], l, u)
    BY ChosenIsHeld
  <2> QED
    BY <2>1 DEF HoldsAt
<1>3. CASE t <= u
  <2>1. SameTo(lines[u], lines[t], k)
    BY <1>2, <1>3, ChosenLinesMatch
  <2> QED
    BY <1>1, <2>1, SameToLess, SameToSymmetric
<1>4. CASE u <= t
  <2>1. SameTo(lines[t], lines[u], l)
    BY <1>2, <1>4, ChosenLinesMatch
  <2> QED
    BY <1>1, <2>1, SameToLess
<1> QED
  BY <1>3, <1>4

\* What is committed is the beginning of what was chosen.
LEMMA CommittedIsChosen ==
    ASSUME NEW lines, NEW held, History(lines, held), NEW r \in Replica,
           NEW i \in 1 .. replicas[r].commit
    PROVE  \E u \in Nat, l \in Nat :
              /\ u <= replicas[r].term /\ Chosen(held, u, l) /\ l >= replicas[r].commit
              /\ SameTo(replicas[r].log, lines[u], replicas[r].commit)
<1> DEFINE s == replicas[r]
<1>1. Committed(lines, held, s) /\ s.commit \in Nat
  BY DEF History, Logging, LogsFollow, Typed, Choosing, CommitsSound
<1>2. s.commit > 0
  BY <1>1
<1> QED
  BY <1>1, <1>2 DEF Committed

LEMMA HistoryImpliesCommittedEntriesHold ==
    HasHistory => CommittedEntriesHold
<1> SUFFICES ASSUME NEW lines, NEW held, History(lines, held), NEW r \in Replica
             PROVE  LET s == replicas[r]
                    IN /\ Len(s.applied) <= Len(s.log)
                       /\ \A i \in DOMAIN s.applied :
                             /\ s.log[i].op = s.applied[i]
                             /\ \A q \in Replica :
                                   i \in DOMAIN replicas[q].applied =>
                                      replicas[q].applied[i] = s.applied[i]
  BY DEF HasHistory, CommittedEntriesHold
<1>1. /\ LinesSound(lines) /\ HeldIsKept(lines, held) /\ LinesHold(lines, held)
      /\ lines \in [Nat -> Seq(Entry)]
  BY DEF History, Logging, LinesSound, Choosing
<1>2. \A q \in Replica :
         /\ replicas[q].log \in Seq(Entry) /\ replicas[q].commit \in Nat
         /\ replicas[q].applied \in Seq(Command \cup {Noop})
         /\ replicas[q].commit <= Len(replicas[q].log)
         /\ Len(replicas[q].applied) = replicas[q].commit
         /\ \A i \in 1 .. replicas[q].commit : replicas[q].applied[i] = replicas[q].log[i].op
  BY DEF History, Logging, LogsFollow, Typed, Choosing, CommitsSound, Committed
<1>3. \A q \in Replica : DOMAIN replicas[q].applied = 1 .. replicas[q].commit
  BY <1>2
<1>4. ASSUME NEW i \in DOMAIN replicas[r].applied, NEW q \in Replica,
             i \in DOMAIN replicas[q].applied
      PROVE  replicas[q].applied[i] = replicas[r].applied[i]
  <2>1. i \in 1 .. replicas[r].commit /\ i \in 1 .. replicas[q].commit /\ i \in Nat
    BY <1>2, <1>3, <1>4
  <2>2. PICK u \in Nat, l \in Nat :
           /\ Chosen(held, u, l) /\ l >= replicas[r].commit
           /\ SameTo(replicas[r].log, lines[u], replicas[r].commit)
    BY <2>1, CommittedIsChosen
  <2>3. PICK t \in Nat, k \in Nat :
           /\ Chosen(held, t, k) /\ k >= replicas[q].commit
           /\ SameTo(replicas[q].log, lines[t], replicas[q].commit)
    BY <2>1, CommittedIsChosen
  <2>4. i <= l /\ i <= k
    BY <1>2, <2>1, <2>2, <2>3
  <2>5. SameTo(lines[t], lines[u], i)
    BY <1>1, <2>1, <2>2, <2>3, <2>4, ChosenAgree
  <2>6. i \in 1 .. i
    BY <2>1
  <2>7. lines[t][i] = lines[u][i]
    BY <2>5, <2>6 DEF SameTo
  <2>8. replicas[r].log[i] = lines[u][i] /\ replicas[q].log[i] = lines[t][i]
    BY <2>1, <2>2, <2>3 DEF SameTo
  <2>9. replicas[r].log[i] = replicas[q].log[i]
    BY <2>7, <2>8
  <2> QED
    BY <1>2, <2>1, <2>9
<1> QED
  BY <1>2, <1>3, <1>4

LEMMA HistoryImpliesLeadersHold ==
    Voting /\ HasHistory => LeadersHoldWhatIsCommitted
<1> SUFFICES ASSUME Voting, NEW lines, NEW held, History(lines, held),
                    NEW r \in Replica, NEW q \in Replica,
                    replicas[r].role = "leader", replicas[q].term <= replicas[r].term
             PROVE  IsPrefix(SubSeq(replicas[q].log, 1, replicas[q].commit), replicas[r].log)
  BY DEF HasHistory, LeadersHoldWhatIsCommitted
<1> DEFINE x == replicas[q].log
           y == replicas[r].log
           n == replicas[q].commit
<1>1. /\ LinesSound(lines) /\ HeldIsKept(lines, held) /\ LinesHold(lines, held)
      /\ lines \in [Nat -> Seq(Entry)]
  BY DEF History, Logging, LinesSound, Choosing
<1>2. /\ x \in Seq(Entry) /\ y \in Seq(Entry) /\ n \in Nat
      /\ replicas[q].term \in Nat /\ replicas[r].term \in Nat
      /\ lines[replicas[r].term] = y /\ y # <<>>
  BY DEF Voting, ReplicasTyped, History, Logging, LogsFollow, LeadersWrite, Typed
<1>3. SameTo(x, y, n)
  <2>1. CASE n = 0
    <3>1. Len(x) \in Nat /\ Len(y) \in Nat
      BY <1>2, EntriesTyped
    <3> HIDE DEF x, y, n
    <3> QED
      BY <2>1, <3>1 DEF SameTo
  <2>2. CASE n # 0
    <3>1. n \in 1 .. replicas[q].commit
      BY <1>2, <2>2
    <3>2. PICK u \in Nat, l \in Nat :
             u <= replicas[q].term /\ Chosen(held, u, l) /\ l >= n /\ SameTo(x, lines[u], n)
      BY <3>1, CommittedIsChosen
    <3>3. replicas[r].term >= u
      BY <1>2, <3>2
    <3>4. SameTo(lines[replicas[r].term], lines[u], l)
      BY <1>1, <1>2, <3>2, <3>3, ChosenLinesMatch
    <3>5. SameTo(y, lines[u], l) /\ lines[u] \in Seq(Entry)
      BY <1>1, <1>2, <3>4
    <3> HIDE DEF x, y, n
    <3>6. SameTo(y, lines[u], n)
      BY <1>2, <3>2, <3>5, SameToLess
    <3> QED
      BY <3>2, <3>6, SameToSymmetric, SameToJoins
  <2> QED
    BY <2>1, <2>2
<1> HIDE DEF x, y, n
<1>4. n <= Len(x) /\ n <= Len(y) /\ SubSeq(x, 1, n) = SubSeq(y, 1, n)
  BY <1>2, <1>3, SameBeginning DEF SameTo
<1>5. Len(SubSeq(x, 1, n)) = n
  BY <1>2, <1>4
<1>6. SubSeq(SubSeq(x, 1, n), 1, n) = SubSeq(x, 1, n)
  <2>1. SubSeq(x, 1, n) \in Seq(Entry)
    BY <1>2, <1>4
  <2> QED
    BY <1>5, <2>1
<1> QED
  BY <1>4, <1>5, <1>6 DEF IsPrefix, x, y, n

LEMMA HistoryImpliesLinearizable ==
    HasHistory => Linearizable
<1> SUFFICES ASSUME NEW lines, NEW held, History(lines, held), NEW r \in Replica,
                    NEW i \in DOMAIN replicas[r].applied, replicas[r].applied[i] # Noop
             PROVE  LET applied == replicas[r].applied
                    IN /\ \A j \in DOMAIN applied : applied[j] = applied[i] => j = i
                       /\ after[applied[i]] \subseteq ToSet(SubSeq(applied, 1, i - 1))
  BY DEF HasHistory, Linearizable
<1> DEFINE applied == replicas[r].applied
           log == replicas[r].log
           n == replicas[r].commit
           c == applied[i]
<1>1. /\ LinesSound(lines) /\ HeldIsKept(lines, held) /\ LinesHold(lines, held)
      /\ lines \in [Nat -> Seq(Entry)] /\ Follows(lines, log) /\ Telling(lines, held)
  BY DEF History, Logging, LinesSound, LogsFollow, Choosing
<1>2. /\ log \in Seq(Entry) /\ n \in Nat /\ applied \in Seq(Command \cup {Noop})
      /\ n <= Len(log) /\ Len(applied) = n /\ \A j \in 1 .. n : applied[j] = log[j].op
  BY DEF History, Logging, LogsFollow, Typed, Choosing, CommitsSound, Committed
<1>3. OnceEach(log) /\ \A j \in DOMAIN log : log[j].op # Noop => Sent(log[j].op)
  BY <1>1, <1>2, FollowersOnce DEF Telling
<1>4. i \in 1 .. n /\ i \in Nat /\ c \in Command \cup {Noop} /\ c # Noop
  <2>1. DOMAIN applied = 1 .. n
    BY <1>2
  <2>2. i \in DOMAIN applied /\ c # Noop
    OBVIOUS
  <2> HIDE DEF applied, n
  <2> QED
    BY <1>2, <2>1, <2>2 DEF c
<1>5. n \in 1 .. replicas[r].commit
  BY <1>2, <1>4
<1>6. PICK u \in Nat, l \in Nat : Chosen(held, u, l) /\ l >= n /\ SameTo(log, lines[u], n)
  BY <1>4, CommittedIsChosen
<1> HIDE DEF applied, log, n, c
<1>7. DOMAIN log = 1 .. Len(log) /\ Len(log) \in Nat /\ DOMAIN applied = 1 .. n
  BY <1>2, EntriesTyped
<1>8. i \in DOMAIN log /\ log[i].op = c
  BY <1>2, <1>4, <1>7 DEF c
<1>9. ASSUME NEW j \in DOMAIN applied, applied[j] = applied[i] PROVE j = i
  <2>1. j \in 1 .. n /\ j \in DOMAIN log
    BY <1>2, <1>7
  <2>2. log[j].op = log[i].op /\ log[i].op # Noop
    BY <1>2, <1>4, <1>8, <1>9, <2>1 DEF c
  <2> QED
    BY <1>3, <1>8, <2>1, <2>2 DEF OnceEach
<1>10. ASSUME NEW d \in after[c] PROVE d \in ToSet(SubSeq(applied, 1, i - 1))
  <2>1. Sent(c) /\ c \in Command
    BY <1>3, <1>4, <1>8
  <2>2. SettledBefore(lines, held, d, c)
    BY <1>1, <1>10, <2>1 DEF Telling
  <2>3. PICK t \in Nat, k \in Nat : \E j \in 1 .. k :
           /\ Chosen(held, t, k) /\ lines[t][j].op = d
           /\ \A o \in 1 .. k : lines[t][o].op # c
    BY <2>2 DEF SettledBefore
  <2>4. PICK j \in 1 .. k :
           /\ Chosen(held, t, k) /\ lines[t][j].op = d
           /\ \A o \in 1 .. k : lines[t][o].op # c
    BY <2>3
  <2>5. i <= l
    BY <1>2, <1>4, <1>6
  <2>6. log[i] = lines[u][i]
    BY <1>4, <1>6 DEF SameTo
  <2>7. k < i
    <3> SUFFICES ASSUME i <= k PROVE FALSE
      BY <1>4
    <3>1. SameTo(lines[t], lines[u], i)
      BY <1>1, <1>4, <1>6, <2>4, <2>5, ChosenAgree
    <3>2. i \in 1 .. i /\ i \in 1 .. k
      BY <1>4
    <3>3. lines[t][i] = lines[u][i]
      BY <3>1, <3>2 DEF SameTo
    <3>4. lines[t][i].op = c
      BY <1>8, <2>6, <3>3
    <3> QED
      BY <2>4, <3>2, <3>4
  <2>8. j \in Nat /\ j <= k /\ j < i /\ j \in 1 .. n /\ j \in 1 .. i - 1
    BY <1>2, <1>4, <2>7
  <2>9. k <= k /\ k <= l
    BY <1>4, <2>5, <2>7
  <2>10. SameTo(lines[t], lines[u], k)
    BY <1>1, <1>6, <2>4, <2>9, ChosenAgree
  <2>11. lines[t][j] = lines[u][j]
    BY <2>4, <2>10 DEF SameTo
  <2>12. log[j] = lines[u][j]
    BY <1>6, <2>8 DEF SameTo
  <2>13. applied[j] = d
    <3>1. applied[j] = log[j].op
      BY <1>2, <2>8
    <3> QED
      BY <2>4, <2>11, <2>12, <3>1
  <2>14. i - 1 \in Nat /\ i - 1 <= Len(applied)
    BY <1>2, <1>4
  <2> DEFINE before == SubSeq(applied, 1, i - 1)
  <2>15. /\ Len(before) = i - 1 /\ DOMAIN before = 1 .. i - 1
         /\ \A o \in 1 .. i - 1 : before[o] = applied[o]
    BY <1>2, <2>14
  <2> HIDE DEF before
  <2>16. j \in DOMAIN before /\ before[j] = d
    BY <2>8, <2>13, <2>15
  <2>17. d \in ToSet(before)
    BY <2>16 DEF ToSet
  <2> QED
    BY <2>17 DEF before
<1> QED
  BY <1>9, <1>10 DEF applied, c

LEMMA ThereIsAHistory ==
    Spec => [](Voting /\ HasHistory)
<1>1. Init => Voting /\ HasHistory
  BY InitVoting, InitHistory
<1>2. Voting /\ HasHistory /\ [Next]_vars => (Voting /\ HasHistory)'
  BY StepKeepsVoting, StepKeepsHistory
<1> QED
  BY <1>1, <1>2, PTL DEF Spec

\* Two logs with an entry of one term at one place agree up to there: what `take` relies on
\* when it keeps an entry by its term alone, however the copies are delayed or cut off.
THEOREM LogMatching ==
    Spec => []LogsMatch
BY ThereIsAHistory, HistoryImpliesLogsMatch, PTL

\* What a replica applied agrees with what every other applied there and with what its own
\* log still holds: what `committed_entries_hold` judges a run by.
THEOREM CommittedIsForGood ==
    Spec => []CommittedEntriesHold
BY ThereIsAHistory, HistoryImpliesCommittedEntriesHold, PTL

\* A leader's log has all that a replica in its term or an earlier one knows is committed,
\* which is why `lead` and `advance` never look back past their own term.
THEOREM LeaderCompleteness ==
    Spec => []LeadersHoldWhatIsCommitted
BY ThereIsAHistory, HistoryImpliesLeadersHold, PTL

\* A command is applied once, and after all that were done when it was sent, however often
\* it is submitted and wherever: what `linearizable` judges a run by.
THEOREM AppliedOnceInOrder ==
    Spec => []Linearizable
BY ThereIsAHistory, HistoryImpliesLinearizable, PTL

================================================================================
