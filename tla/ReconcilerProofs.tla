--------------------------- MODULE ReconcilerProofs ---------------------------
(***************************************************************************)
(* What is asked for on an old listing does no harm: proofs about the      *)
(* reconciler, for any regions and any timelines that are orderly.         *)
(***************************************************************************)
EXTENDS Reconciler, TLAPS

OrderlyTimelines == \A wishes \in Timelines : Orderly(wishes)

Role == {"none", "standby", "primary"}
Phase == {"provisioning", "catching up", "ready"}

Action == [kind : {"create", "promote", "delete"}, region : Region, role : Role]
Ask == [tag : Tag, action : Action]
Listing == [tag : Tag, wanted : [Region -> Wish], role : [Region -> Role],
            phase : [Region -> Phase]]

Types ==
    /\ timeline \in Timelines /\ stage \in 0 .. Len(timeline)
    /\ role \in [Region -> Role] /\ phase \in [Region -> Phase]
    /\ listings \subseteq Listing /\ asks \subseteq Ask
    /\ turn \in Tag /\ lists \subseteq Tag

\* Before anything is wanted there is nothing, and nothing is asked for; and no listing
\* shows two primaries wanted.
Start ==
    /\ stage = 0 => /\ \A r \in Region : role[r] = "none"
                    /\ asks = {}
                    /\ \A listing \in listings : listing.wanted = Nothing
    /\ \A listing \in listings :
          /\ listing.wanted = Nothing => \A r \in Region : listing.role[r] = "none"
          /\ \A q, r \in Region :
                listing.wanted[q] = "primary" /\ listing.wanted[r] = "primary" => q = r

\* `Observed::apply` never makes a second primary.
OnePrimary == \A q, r \in Region : role[q] = "primary" /\ role[r] = "primary" => q = r

\* A region once wanted stays so.
Kept(r) ==
    \A i, j \in DOMAIN timeline :
       i < j /\ timeline[i][r] # "nothing" => timeline[j][r] # "nothing"

\* A region never wanted as the primary.
Second(r) == \A i \in DOMAIN timeline : timeline[i][r] # "primary"

\* A region wanted as the primary first, and then no more.
First(r) ==
    \E last \in DOMAIN timeline : \A i \in DOMAIN timeline :
       timeline[i][r] = IF i <= last THEN "primary" ELSE "nothing"

\* What was not wanted so far is not there, and nothing will bring it or take it.
KeptInv(r) ==
    /\ Wanted[r] = "nothing" =>
          /\ role[r] = "none"
          /\ \A ask \in asks : ask.action.kind = "create" => ask.action.region # r
          /\ \A listing \in listings : listing.wanted[r] = "nothing"
    /\ \A listing \in listings : listing.wanted[r] = "nothing" => listing.role[r] = "none"
    /\ \A ask \in asks : ask.action.kind = "delete" => ask.action.region # r

\* It is no primary, and nothing will make it one.
SecondInv(r) ==
    /\ role[r] # "primary"
    /\ \A listing \in listings : listing.wanted[r] # "primary"
    /\ \A ask \in asks : ask.action.region = r =>
          ask.action.kind # "promote" /\ ask.action.role # "primary"

\* Its part has not been given to another.
Reigns(r) == stage = 0 \/ Wanted[r] = "primary"

\* While it is the one wanted as the primary it is no standby and no other is the primary,
\* nor will be; after that it is a standby, or about to go, only where another took over.
FirstInv(r) ==
    /\ Reigns(r) =>
          /\ role[r] # "standby"
          /\ \A q \in Region \ {r} : role[q] # "primary"
          /\ \A ask \in asks : ask.action.region # r =>
                ask.action.kind # "promote" /\ ask.action.role # "primary"
          /\ \A listing \in listings : listing.wanted = Nothing \/ listing.wanted[r] = "primary"
    /\ \A listing \in listings :
          /\ listing.wanted[r] # "standby"
          /\ listing.wanted[r] = "primary" =>
                listing.role[r] # "standby" /\ \A q \in Region \ {r} : listing.role[q] # "primary"
    /\ \A ask \in asks : ask.action.region = r =>
          ask.action.kind # "promote" /\ (ask.action.kind = "create" => ask.action.role = "primary")
    /\ \/ role[r] = "standby"
       \/ \E listing \in listings : listing.role[r] = "standby"
       \/ \E ask \in asks : ask.action.kind = "delete" /\ ask.action.region = r
       => \E q \in Region \ {r} : role[q] = "primary"

RInv ==
    /\ Types
    /\ Start
    /\ OnePrimary
    /\ lost = FALSE
    /\ \A r \in Region : /\ Kept(r) => KeptInv(r)
                         /\ Second(r) => SecondInv(r)
                         /\ First(r) => FirstInv(r)

--------------------------------------------------------------------------------
(* What is wanted. *)

\* What is wanted now is one of the wishes, once there are any.
LEMMA WantedFacts ==
    ASSUME Types, OrderlyTimelines
    PROVE  /\ timeline \in Seq([Region -> Wish]) /\ DOMAIN timeline = 1 .. Len(timeline)
           /\ Len(timeline) \in Nat /\ stage \in Nat /\ Orderly(timeline)
           /\ Wanted \in [Region -> Wish]
           /\ stage # 0 => stage \in DOMAIN timeline /\ Wanted = timeline[stage]
           /\ Wanted = Nothing <=> stage = 0
<1>1. timeline \in Seq([Region -> Wish]) /\ Orderly(timeline)
  BY ReconcilerAssumption DEF Types, OrderlyTimelines
<1>2. Nothing \in [Region -> Wish]
  BY DEF Nothing, Wish
<1>3. DOMAIN timeline = 1 .. Len(timeline) /\ Len(timeline) \in Nat /\ stage \in Nat
  BY <1>1 DEF Types
<1>4. stage # 0 => stage \in DOMAIN timeline
  BY <1>3 DEF Types
<1>5. stage # 0 => Wanted = timeline[stage] /\ timeline[stage] \in [Region -> Wish]
                   /\ timeline[stage] # Nothing
  BY <1>1, <1>4 DEF Wanted, Orderly
<1> QED
  BY <1>1, <1>2, <1>3, <1>4, <1>5 DEF Wanted

\* Every region is of one of the three sorts, and only one is wanted as the primary.
LEMMA Sorts ==
    ASSUME Types, OrderlyTimelines
    PROVE  /\ \A r \in Region : Kept(r) \/ Second(r) \/ First(r)
           /\ \A q, r \in Region : Wanted[q] = "primary" /\ Wanted[r] = "primary" => q = r
BY WantedFacts DEF Orderly, Kept, Second, First, Wanted, Nothing

\* A region of the first sort is wanted as the primary or not at all.
LEMMA FirstWanted ==
    ASSUME Types, OrderlyTimelines, NEW r \in Region, First(r)
    PROVE  Wanted[r] \in {"primary", "nothing"}
BY WantedFacts DEF First, Wanted, Nothing

--------------------------------------------------------------------------------
(* What the invariant says of a deletion. *)

\* Whoever is to be deleted is no primary, and nothing will make it one.
LEMMA Spared ==
    ASSUME RInv, OrderlyTimelines, NEW d \in asks, d.action.kind = "delete"
    PROVE  /\ role[d.action.region] # "primary"
           /\ \A p \in asks : p.action.kind = "promote" => p.action.region # d.action.region
<1> DEFINE r == d.action.region
<1>1. r \in Region
  BY DEF RInv, Types, Ask, Action
<1> HIDE DEF r
<1>2. Kept(r) \/ Second(r) \/ First(r)
  BY <1>1, Sorts DEF RInv
<1>3. ~ Kept(r)
  BY <1>1 DEF RInv, KeptInv, r
<1>4. CASE Second(r)
  BY <1>1, <1>4 DEF RInv, SecondInv, r
<1>5. CASE First(r)
  <2>1. FirstInv(r)
    BY <1>1, <1>5 DEF RInv
  <2>2. \E q \in Region \ {r} : role[q] = "primary"
    BY <2>1 DEF FirstInv, r
  <2>3. role[r] # "primary"
    BY <1>1, <2>2 DEF RInv, OnePrimary
  <2> QED
    BY <2>1, <2>3 DEF FirstInv, r
<1> QED
  BY <1>2, <1>3, <1>4, <1>5

--------------------------------------------------------------------------------
(* Every step preserves the invariant. *)

\* Nothing exists, is wanted or is on the wire.
LEMMA InitStarts == ASSUME Init, OrderlyTimelines PROVE RInv
<1>1. timeline \in Seq([Region -> Wish])
  BY ReconcilerAssumption DEF Init
<1>2. Types
  BY <1>1 DEF Init, Types, Role, Phase, Tag
<1> QED
  BY <1>2 DEF Init, RInv, Start, OnePrimary, KeptInv, SecondInv, FirstInv, Nothing

\* Steps that touch neither what is wanted, nor the roles, nor what is on the wire but requests
\* for listings.
LEMMA SameRoles ==
    ASSUME RInv, Types', UNCHANGED <<timeline, stage, role, lost, asks>>, listings' \subseteq listings
    PROVE  RInv'
<1>1. Wanted' = Wanted
  BY DEF Wanted
<1>2. Start' /\ OnePrimary' /\ lost' = FALSE
  BY DEF RInv, Start, OnePrimary
<1>3. ASSUME NEW r \in Region
      PROVE  /\ Kept(r)' => KeptInv(r)'
             /\ Second(r)' => SecondInv(r)'
             /\ First(r)' => FirstInv(r)'
  <2>1. Kept(r)' = Kept(r) /\ Second(r)' = Second(r) /\ First(r)' = First(r)
    BY DEF Kept, Second, First
  <2>2. KeptInv(r) => KeptInv(r)'
    BY <1>1 DEF KeptInv
  <2>3. SecondInv(r) => SecondInv(r)'
    BY <1>1 DEF SecondInv
  <2>4. FirstInv(r) => FirstInv(r)'
    BY <1>1 DEF FirstInv, Reigns
  <2> QED
    BY <2>1, <2>2, <2>3, <2>4 DEF RInv
<1> QED
  BY <1>2, <1>3 DEF RInv

\* `Server::advance`, and what the controller does but decide.
LEMMA QuietSteps ==
    ASSUME RInv, Mature \/ Look \/ GiveUp \/ Heal
    PROVE  RInv'
<1>1. UNCHANGED <<timeline, stage, role, lost, asks, listings>>
  BY DEF Mature, Advance, Look, GiveUp, Heal, serverVars, wireVars
<1>2. phase' \in [Region -> Phase]
  BY DEF Mature, Advance, Matured, Look, GiveUp, Heal, serverVars, RInv, Types, Phase
<1>3. turn' \in Tag /\ lists' \subseteq Tag
  <2>1. CASE Look
    <3>1. turn' = turn /\ \E carried \in Carried({turn}) : lists' = lists \cup carried
      BY <2>1 DEF Look
    <3> QED
      BY <3>1 DEF Carried, RInv, Types
  <2>2. CASE Mature \/ Heal
    <3>1. UNCHANGED <<turn, lists>>
      BY <2>2 DEF Mature, Advance, Heal, wireVars, controlVars
    <3> QED
      BY <3>1 DEF RInv, Types
  <2>3. CASE GiveUp
    <3>1. turn' = 1 - turn /\ UNCHANGED lists
      BY <2>3 DEF GiveUp, wireVars
    <3> QED
      BY <3>1 DEF RInv, Types, Tag
  <2> QED
    BY <2>1, <2>2, <2>3
<1>4. Types'
  BY <1>1, <1>2, <1>3 DEF RInv, Types
<1> QED
  BY <1>1, <1>4, SameRoles

\* `Server::change`: the next wish.
LEMMA ChangeKeeps == ASSUME RInv, OrderlyTimelines, Change PROVE RInv'
<1>1. /\ stage < Len(timeline) /\ stage' = stage + 1
      /\ UNCHANGED <<timeline, role, phase, lost, lists, listings, asks, turn>>
  BY DEF Change, MoreChanges, wireVars, controlVars
<1>2. Types
  BY DEF RInv
<1>3. /\ DOMAIN timeline = 1 .. Len(timeline) /\ Len(timeline) \in Nat /\ stage \in Nat
      /\ stage # 0 => stage \in DOMAIN timeline /\ Wanted = timeline[stage]
  BY <1>2, WantedFacts
<1>4. stage' # 0 /\ stage' \in DOMAIN timeline /\ Wanted' = timeline[stage']
  BY <1>1, <1>3 DEF Wanted
<1>5. Types'
  BY <1>1, <1>3 DEF RInv, Types
<1>6. Start' /\ OnePrimary' /\ lost' = FALSE
  BY <1>1, <1>4 DEF RInv, Start, OnePrimary
<1>7. ASSUME NEW r \in Region, Kept(r) PROVE KeptInv(r)'
  <2>1. Wanted'[r] = "nothing" => Wanted[r] = "nothing"
    BY <1>1, <1>3, <1>4, <1>7 DEF Kept, Wanted, Nothing
  <2> QED
    BY <1>1, <1>7, <2>1 DEF RInv, KeptInv
<1>8. ASSUME NEW r \in Region, Second(r) PROVE SecondInv(r)'
  BY <1>1, <1>8 DEF RInv, SecondInv
<1>9. ASSUME NEW r \in Region, First(r) PROVE FirstInv(r)'
  <2>1. Reigns(r)' => Reigns(r)
    <3> SUFFICES ASSUME Wanted'[r] = "primary", stage # 0 PROVE Wanted[r] = "primary"
      BY <1>4 DEF Reigns
    <3>1. PICK last \in DOMAIN timeline : \A i \in DOMAIN timeline :
             timeline[i][r] = IF i <= last THEN "primary" ELSE "nothing"
      BY <1>9 DEF First
    <3>2. stage' <= last /\ last \in Nat
      BY <1>3, <1>4, <3>1
    <3>3. stage <= last
      BY <1>1, <1>3, <3>2
    <3> QED
      BY <1>3, <3>1, <3>3
  <2> QED
    BY <1>1, <1>9, <2>1 DEF RInv, FirstInv
<1>10. \A r \in Region : /\ Kept(r)' = Kept(r) /\ Second(r)' = Second(r)
                         /\ First(r)' = First(r)
  BY <1>1 DEF Kept, Second, First
<1> QED
  BY <1>5, <1>6, <1>7, <1>8, <1>9, <1>10 DEF RInv

\* An answer shows what is wanted and what exists, and both are as they are now.
LEMMA AnswerKeeps ==
    ASSUME RInv, OrderlyTimelines, NEW tag \in Tag, Answer(tag)
    PROVE  RInv'
<1> DEFINE shown == [tag |-> tag, wanted |-> Wanted, role |-> role, phase |-> phase]
<1>1. /\ listings' \subseteq listings \cup {shown}
      /\ lists' \subseteq lists
      /\ UNCHANGED <<timeline, stage, role, phase, lost, asks, turn>>
  BY DEF Answer, Carried, serverVars, controlVars
<1>2. Types
  BY DEF RInv
<1>3. Wanted \in [Region -> Wish] /\ (Wanted = Nothing <=> stage = 0)
  BY <1>2, WantedFacts
<1>4. shown \in Listing /\ shown.wanted = Wanted /\ shown.role = role
  BY <1>2, <1>3 DEF Listing, Types
<1> HIDE DEF shown
<1>5. Types'
  BY <1>1, <1>2, <1>4 DEF Types
<1>6. Wanted' = Wanted
  BY <1>1 DEF Wanted
<1>7. Start' /\ OnePrimary' /\ lost' = FALSE
  BY <1>1, <1>2, <1>3, <1>4, Sorts DEF RInv, Start, OnePrimary
<1>8. ASSUME NEW r \in Region
      PROVE  /\ Kept(r)' => KeptInv(r)'
             /\ Second(r)' => SecondInv(r)'
             /\ First(r)' => FirstInv(r)'
  <2>1. Kept(r)' = Kept(r) /\ Second(r)' = Second(r) /\ First(r)' = First(r)
    BY <1>1 DEF Kept, Second, First
  <2>2. Kept(r) => KeptInv(r)'
    BY <1>1, <1>4, <1>6 DEF RInv, KeptInv
  <2>3. ASSUME Second(r) PROVE SecondInv(r)'
    <3>1. Wanted[r] # "primary"
      BY <1>2, <2>3, WantedFacts DEF Second, Wanted, Nothing
    <3> QED
      BY <1>1, <1>4, <2>3, <3>1 DEF RInv, SecondInv
  <2>4. ASSUME First(r) PROVE FirstInv(r)'
    <3>1. FirstInv(r) /\ Wanted[r] # "standby"
      BY <1>2, <2>4, FirstWanted DEF RInv
    <3>2. Reigns(r)' = Reigns(r) /\ (Reigns(r) => Wanted = Nothing \/ Wanted[r] = "primary")
      BY <1>1, <1>3, <1>6 DEF Reigns
    <3>3. \A listing \in listings' :
             /\ listing.wanted[r] # "standby"
             /\ listing.wanted[r] = "primary" =>
                   listing.role[r] # "standby" /\ \A q \in Region \ {r} : listing.role[q] # "primary"
             /\ Reigns(r) => listing.wanted = Nothing \/ listing.wanted[r] = "primary"
      BY <1>1, <1>4, <3>1, <3>2 DEF FirstInv, Reigns
    <3>4. (\E listing \in listings' : listing.role[r] = "standby") =>
             role[r] = "standby" \/ \E listing \in listings : listing.role[r] = "standby"
      BY <1>1, <1>4
    <3> QED
      BY <1>1, <3>1, <3>2, <3>3, <3>4 DEF FirstInv
  <2> QED
    BY <2>1, <2>2, <2>3, <2>4
<1> QED
  BY <1>5, <1>7, <1>8 DEF RInv

\* `Observed::apply` of a creation: a first primary, or a standby, where there was nothing.
LEMMA CreateKeeps ==
    ASSUME RInv, OrderlyTimelines, NEW ask \in asks, Create(ask)
    PROVE  RInv'
<1> DEFINE c == ask.action.region
<1>1. /\ c \in Region /\ ask.action.role \in Role /\ ask.action.kind = "create" /\ Types
  BY DEF RInv, Types, Ask, Action, Create
<1>2. /\ asks' \subseteq asks
      /\ UNCHANGED <<timeline, stage, lost, lists, listings, turn>>
      /\ \/ UNCHANGED <<role, phase>>
         \/ /\ role[c] = "none" /\ ~ (ask.action.role = "primary" /\ HasPrimary(role))
            /\ role' = [role EXCEPT ![c] = ask.action.role]
            /\ phase' = [phase EXCEPT ![c] = "provisioning"]
  BY DEF Create, controlVars
<1> HIDE DEF c
<1>3. Types'
  BY <1>1, <1>2 DEF Types, Phase
<1>4. Wanted' = Wanted
  BY <1>2 DEF Wanted
<1>5. stage # 0
  BY DEF RInv, Start
<1>6. \A r \in Region : role'[r] = role[r] \/ (r = c /\ role[c] = "none" /\ role'[r] = ask.action.role)
  BY <1>1, <1>2 DEF Types
<1>7. OnePrimary'
  BY <1>1, <1>2 DEF RInv, Types, OnePrimary, HasPrimary
<1>8. Start' /\ lost' = FALSE
  BY <1>2, <1>5 DEF RInv, Start
<1>9. ASSUME NEW r \in Region
      PROVE  /\ Kept(r)' => KeptInv(r)'
             /\ Second(r)' => SecondInv(r)'
             /\ First(r)' => FirstInv(r)'
  <2>1. Kept(r)' = Kept(r) /\ Second(r)' = Second(r) /\ First(r)' = First(r)
    BY <1>2 DEF Kept, Second, First
  <2>2. ASSUME Kept(r) PROVE KeptInv(r)'
    <3>1. KeptInv(r)
      BY <2>2 DEF RInv
    <3>2. Wanted[r] = "nothing" => r # c
      BY <1>1, <3>1 DEF KeptInv, c
    <3> QED
      BY <1>2, <1>4, <1>6, <3>1, <3>2 DEF KeptInv
  <2>3. ASSUME Second(r) PROVE SecondInv(r)'
    <3>1. SecondInv(r)
      BY <2>3 DEF RInv
    <3> QED
      BY <1>2, <1>6, <3>1 DEF SecondInv, c
  <2>4. ASSUME First(r) PROVE FirstInv(r)'
    <3>1. FirstInv(r)
      BY <2>4 DEF RInv
    <3>2. Reigns(r)' = Reigns(r)
      BY <1>2, <1>4 DEF Reigns
    <3>3. c = r => ask.action.role = "primary"
      BY <1>1, <3>1 DEF FirstInv, c
    <3>4. role'[r] = "standby" => role[r] = "standby"
      BY <1>6, <3>3
    <3>5. Reigns(r) => role'[r] # "standby" /\ \A q \in Region \ {r} : role'[q] # "primary"
      BY <1>1, <1>6, <3>1, <3>4 DEF FirstInv, c
    <3>6. \A q \in Region \ {r} : role[q] = "primary" => role'[q] = "primary"
      BY <1>6
    <3> QED
      BY <1>2, <3>1, <3>2, <3>4, <3>5, <3>6 DEF FirstInv
  <2> QED
    BY <2>1, <2>2, <2>3, <2>4
<1> QED
  BY <1>3, <1>7, <1>8, <1>9 DEF RInv

\* `Observed::apply` of a promotion: the standby takes over from the primary, if there is one.
LEMMA PromoteKeeps ==
    ASSUME RInv, OrderlyTimelines, NEW ask \in asks, Promote(ask)
    PROVE  RInv'
<1> DEFINE p == ask.action.region
<1>1. p \in Region /\ ask.action.kind = "promote" /\ Types
  BY DEF RInv, Types, Ask, Action, Promote
<1>2. /\ asks' \subseteq asks
      /\ role' = IF role[p] = "standby" /\ phase[p] = "ready" THEN SteppedDown(p) ELSE role
      /\ UNCHANGED <<timeline, stage, phase, lost, lists, listings, turn>>
  BY DEF Promote, controlVars
<1> HIDE DEF p
<1>3. \/ role' = role
      \/ /\ role[p] = "standby" /\ role'[p] = "primary"
         /\ \A q \in Region \ {p} :
               role'[q] = IF role[q] = "primary" THEN "standby" ELSE role[q]
  BY <1>1, <1>2 DEF SteppedDown
<1>4. role' \in [Region -> Role]
  BY <1>1, <1>2 DEF Types, SteppedDown, Role
<1>5. Types'
  BY <1>1, <1>2, <1>4 DEF Types
<1>6. Wanted' = Wanted
  BY <1>2 DEF Wanted
<1>7. stage # 0
  BY DEF RInv, Start
<1>8. OnePrimary'
  BY <1>1, <1>3 DEF RInv, OnePrimary
<1>9. Start' /\ lost' = FALSE
  BY <1>2, <1>7 DEF RInv, Start
<1>10. ASSUME NEW r \in Region
       PROVE  /\ Kept(r)' => KeptInv(r)'
              /\ Second(r)' => SecondInv(r)'
              /\ First(r)' => FirstInv(r)'
  <2>1. Kept(r)' = Kept(r) /\ Second(r)' = Second(r) /\ First(r)' = First(r)
    BY <1>2 DEF Kept, Second, First
  <2>2. ASSUME Kept(r) PROVE KeptInv(r)'
    <3>1. KeptInv(r)
      BY <2>2 DEF RInv
    <3>2. role[r] = "none" => role'[r] = "none"
      BY <1>3
    <3> QED
      BY <1>2, <1>6, <3>1, <3>2 DEF KeptInv
  <2>3. ASSUME Second(r) PROVE SecondInv(r)'
    <3>1. SecondInv(r) /\ r # p
      BY <1>1, <2>3 DEF RInv, SecondInv, p
    <3>2. role'[r] # "primary"
      BY <1>3, <3>1 DEF SecondInv
    <3> QED
      BY <1>2, <3>1, <3>2 DEF SecondInv
  <2>4. ASSUME First(r) PROVE FirstInv(r)'
    <3>1. FirstInv(r)
      BY <2>4 DEF RInv
    <3>2. r # p
      BY <1>1, <3>1 DEF FirstInv, p
    <3>3. ~ Reigns(r) /\ Reigns(r)' = Reigns(r)
      BY <1>1, <1>2, <1>6, <3>1, <3>2 DEF FirstInv, Reigns, p
    <3>4. /\ role[r] = "standby" \/ role'[r] # "standby" \/ role'[p] = "primary"
          /\ (\E q \in Region \ {r} : role[q] = "primary")
                => \E q \in Region \ {r} : role'[q] = "primary"
      BY <1>1, <1>3, <3>2
    <3> QED
      BY <1>1, <1>2, <3>1, <3>2, <3>3, <3>4 DEF FirstInv
  <2> QED
    BY <2>1, <2>2, <2>3, <2>4
<1> QED
  BY <1>5, <1>8, <1>9, <1>10 DEF RInv

\* `Observed::apply` of a deletion: never of a primary, so that nothing is lost with it.
LEMMA DeleteKeeps ==
    ASSUME RInv, OrderlyTimelines, NEW ask \in asks, Delete(ask)
    PROVE  RInv'
<1> DEFINE d == ask.action.region
<1>1. d \in Region /\ ask.action.kind = "delete" /\ Types
  BY DEF RInv, Types, Ask, Action, Delete
<1>2. role[d] # "primary"
  BY <1>1, Spared
<1>3. /\ asks' \subseteq asks
      /\ role' = [role EXCEPT ![d] = "none"] /\ phase' = [phase EXCEPT ![d] = "provisioning"]
      /\ lost' = lost
      /\ UNCHANGED <<timeline, stage, lists, listings, turn>>
  BY <1>2 DEF Delete, controlVars, RInv
<1> HIDE DEF d
<1>4. role' \in [Region -> Role] /\ phase' \in [Region -> Phase]
  BY <1>1, <1>3 DEF Types, Role, Phase
<1>5. Types'
  BY <1>1, <1>3, <1>4 DEF Types
<1>6. Wanted' = Wanted
  BY <1>3 DEF Wanted
<1>7. \A r \in Region : /\ role'[r] = role[r] \/ role'[r] = "none"
                        /\ role[r] = "primary" => role'[r] = "primary"
  BY <1>1, <1>2, <1>3 DEF Types
<1>8. OnePrimary' /\ Start' /\ lost' = FALSE
  BY <1>3, <1>7 DEF RInv, OnePrimary, Start
<1>9. ASSUME NEW r \in Region
      PROVE  /\ Kept(r)' => KeptInv(r)'
             /\ Second(r)' => SecondInv(r)'
             /\ First(r)' => FirstInv(r)'
  <2>1. Kept(r)' = Kept(r) /\ Second(r)' = Second(r) /\ First(r)' = First(r)
    BY <1>3 DEF Kept, Second, First
  <2>2. Kept(r) => KeptInv(r)'
    BY <1>3, <1>6, <1>7 DEF RInv, KeptInv
  <2>3. Second(r) => SecondInv(r)'
    BY <1>3, <1>7 DEF RInv, SecondInv
  <2>4. Reigns(r)' = Reigns(r)
    BY <1>3, <1>6 DEF Reigns
  <2>5. ASSUME First(r) PROVE FirstInv(r)'
    <3>1. FirstInv(r)
      BY <2>5 DEF RInv
    <3> QED
      BY <1>3, <1>7, <2>4, <3>1 DEF FirstInv
  <2> QED
    BY <2>1, <2>2, <2>3, <2>5
<1> QED
  BY <1>5, <1>8, <1>9 DEF RInv

\* What `reconcile` asks for, from what it was shown.
LEMMA Decided ==
    ASSUME NEW wanted \in [Region -> Wish], NEW roles \in [Region -> Role],
           NEW phases \in [Region -> Phase], NEW a \in Reconcile(wanted, roles, phases)
    PROVE  /\ a \in Action
           /\ a.kind = "create" => /\ wanted[a.region] # "nothing" /\ roles[a.region] = "none"
                                   /\ a.role = "primary" => wanted[a.region] = "primary"
                                   /\ a.role # "primary" =>
                                         wanted[a.region] # "primary" \/ HasPrimary(roles)
           /\ a.kind = "promote" => /\ wanted[a.region] = "primary"
                                    /\ roles[a.region] = "standby"
           /\ a.kind = "delete" => /\ wanted[a.region] = "nothing" /\ roles[a.region] # "none"
                                   /\ roles[a.region] = "primary" => wanted = Nothing
           /\ a.kind # "create" => a.role = "none"
<1>1. CASE a \in Creations(wanted, roles)
  BY <1>1 DEF Creations, Action, Role
<1>2. CASE a \in Promotions(wanted, roles, phases)
  BY <1>2 DEF Promotions, Action, Role
<1>3. CASE a \in Deletions(wanted, roles)
  BY <1>3 DEF Deletions, Action, Role
<1> QED
  BY <1>1, <1>2, <1>3 DEF Reconcile

\* A look that decides: whatever it asks for is right for what it was shown, however old.
LEMMA DecideKeeps ==
    ASSUME RInv, OrderlyTimelines, NEW listing \in listings, Decide(listing)
    PROVE  RInv'
<1> DEFINE new == {[tag |-> turn, action |-> a] :
                     a \in Reconcile(listing.wanted, listing.role, listing.phase)}
<1>1. /\ listings' \subseteq listings /\ asks' \subseteq asks \cup new
      /\ turn' = 1 - turn
      /\ UNCHANGED <<timeline, stage, role, phase, lost, lists>>
  BY DEF Decide, Carried, serverVars
<1>2. /\ Types /\ turn \in Tag
      /\ listing.wanted \in [Region -> Wish] /\ listing.role \in [Region -> Role]
      /\ listing.phase \in [Region -> Phase]
  BY DEF RInv, Types, Listing
<1>3. ASSUME NEW ask \in new
      PROVE  /\ ask \in Ask
             /\ ask.action \in Reconcile(listing.wanted, listing.role, listing.phase)
  BY <1>2, Decided DEF Ask
<1> HIDE DEF new
<1>4. turn' \in Tag
  BY <1>1, <1>2 DEF Tag
<1>5. Types'
  BY <1>1, <1>3, <1>4 DEF RInv, Types
<1>6. Wanted' = Wanted
  BY <1>1 DEF Wanted
<1>7. ASSUME NEW ask \in new
      PROVE  /\ ask.action.region \in Region /\ listing.wanted # Nothing
             /\ ask.action.kind \in {"create", "promote", "delete"}
  <2>1. ask.action \in Action
    BY <1>3 DEF Ask
  <2>2. ASSUME listing.wanted = Nothing PROVE FALSE
    <3>1. \A r \in Region : listing.wanted[r] = "nothing" /\ listing.role[r] = "none"
      BY <2>2 DEF RInv, Start, Nothing
    <3> QED
      BY <1>2, <1>3, <2>1, <3>1, Decided DEF Action
  <2> QED
    BY <2>1, <2>2 DEF Action
<1>8. stage # 0 \/ new = {}
  BY <1>7 DEF RInv, Start
<1>9. Start' /\ OnePrimary' /\ lost' = FALSE
  BY <1>1, <1>8 DEF RInv, Start, OnePrimary
<1>10. ASSUME NEW r \in Region
       PROVE  /\ Kept(r)' => KeptInv(r)'
              /\ Second(r)' => SecondInv(r)'
              /\ First(r)' => FirstInv(r)'
  <2>1. Kept(r)' = Kept(r) /\ Second(r)' = Second(r) /\ First(r)' = First(r)
    BY <1>1 DEF Kept, Second, First
  <2>2. ASSUME Kept(r) PROVE KeptInv(r)'
    <3>1. KeptInv(r)
      BY <2>2 DEF RInv
    <3>2. ASSUME NEW ask \in new, ask.action.region = r
          PROVE  /\ ask.action.kind = "create" => Wanted[r] # "nothing"
                 /\ ask.action.kind # "delete"
      BY <1>2, <1>3, <3>1, <3>2, Decided DEF KeptInv
    <3> QED
      BY <1>1, <1>6, <3>1, <3>2 DEF KeptInv
  <2>3. ASSUME Second(r) PROVE SecondInv(r)'
    <3>1. SecondInv(r)
      BY <2>3 DEF RInv
    <3>2. ASSUME NEW ask \in new, ask.action.region = r
          PROVE  ask.action.kind # "promote" /\ ask.action.role # "primary"
      BY <1>2, <1>3, <1>7, <3>1, <3>2, Decided DEF SecondInv
    <3> QED
      BY <1>1, <3>1, <3>2 DEF SecondInv
  <2>4. ASSUME First(r) PROVE FirstInv(r)'
    <3>1. FirstInv(r)
      BY <2>4 DEF RInv
    <3>2. Reigns(r)' = Reigns(r)
      BY <1>1, <1>6 DEF Reigns
    <3>3. ASSUME NEW ask \in new, ask.action.region = r
          PROVE  /\ ask.action.kind # "promote"
                 /\ ask.action.kind = "create" => ask.action.role = "primary"
                 /\ ask.action.kind = "delete" => listing.role[r] = "standby"
      <4>1. listing.wanted[r] = "primary" /\ HasPrimary(listing.role) => listing.role[r] = "primary"
        BY <3>1 DEF FirstInv, HasPrimary
      <4>2. /\ listing.wanted[r] # "standby"
            /\ listing.wanted[r] = "primary" => listing.role[r] # "standby"
        BY <3>1 DEF FirstInv
      <4>3. listing.wanted[r] \in Wish /\ listing.role[r] \in Role
        BY <1>2
      <4> QED
        BY <1>2, <1>3, <1>7, <3>3, <4>1, <4>2, <4>3, Decided DEF Wish, Role
    <3>4. ASSUME NEW ask \in new, ask.action.region # r, Reigns(r)
          PROVE  ask.action.kind # "promote" /\ ask.action.role # "primary"
      <4>1. listing.wanted[r] = "primary"
        BY <1>7, <3>1, <3>4 DEF FirstInv
      <4>2. listing.wanted[ask.action.region] # "primary"
        BY <1>7, <3>4, <4>1 DEF RInv, Start
      <4> QED
        BY <1>2, <1>3, <1>7, <4>2, Decided
    <3>5. (\E ask \in asks' : ask.action.kind = "delete" /\ ask.action.region = r) =>
             \/ \E ask \in asks : ask.action.kind = "delete" /\ ask.action.region = r
             \/ listing.role[r] = "standby"
      BY <1>1, <3>3
    <3>6. ASSUME \/ role'[r] = "standby"
                 \/ \E other \in listings' : other.role[r] = "standby"
                 \/ \E ask \in asks' : ask.action.kind = "delete" /\ ask.action.region = r
          PROVE  \E q \in Region \ {r} : role'[q] = "primary"
      BY <1>1, <3>1, <3>5, <3>6 DEF FirstInv
    <3> QED
      BY <1>1, <3>1, <3>2, <3>3, <3>4, <3>6 DEF FirstInv
  <2> QED
    BY <2>1, <2>2, <2>3, <2>4
<1> QED
  BY <1>5, <1>9, <1>10 DEF RInv

\* Every step.
LEMMA StepKeeps == ASSUME RInv, OrderlyTimelines, [Next]_vars PROVE RInv'
<1>1. CASE UNCHANGED vars
  BY <1>1 DEF vars, RInv, Types, Start, OnePrimary, Kept, Second, First, KeptInv, SecondInv,
     FirstInv, Reigns, Wanted
<1>2. CASE Change
  BY <1>2, ChangeKeeps
<1>3. CASE Serve
  BY <1>3, AnswerKeeps, CreateKeeps, PromoteKeeps, DeleteKeeps DEF Serve
<1>4. CASE Hear
  BY <1>4, DecideKeeps DEF Hear
<1>5. CASE Mature \/ Look \/ GiveUp \/ Heal
  BY <1>5, QuietSteps
<1> QED
  BY <1>1, <1>2, <1>3, <1>4, <1>5 DEF Next

--------------------------------------------------------------------------------
(* Theorems. *)

\* Whatever is lost, late or out of order on the wire, and whenever the wishes change: a
\* deletion that `reconcile` has asked for names no primary, nor what is about to be one.
THEOREM DeletionsAreHarmless ==
    ASSUME OrderlyTimelines
    PROVE  Spec => []DeletionsSparePrimaries
<1>1. RInv => DeletionsSparePrimaries
  BY Spared DEF DeletionsSparePrimaries
<1> QED
  BY <1>1, InitStarts, StepKeeps, PTL DEF Spec

\* `keeps_its_data`: nothing the loop asks for ever destroys the data.
THEOREM DataIsKept ==
    ASSUME OrderlyTimelines
    PROVE  Spec => []KeepsItsData
<1>1. RInv => KeepsItsData
  BY DEF RInv, KeepsItsData
<1> QED
  BY <1>1, InitStarts, StepKeeps, PTL DEF Spec

\* A ready primary goes only when another, as ready, takes over.
LEMMA StepServes ==
    ASSUME RInv, OrderlyTimelines, Next, Served
    PROVE  Served'
<1>1. PICK r \in Region : role[r] = "primary" /\ phase[r] = "ready"
  BY DEF Served
<1>2. Types
  BY DEF RInv
<1>3. CASE Change \/ Look \/ Hear \/ GiveUp \/ Heal \/ \E tag \in Tag : Answer(tag)
  BY <1>1, <1>3 DEF Change, Look, Hear, Decide, GiveUp, Heal, Answer, serverVars, Served
<1>4. ASSUME NEW q \in Region, Advance(q) PROVE Served'
  <2>1. role'[r] = "primary" /\ phase'[r] = "ready"
    BY <1>1, <1>2, <1>4 DEF Advance, Matured, Types
  <2> QED
    BY <2>1 DEF Served
<1>5. ASSUME NEW ask \in asks, Create(ask) PROVE Served'
  <2>1. role'[r] = "primary" /\ phase'[r] = "ready"
    BY <1>1, <1>2, <1>5 DEF Create, Types
  <2> QED
    BY <2>1 DEF Served
<1>6. ASSUME NEW ask \in asks, Promote(ask) PROVE Served'
  <2> DEFINE p == ask.action.region
  <2>1. p \in Region
    BY <1>2 DEF Types, Ask, Action
  <2>2. /\ role' = IF role[p] = "standby" /\ phase[p] = "ready" THEN SteppedDown(p) ELSE role
        /\ UNCHANGED phase
    BY <1>6 DEF Promote
  <2> HIDE DEF p
  <2>3. CASE role' = role
    BY <1>1, <2>2, <2>3 DEF Served
  <2>4. CASE role' = SteppedDown(p) /\ phase[p] = "ready"
    BY <2>1, <2>2, <2>4 DEF Served, SteppedDown
  <2> QED
    BY <2>2, <2>3, <2>4
<1>7. ASSUME NEW ask \in asks, Delete(ask) PROVE Served'
  <2> DEFINE d == ask.action.region
  <2>1. /\ role[d] # "primary"
        /\ role' = [role EXCEPT ![d] = "none"] /\ phase' = [phase EXCEPT ![d] = "provisioning"]
    BY <1>7, Spared DEF Delete
  <2> HIDE DEF d
  <2>2. role'[r] = "primary" /\ phase'[r] = "ready"
    BY <1>1, <1>2, <2>1 DEF Types
  <2> QED
    BY <2>2 DEF Served
<1> QED
  BY <1>3, <1>4, <1>5, <1>6, <1>7 DEF Next, Mature, Serve

\* Once a database has a ready primary it has one ever after: no decision, however old what it
\* was made on, leaves it unserved.
THEOREM ServedForGood ==
    ASSUME OrderlyTimelines
    PROVE  Spec => StaysServed
<1>1. RInv /\ [Next]_vars => [Served => Served']_vars
  BY StepServes
<1> QED
  BY <1>1, InitStarts, StepKeeps, PTL DEF Spec, StaysServed
===============================================================================
