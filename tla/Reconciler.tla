------------------------------ MODULE Reconciler ------------------------------
(***************************************************************************)
(* The level-triggered control loop of systems/reconciler.rs: a controller *)
(* that looks, decides and asks, and a server that holds what is wanted    *)
(* and what exists, over a wire that loses and reorders.                   *)
(*                                                                         *)
(* One database: no operation of the code, and no arm of the decision,     *)
(* looks at two.  Time is abstracted to what its constants order:          *)
(*  - a message lands or is lost within LATENCY, and PATIENCE is longer    *)
(*    than a request and its answer, so a look gives up only on a listing  *)
(*    that is never coming;                                                *)
(*  - REQUEUE is longer than LATENCY, so when a look begins, what the one  *)
(*    before the last asked for has landed or is lost (`turn`); what the   *)
(*    last one asked for may still be on the wire, across the opening of a *)
(*    pass.                                                                *)
(* The number of passes and the server's QUIET are left out.               *)
(***************************************************************************)
EXTENDS Naturals, Sequences, FiniteSets

CONSTANTS
    Region,
    Timelines   \* what is wanted over a run, one after another: the runs to check

Wish == {"primary", "standby", "nothing"}

ASSUME ReconcilerAssumption ==
    \A timeline \in Timelines : timeline \in Seq([Region -> Wish])

VARIABLES
    timeline,  \* TIMELINE
    stage,     \* how many changes of it have been made
    role,      \* Observed.replicas: the role of the replica in each region, or "none"
    phase,     \* and its phase
    lost,      \* Observed.lost
    due,       \* Server.due: the regions whose replica has a phase change armed
    lists,     \* the wire: the requests for a listing, by their look's tag
    listings,  \* the wire: the answers, with what the server held
    asks,      \* the wire: the actions asked for
    look,      \* the controller: "resting", or "waiting" for a listing
    turn,      \* the tag of what this look sends, one of two
    healed     \* the faults of the schedule are over

serverVars == <<timeline, stage, role, phase, lost, due>>
wireVars == <<lists, listings, asks>>
controlVars == <<look, turn>>
vars == <<timeline, stage, role, phase, lost, due, lists, listings, asks, look, turn, healed>>

Tag == {0, 1}

Nothing == [r \in Region |-> "nothing"]
Wanted == IF stage = 0 THEN Nothing ELSE timeline[stage]

Init ==
    /\ timeline \in Timelines
    /\ stage = 0
    /\ role = [r \in Region |-> "none"]
    /\ phase = [r \in Region |-> "provisioning"]
    /\ lost = FALSE
    /\ due = {}
    /\ lists = {} /\ listings = {} /\ asks = {}
    /\ look = "resting" /\ turn = 0
    /\ healed = FALSE

--------------------------------------------------------------------------------
(* The decision. *)

HasPrimary(roles) == \E r \in Region : roles[r] = "primary"

\* A wanted replica that is missing; as the primary only if there is none.
Creations(wanted, roles) ==
    {[kind |-> "create", region |-> r,
      role |-> IF wanted[r] = "primary" /\ ~ HasPrimary(roles) THEN "primary" ELSE "standby"] :
        r \in {q \in Region : wanted[q] # "nothing" /\ roles[q] = "none"}}

\* A plausible slip: a standby is promoted only where no primary is in its way.
HeadlessPromotions(wanted, roles, phases) ==
    {[kind |-> "promote", region |-> r, role |-> "none"] :
        r \in {q \in Region : /\ wanted[q] = "primary" /\ ~ HasPrimary(roles)
                              /\ roles[q] = "standby" /\ phases[q] = "ready"}}

\* A standby in sync where the primary is wanted.
Promotions(wanted, roles, phases) ==
    {[kind |-> "promote", region |-> r, role |-> "none"] :
        r \in {q \in Region : /\ wanted[q] = "primary"
                              /\ roles[q] = "standby" /\ phases[q] = "ready"}}

\* A plausible slip: a primary nobody wants there goes at once.
HastyDeletions(wanted, roles) ==
    {[kind |-> "delete", region |-> r, role |-> "none"] :
        r \in {q \in Region : wanted[q] = "nothing" /\ roles[q] # "none"}}

\* A replica nobody wants, the primary excepted while the database is wanted.
Deletions(wanted, roles) ==
    {[kind |-> "delete", region |-> r, role |-> "none"] :
        r \in {q \in Region : /\ wanted[q] = "nothing" /\ roles[q] # "none"
                              /\ roles[q] = "primary" => wanted = Nothing}}

\* `reconcile`.
Reconcile(wanted, roles, phases) ==
    Creations(wanted, roles) \cup Promotions(wanted, roles, phases)
      \cup Deletions(wanted, roles)

--------------------------------------------------------------------------------
(* The server. *)

\* What arrives of what is sent: the wire loses any of it while faults last.
Carried(messages) == IF healed THEN {messages} ELSE SUBSET messages

MoreChanges == stage < Len(timeline)

\* `Server::change`: the next change to what is wanted.
Change ==
    /\ MoreChanges
    /\ stage' = stage + 1
    /\ UNCHANGED <<timeline, role, phase, lost, due, wireVars, controlVars, healed>>

\* `Observed::advance`: only a standby catches up on its way.
Matured(r) ==
    IF role[r] = "standby" /\ phase[r] = "provisioning" THEN "catching up" ELSE "ready"

\* `Server::advance`: a replica whose time has come moves on, and what begins
\* to catch up has its next change armed.
Advance(r) ==
    /\ r \in due
    /\ phase' = [phase EXCEPT ![r] = Matured(r)]
    /\ due' = IF Matured(r) = "catching up" THEN due ELSE due \ {r}
    /\ UNCHANGED <<timeline, stage, role, lost, wireVars, controlVars, healed>>

\* Answers a request for a listing with what is wanted and what exists now.
Answer(tag) ==
    /\ tag \in lists
    /\ lists' = lists \ {tag}
    /\ \E carried \in Carried({[tag |-> tag, wanted |-> Wanted, role |-> role, phase |-> phase]}) :
          listings' = listings \cup carried
    /\ UNCHANGED <<serverVars, asks, controlVars, healed>>

\* `Observed::apply`, a creation: refused where there is a replica, and a
\* primary refused where the database has one.
Create(ask) ==
    LET r == ask.action.region
    IN /\ ask.action.kind = "create"
       /\ IF role[r] # "none" \/ (ask.action.role = "primary" /\ HasPrimary(role))
          THEN UNCHANGED <<role, phase, due>>
          ELSE /\ role' = [role EXCEPT ![r] = ask.action.role]
               /\ phase' = [phase EXCEPT ![r] = "provisioning"]
               /\ due' = due \cup {r}
       /\ asks' = asks \ {ask}
       /\ UNCHANGED <<timeline, stage, lost, lists, listings, controlVars, healed>>

\* The replica in r becomes the primary, and the one that was steps down.
SteppedDown(r) ==
    [q \in Region |-> IF q = r THEN "primary"
                      ELSE IF role[q] = "primary" THEN "standby" ELSE role[q]]

\* `Observed::apply`, a promotion: refused to anything but a standby in sync.
Promote(ask) ==
    LET r == ask.action.region
    IN /\ ask.action.kind = "promote"
       /\ role' = IF role[r] = "standby" /\ phase[r] = "ready" THEN SteppedDown(r) ELSE role
       /\ asks' = asks \ {ask}
       /\ UNCHANGED <<timeline, stage, phase, lost, due, lists, listings, controlVars, healed>>

StandbyInSync == \E r \in Region : role[r] = "standby" /\ phase[r] = "ready"

\* `Observed::apply`, a deletion: the replica goes with its next phase change;
\* a primary with no standby in sync takes the data along.
Delete(ask) ==
    LET r == ask.action.region
    IN /\ ask.action.kind = "delete"
       /\ role' = [role EXCEPT ![r] = "none"]
       /\ phase' = [phase EXCEPT ![r] = "provisioning"]
       /\ lost' = (lost \/ (role[r] = "primary" /\ ~ StandbyInSync))
       /\ due' = due \ {r}
       /\ asks' = asks \ {ask}
       /\ UNCHANGED <<timeline, stage, lists, listings, controlVars, healed>>

Serve ==
    \/ \E tag \in Tag : Answer(tag)
    \/ \E ask \in asks : Create(ask) \/ Promote(ask) \/ Delete(ask)

Mature == \E r \in Region : Advance(r)

--------------------------------------------------------------------------------
(* The controller. *)

\* `look` begins: asks for a listing.  Nothing of the look before the last is
\* on the wire any more.
Look ==
    /\ look = "resting"
    /\ \A ask \in asks : ask.tag # turn
    /\ look' = "waiting"
    /\ \E carried \in Carried({turn}) : lists' = lists \cup carried
    /\ UNCHANGED <<serverVars, listings, asks, turn, healed>>

\* The listing arrives: decides on it, and asks for whatever it shows is needed.
Decide(listing) ==
    /\ look = "waiting"
    /\ listings' = listings \ {listing}
    /\ \E carried \in Carried(Reconcile(listing.wanted, listing.role, listing.phase)) :
          asks' = asks \cup {[tag |-> turn, action |-> a] : a \in carried}
    /\ look' = "resting"
    /\ turn' = 1 - turn
    /\ UNCHANGED <<serverVars, lists, healed>>

\* The listing did not come back in time, for it or the request was lost.
GiveUp ==
    /\ look = "waiting"
    /\ lists = {} /\ listings = {}
    /\ look' = "resting"
    /\ turn' = 1 - turn
    /\ UNCHANGED <<serverVars, wireVars, healed>>

Hear == \E listing \in listings : Decide(listing)

\* The last fault of the schedule is over.
Heal ==
    /\ ~ healed
    /\ healed' = TRUE
    /\ UNCHANGED <<serverVars, wireVars, controlVars>>

Next == Change \/ Mature \/ Serve \/ Look \/ Hear \/ GiveUp \/ Heal

Spec == Init /\ [][Next]_vars

\* Every change of the timeline comes, every replica's time comes, what is on
\* the wire lands, the controller keeps looking, and the faults end
\* (`drawn_faults` closes every window before the last CLEAR_PASSES passes).
FairSpec ==
    /\ Spec
    /\ WF_vars(Change) /\ WF_vars(Heal) /\ WF_vars(Look) /\ WF_vars(GiveUp)
    /\ WF_vars(Hear) /\ WF_vars(Serve) /\ WF_vars(Mature)

--------------------------------------------------------------------------------
(* Properties. *)

\* Wishes that a decision made on an old listing cannot spoil.  The database stays wanted,
\* in one region at a time as the primary.  A region given up was never to be the primary,
\* or was from the beginning and is given up with its part.  Where the wishes are otherwise,
\* a deletion decided on for a standby can meet a primary there.
Orderly(wishes) ==
    /\ \A i \in DOMAIN wishes :
          /\ wishes[i] # Nothing
          /\ \A q, r \in Region : wishes[i][q] = "primary" /\ wishes[i][r] = "primary" => q = r
    /\ \A r \in Region :
          \/ \A i, j \in DOMAIN wishes :
                i < j /\ wishes[i][r] # "nothing" => wishes[j][r] # "nothing"
          \/ \A i \in DOMAIN wishes : wishes[i][r] # "primary"
          \/ \E last \in DOMAIN wishes : \A i \in DOMAIN wishes :
                wishes[i][r] = IF i <= last THEN "primary" ELSE "nothing"

\* `keeps_its_data`: the data of a database that is wanted is never destroyed.
KeepsItsData == lost => Wanted = Nothing

\* Whatever is stale, lost or overtaken on the wire, once a database has a ready
\* primary it has one ever after: what is asked for never leaves it unserved
\* (`Observed::apply`, `reconcile`).
Served == \E r \in Region : role[r] = "primary" /\ phase[r] = "ready"

StaysServed == [][Served => Served']_vars

\* A deletion on the wire, however stale, names no primary: neither what is
\* one now nor what a promotion on the wire would make one (`reconcile`).
DeletionsSparePrimaries ==
    \A d \in asks : d.action.kind = "delete" =>
       /\ role[d.action.region] # "primary"
       /\ \A p \in asks : p.action.kind = "promote" => p.action.region # d.action.region

\* `settled`: what is wanted exists, in its role and ready, and nothing else.
Settled ==
    \A r \in Region :
       IF Wanted[r] = "nothing"
       THEN role[r] = "none"
       ELSE role[r] = Wanted[r] /\ phase[r] = "ready"

\* Once the changes are made and the faults are over, the loop converges and
\* stays there.
Converges == <>[] (stage = Len(timeline) /\ Settled)
================================================================================
