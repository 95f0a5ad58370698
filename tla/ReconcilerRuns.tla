---------------------------- MODULE ReconcilerRuns ----------------------------
(***************************************************************************)
(* A run of systems/reconciler.rs by the clock: the controller's passes    *)
(* and the looks inside one, the server that waits for a request, a change *)
(* or a replica's time, whichever is first, the wire with faults in its    *)
(* way, and the verdict over the worlds the server recorded.               *)
(*                                                                         *)
(* It shows what Reconciler.tla takes for granted of time (`Implements`)   *)
(* and what that module leaves out: that a run has passes enough.          *)
(*                                                                         *)
(* One database, as there; the looks the other one brings about are any.   *)
(* Of the executor there is the rule that time moves only when no task has *)
(* anything to do, and of a wait that it takes what has landed when its    *)
(* deadline falls.  Messages landing at one instant are taken in any order.*)
(***************************************************************************)
EXTENDS Faults, FiniteSetsExt

CONSTANTS
    Region,
    Timelines,    \* TIMELINE: of one database, what is wanted from which instant on
    Passes, ClearPasses, Period, Patience, Requeue, Quiet,  \* the constants of the code
    Latency, Provisioning, CatchingUp,                      \* what their draws may come to
    Troubles,     \* what may be drawn of the faults of a run
    OthersAsk     \* whether a look may have asked for something of the other database

\* What the constants are; a timeline has a change to make.
ASSUME RunsAssumption ==
    /\ Passes \in Nat /\ ClearPasses \in 0 .. Passes
    /\ Period \in Nat \ {0} /\ Patience \in Nat /\ Requeue \in Nat /\ Quiet \in Nat
    /\ Latency \subseteq Nat /\ Latency # {}
    /\ Provisioning \subseteq Nat /\ CatchingUp \subseteq Nat
    /\ Timelines \subseteq
          Seq([at : Nat, wanted : [Region -> {"primary", "standby", "nothing"}]]) \ {<<>>}
    /\ Troubles \subseteq
          Seq([from : Node, to : Node, odds : Odds, start : Nat, lasts : Nat])

\* The constants as the code relates them: PATIENCE is longer than a request and its answer
\* take, and no longer than PERIOD; REQUEUE is longer than what a look asks for is on its
\* way; and QUIET is longer than a request is to be waited for after the last change, or
\* after the last request, wherever the faults are.
ASSUME TimesAssumption ==
    LET healed == (Passes + 1 - ClearPasses) * Period IN
    /\ healed < MaxTime
    /\ \A l, k \in Latency : l + k < Patience
    /\ Patience <= Period
    /\ \A l \in Latency : l < Requeue /\ Period + l < Quiet
    /\ \A t \in Timelines, l \in Latency : healed + Period + l < t[Len(t)].at + Quiet

VARIABLES
    timeline, faults,
    now,
    wire,      \* messages on their way or in an inbox, with the instant each lands at
    stage,     \* how many changes of the timeline have been made
    role, phase, lost,   \* Observed
    due,       \* Server.due: when a replica's phase changes next
    since,     \* when the server began to wait
    gone,      \* the server has stopped
    pass, next,     \* the pass the controller is at, and its next look or the one it is in
    look, turn,     \* "resting" or "waiting", and the tag of what the look sends
    spoiled    \* a world was recorded that breaks the safety promise

fixed == <<timeline, faults>>
server == <<stage, role, phase, lost, due, since, gone, spoiled>>
controller == <<pass, next, look, turn>>
vars == <<fixed, now, wire, server, controller>>

Changes == [i \in DOMAIN timeline |-> timeline[i].wanted]

\* `opens`.
Opens(n) == n * Period

\* A plausible slip: one clear pass too few.
HealedLate == Opens(Passes + 2 - ClearPasses)

\* The faults are over when the last clear passes begin.
Healed == Opens(Passes + 1 - ClearPasses)

\* The loop as Reconciler.tla has it.
Loop == INSTANCE Reconciler WITH
    Timelines <- {[i \in DOMAIN t |-> t[i].wanted] : t \in Timelines},
    timeline <- Changes,
    due <- DOMAIN due,
    lists <- {m.tag : m \in {l \in wire : l.kind = "list"}},
    listings <- {m.body : m \in {l \in wire : l.kind = "listing"}},
    asks <- {[tag |-> m.tag, action |-> m.body] : m \in {a \in wire : a.kind = "apply"}},
    healed <- now >= Healed

Wanted == Loop!Wanted

\* `drawn_faults`: each on one direction, an outage or a loss, cut short where the faults
\* must be over.
DrawnFaults(trouble) ==
    [i \in DOMAIN trouble |->
       [kind |-> IF trouble[i].odds = NoOdds THEN "partition" ELSE "loss",
        from |-> trouble[i].from, to |-> trouble[i].to,
        during |-> [start |-> trouble[i].start,
                    end |-> Min({trouble[i].start + trouble[i].lasts, Healed})],
        odds |-> trouble[i].odds]]

Init ==
    /\ timeline \in Timelines
    /\ \E trouble \in Troubles : faults = DrawnFaults(trouble)
    /\ now = 0 /\ wire = {}
    /\ stage = 0 /\ lost = FALSE /\ spoiled = FALSE
    /\ role = [r \in Region |-> "none"]
    /\ phase = [r \in Region |-> "provisioning"]
    /\ due = <<>> /\ since = 0 /\ gone = FALSE
    /\ pass = 1 /\ next = Opens(1) /\ look = "resting" /\ turn = 0

\* What may come of a message sent now.
Sent(from, to, kind, tag, body) ==
    IF Partitioned(faults, from, to, now) THEN {{}}
    ELSE UNION {IF dropped THEN {{}}
                ELSE {{[to |-> to, at |-> now + l, kind |-> kind, tag |-> tag, body |-> body]} :
                        l \in Latency} :
                  dropped \in Draws(LossOdds(faults, from, to, now, NoOdds))}

\* What there is to take for a node, the first to have landed.
Taken(node) ==
    {m \in wire : /\ m.to = node /\ m.at <= now
                  /\ \A other \in wire : other.to = node => m.at <= other.at}

--------------------------------------------------------------------------------
(* The worlds that are recorded, and what is promised of them. *)

\* `world`: the fields of the database, by region and ending.
World(wanted, roles, phases, gonedata) ==
    [lost |-> gonedata,
     wanted |-> [r \in {q \in Region : wanted[q] # "nothing"} |-> wanted[r]],
     role |-> [r \in {q \in Region : roles[q] # "none"} |-> roles[r]],
     phase |-> [r \in {q \in Region : roles[q] # "none"} |-> phases[r]]]

\* `keeps_its_data`.
KeepsItsData(world) == ~ world.lost \/ DOMAIN world.wanted = {}

\* `settled`.
Settled(world) ==
    /\ \A r \in DOMAIN world.wanted :
          r \in DOMAIN world.role /\ world.role[r] = world.wanted[r] /\ world.phase[r] = "ready"
    /\ DOMAIN world.role \subseteq DOMAIN world.wanted

\* `Server::write`: the world after every change is recorded, and `verdict` looks at each
\* for its data and at the last for whether it is settled.
Write ==
    spoiled' = (spoiled \/ ~ KeepsItsData(World(Wanted', role', phase', lost')))

Verdict ==
    IF spoiled THEN "lost data"
    ELSE IF ~ Settled(World(Wanted, role, phase, lost)) THEN "did not converge" ELSE "pass"

--------------------------------------------------------------------------------
(* The server. *)

MoreChanges == stage < Len(timeline)

\* The change or the replica the server waits for, if there is any.
Awaited ==
    (IF MoreChanges THEN {timeline[stage + 1].at} ELSE {}) \cup {due[r] : r \in DOMAIN due}

\* The instant its wait is over, come what may.
WaitEnds == IF Awaited = {} THEN since + Quiet ELSE Min(Awaited)

\* The server goes round again once this is done.
Round == since' = now /\ UNCHANGED <<fixed, now, controller>>

Hears(kind) == {m \in Taken("server") : m.kind = kind /\ ~ gone}

GivesUp == ~ gone /\ Taken("server") = {} /\ now >= WaitEnds

Armed(r, takes) == [q \in DOMAIN due \cup {r} |-> IF q = r THEN now + takes ELSE due[q]]

Disarmed(r) == [q \in DOMAIN due \ {r} |-> due[q]]

Answer ==
    \E m \in Hears("list") :
        /\ \E sent \in Sent("server", "controller", "listing", m.tag,
                            [tag |-> m.tag, wanted |-> Wanted, role |-> role, phase |-> phase]) :
              wire' = (wire \ {m}) \cup sent
        /\ Round
        /\ UNCHANGED <<stage, role, phase, lost, due, gone, spoiled>>

\* `Server::apply`: what is refused is neither armed nor recorded.
Create ==
    \E m \in Hears("apply"), takes \in Provisioning :
        LET r == m.body.region
            refused == role[r] # "none"
                         \/ (m.body.role = "primary" /\ \E q \in Region : role[q] = "primary")
        IN /\ m.body.kind = "create"
           /\ wire' = wire \ {m}
           /\ role' = IF refused THEN role ELSE [role EXCEPT ![r] = m.body.role]
           /\ phase' = IF refused THEN phase ELSE [phase EXCEPT ![r] = "provisioning"]
           /\ due' = IF refused THEN due ELSE Armed(r, takes)
           /\ UNCHANGED <<stage, lost, gone>>
           /\ Round /\ Write

Promote ==
    \E m \in Hears("apply") :
        LET r == m.body.region
            refused == role[r] # "standby" \/ phase[r] # "ready"
        IN /\ m.body.kind = "promote"
           /\ wire' = wire \ {m}
           /\ role' = IF refused THEN role ELSE Loop!SteppedDown(r)
           /\ UNCHANGED <<stage, phase, lost, due, gone>>
           /\ Round /\ Write

\* A replica taken away takes its next phase change with it.
Delete ==
    \E m \in Hears("apply") :
        LET r == m.body.region
        IN /\ m.body.kind = "delete"
           /\ wire' = wire \ {m}
           /\ role' = [role EXCEPT ![r] = "none"]
           /\ phase' = [phase EXCEPT ![r] = "provisioning"]
           /\ lost' = (lost \/ (role[r] = "primary" /\ ~ Loop!StandbyInSync))
           /\ due' = Disarmed(r)
           /\ UNCHANGED <<stage, gone>>
           /\ Round /\ Write

\* Of a change and a replica due at one instant, the change goes first.
Change ==
    /\ GivesUp /\ MoreChanges /\ timeline[stage + 1].at <= now
    /\ stage' = stage + 1
    /\ UNCHANGED <<wire, role, phase, lost, due, gone>>
    /\ Round /\ Write

Advance(r) ==
    /\ GivesUp /\ ~ (MoreChanges /\ timeline[stage + 1].at <= now)
    /\ r \in DOMAIN due /\ due[r] = Min(Awaited)
    /\ phase' = [phase EXCEPT ![r] = Loop!Matured(r)]
    /\ IF Loop!Matured(r) = "catching up"
       THEN \E takes \in CatchingUp : due' = Armed(r, takes)
       ELSE due' = Disarmed(r)
    /\ UNCHANGED <<wire, stage, role, lost, gone>>
    /\ Round /\ Write

\* It has been quiet for long enough.
Leave ==
    /\ GivesUp /\ Awaited = {}
    /\ gone' = TRUE
    /\ UNCHANGED <<fixed, now, wire, stage, role, phase, lost, due, since, controller, spoiled>>

--------------------------------------------------------------------------------
(* The controller. *)

MorePasses == pass <= Passes

\* A plausible slip: the next look is at once.
RequeuedNow == now

\* A look that asked for something is followed by another.
Requeued == now + Requeue

\* `control`: the pass goes on with another look for as long as there is time for it.
LookAgainAt(at) ==
    IF at + Patience <= Opens(pass + 1)
    THEN pass' = pass /\ next' = at
    ELSE pass' = pass + 1 /\ next' = Opens(pass + 1)

NextPass == pass' = pass + 1 /\ next' = Opens(pass + 1)

Look ==
    /\ MorePasses /\ look = "resting" /\ now >= next
    /\ look' = "waiting"
    /\ \E sent \in Sent("controller", "server", "list", turn, "what there is") :
          wire' = wire \cup sent
    /\ UNCHANGED <<fixed, now, server, pass, next, turn>>

\* What may come of sending all these.
AllSent(actions) ==
    {UNION {sent[a] : a \in actions} :
       sent \in {s \in [actions -> UNION {Sent("controller", "server", "apply", turn, a) : a \in actions}] :
                   \A a \in actions : s[a] \in Sent("controller", "server", "apply", turn, a)}}

\* A listing has come: what it shows is needed is asked for.
Decide ==
    /\ look = "waiting" /\ look' = "resting" /\ turn' = 1 - turn
    /\ \E m \in Taken("controller") :
          LET actions == Loop!Reconcile(m.body.wanted, m.body.role, m.body.phase) IN
          /\ \E sent \in AllSent(actions) : wire' = (wire \ {m}) \cup sent
          /\ \/ actions = {} /\ NextPass
             \/ (actions # {} \/ OthersAsk) /\ LookAgainAt(Requeued)
    /\ UNCHANGED <<fixed, now, server>>

\* It has not come in time.
GiveUp ==
    /\ look = "waiting" /\ look' = "resting" /\ turn' = 1 - turn
    /\ Taken("controller") = {} /\ now >= next + Patience
    /\ NextPass
    /\ UNCHANGED <<fixed, now, wire, server>>

--------------------------------------------------------------------------------
\* The instants something is to happen at.
Pending ==
    (IF gone THEN {} ELSE {WaitEnds} \cup {m.at : m \in {l \in wire : l.to = "server"}})
    \cup (IF ~ MorePasses THEN {}
          ELSE IF look = "resting" THEN {next}
          ELSE {next + Patience} \cup {m.at : m \in {l \in wire : l.to = "controller"}})

\* Time moves when all are blocked.
Tick ==
    /\ Pending # {} /\ Min(Pending) > now
    /\ now' = Min(Pending)
    /\ UNCHANGED <<fixed, wire, server, controller>>

Next ==
    \/ Answer \/ Create \/ Promote \/ Delete
    \/ Change \/ Leave \/ \E r \in Region : Advance(r)
    \/ Look \/ Decide \/ GiveUp
    \/ Tick

\* The loop of the executor goes on until there is nothing to do.
Spec == Init /\ [][Next]_vars /\ WF_vars(Next)

--------------------------------------------------------------------------------
Ended == gone /\ ~ MorePasses

\* Every run comes to its end and holds up, whatever is drawn: the clear passes a drawn
\* schedule leaves are enough for whatever it left undone (CLEAR_PASSES), the server has
\* not stopped before the last of what is asked of it, and no data was lost on the way.
HoldsUp == <>(Ended /\ wire = {} /\ Verdict = "pass")

\* By the clock the loop is the one of Reconciler.tla, which has no clock: a look gives up
\* only on a listing that is never coming, and begins only when the look before the last
\* has nothing left on the wire (PATIENCE and REQUEUE against LATENCY).
Implements == Loop!Init /\ [][Loop!Next]_(Loop!vars)
================================================================================
