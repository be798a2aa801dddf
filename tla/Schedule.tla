------------------------------ MODULE Schedule ------------------------------
(***************************************************************************)
(* The scheduled events of the galaxy (core/trek.c): five slots, one date  *)
(* each, drained once a turn in date order, and the commands that arm,     *)
(* cancel or carry the clock past them.                                    *)
(*                                                                         *)
(* A turn is: one command (which may move the clock), then the events that *)
(* have come due one by one, then the chance events; then the next command *)
(* is read.  The ships that reinforcements bring and the damage a nova     *)
(* does to the fleet are the state of module Fleet.                        *)
(***************************************************************************)
EXTENDS Integers

CONSTANTS
    Dim,            \* GAL_DIM: the galaxy is Dim x Dim quadrants
    Never,          \* SCHED_NEVER, the largest 16-bit date
    MaxEvents,      \* the most events one drain may fire
    MaxLost,        \* 255, where the 8-bit count of lost bases stops
    Start,          \* STARDATE_START
    Horizon,        \* BOUND on the dates explored; Never in the program
    Level,          \* the command level of the games played
    ReinfLevel,     \* REINF_LEVEL
    DistressLevel,  \* DISTRESS_MIN_LEVEL
    HailBox, HailRange,     \* the reach of a hail, in quadrants and squared
    Layouts,        \* the base charts a new galaxy may have
    Settlements,    \* where its settled world may be (NoQuad: nowhere)
    Starry,         \* the quadrants with a star in them
    MoveTimes,      \* tenths a command may take
    Waits,          \* tenths the FIX dialog may be asked to wait
    FirstDelays, AttackDelays, FallDelays,  \* spreads of the schedule, tenths
    DistressDelays, EvacDelays, ReinfFirst, ReinfAgain, HailDelays

Cells  == Dim * Dim
Quads  == 0 .. (Cells - 1)
NoQuad == Cells                     \* GAL_CELLS, "no quadrant"
Row(q) == q \div Dim
Col(q) == q % Dim

BaseKinds == {"none", "starbase", "research", "supply"}

\* The slots, in the order a tie is broken.
BASE_ATTACK == 0
BASE_FALLS  == 1
DISTRESS    == 2
HAIL        == 3
REINFORCE   == 4
Slots       == 0 .. 4

Delays == FirstDelays \cup AttackDelays \cup FallDelays \cup DistressDelays
          \cup EvacDelays \cup ReinfFirst \cup ReinfAgain \cup HailDelays

ASSUME ScheduleAssumption ==
    /\ Dim \in Nat \ {0}
    /\ Never \in Nat /\ Start \in Nat /\ Start < Never
    /\ MaxEvents \in Nat /\ MaxLost \in Nat
    /\ Layouts \subseteq [Quads -> BaseKinds]
    /\ Settlements \subseteq Quads \cup {NoQuad}
    /\ Starry \subseteq Quads
    /\ MoveTimes \subseteq Nat /\ Waits \subseteq Nat \ {0}
    /\ Delays \subseteq Nat \ {0}

\* A game ends short of the last dates of the sixteen bits, where nothing can
\* be put off any more, and a drain may fire more than every slot once.
ASSUME HorizonAssumption ==
    /\ Horizon \in Nat /\ Start <= Horizon /\ Horizon + 1 < Never
    /\ MaxEvents > 4

VARIABLES
    pc,                 \* "command", "salvo", "events", "chance" or "over"
    fired,              \* events fired by this turn's drain (`guard`)
    stardate,
    sched,              \* slot -> date, Never when unarmed
    base_under_attack, hail_quad,       \* a quadrant, or NoQuad
    gal_base, gal_nova, bases_lost,
    settled,            \* the quadrant of the world flagged PF_SETTLED
    planet_evac_end, rescues,
    quad, docked, lost

clock  == <<stardate>>
galaxy == <<gal_base, gal_nova, bases_lost>>
world  == <<settled, planet_evac_end, rescues>>
ship   == <<quad, docked, lost>>
vars   == <<pc, fired, stardate, sched, base_under_attack, hail_quad,
            galaxy, world, ship>>

-----------------------------------------------------------------------------
\* trek_schedule: saturates just below Never instead of wrapping.
AtFrom(date, offset) == IF offset >= Never - date THEN Never - 1
                                                  ELSE date + offset

At(offset) == AtFrom(stardate, offset)

Arm(slot, offset) == [sched EXCEPT ![slot] = At(offset)]

\* trek_advance_time, as far as the schedule sees it: a 16-bit sum.
Advance(tenths) ==
    /\ stardate + tenths <= Horizon
    /\ stardate' = (stardate + tenths) % (Never + 1)

\* Slip: a relief that also books the next attack.
RelieveAndRearm(S) ==
    /\ base_under_attack' =
          IF base_under_attack \in S THEN NoQuad ELSE base_under_attack
    /\ sched' = IF base_under_attack \in S
                THEN [sched EXCEPT ![BASE_FALLS] = Never, ![BASE_ATTACK] = At(1)]
                ELSE sched

\* Slip: the mark is cleared and the deadline forgotten.
RelieveKeepsDeadline(S) ==
    /\ base_under_attack' =
          IF base_under_attack \in S THEN NoQuad ELSE base_under_attack
    /\ UNCHANGED sched

\* A siege of a quadrant in S is called off, and the fall it drives with it.
Relieve(S) ==
    /\ base_under_attack' =
          IF base_under_attack \in S THEN NoQuad ELSE base_under_attack
    /\ sched' = IF base_under_attack \in S
                THEN [sched EXCEPT ![BASE_FALLS] = Never] ELSE sched

\* A quadrant burns: its base, its star and its settlement are gone.
Burn(q) ==
    /\ gal_base' = [gal_base EXCEPT ![q] = "none"]
    /\ gal_nova' = gal_nova \cup {q}
    /\ settled' = IF settled = q THEN NoQuad ELSE settled
    /\ UNCHANGED <<bases_lost, planet_evac_end, rescues>>

-----------------------------------------------------------------------------
\* trek_new_game: the galaxy, the schedule and everything that points into it.
FirstSchedule(attack, distress, reinforce) ==
    [s \in Slots |->
        IF s = BASE_ATTACK THEN AtFrom(Start, attack)
        ELSE IF s = DISTRESS /\ Level >= DistressLevel THEN AtFrom(Start, distress)
        ELSE IF s = REINFORCE /\ Level >= ReinfLevel THEN AtFrom(Start, reinforce)
        ELSE Never]

FirstSchedules == {FirstSchedule(a, d, r) : a \in FirstDelays,
                                            d \in DistressDelays,
                                            r \in ReinfFirst}

Init ==
    /\ pc = "command" /\ fired = 0
    /\ stardate = Start
    /\ sched \in FirstSchedules
    /\ base_under_attack = NoQuad /\ hail_quad = NoQuad
    /\ gal_base \in Layouts /\ gal_nova = {} /\ bases_lost = 0
    /\ settled \in Settlements
    /\ planet_evac_end = Never /\ rescues = 0
    /\ quad \in Quads /\ docked = "none" /\ lost = FALSE

NewGame ==
    /\ pc = "over"
    /\ pc' = "command" /\ fired' = 0
    /\ stardate' = Start
    /\ sched' \in FirstSchedules
    /\ base_under_attack' = NoQuad /\ hail_quad' = NoQuad
    /\ gal_base' \in Layouts /\ gal_nova' = {} /\ bases_lost' = 0
    /\ settled' \in Settlements
    /\ planet_evac_end' = Never /\ rescues' = 0
    /\ quad' \in Quads /\ docked' = "none" /\ lost' = FALSE

-----------------------------------------------------------------------------
(* The commands *)

Command == pc = "command" /\ ~lost

\* Anything that may take time but leaves the quadrant, the dock and the
\* schedule alone: the shuttle's round trip, a refused order, a FIX.
Spend(tenths) ==
    /\ Command /\ pc' = "events"
    /\ Advance(tenths)
    /\ UNCHANGED <<fired, sched, base_under_attack, hail_quad, galaxy, world, ship>>

\* trek_move_impulse, and a warp stopped in the quadrant it leaves.
Impulse(tenths) ==
    /\ Command /\ pc' = "events"
    /\ Advance(tenths)
    /\ docked' = "none"
    /\ UNCHANGED <<fired, sched, base_under_attack, hail_quad, galaxy, world,
                   quad, lost>>

\* A warp, a tractor beam on the way, or a black hole that throws the ship:
\* the clock is charged, then trek_enter_quadrant relieves the quadrant.
Arrive(dest, tenths) ==
    /\ Command /\ pc' = "events"
    /\ Advance(tenths)
    /\ Relieve({dest})
    /\ quad' = dest /\ docked' = "none"
    /\ UNCHANGED <<fired, hail_quad, galaxy, world, lost>>

\* trek_dock, the ship standing beside the base.
Dock ==
    /\ Command /\ pc' = "events"
    /\ docked = "none" /\ gal_base[quad] # "none"
    /\ docked' = gal_base[quad]
    /\ Advance(1)
    /\ UNCHANGED <<fired, sched, base_under_attack, hail_quad, galaxy, world,
                   quad, lost>>

\* trek_hail.  Only a StarBase answers, the nearest one first.
Gap(a, b) == IF a < b THEN b - a ELSE a - b
Range2(q) == LET y == Gap(Row(q), Row(quad))  x == Gap(Col(q), Col(quad))
             IN  y * y + x * x
InBox(q)  == Gap(Row(q), Row(quad)) <= HailBox /\ Gap(Col(q), Col(quad)) <= HailBox
Hailed    == {q \in Quads : InBox(q) /\ gal_base[q] = "starbase"}
Nearest   == {q \in Hailed : \A r \in Hailed :
                 Range2(q) < Range2(r) \/ (Range2(q) = Range2(r) /\ q <= r)}

\* Blocked, or answered on the spot: nothing is left pending.
HailAtOnce ==
    /\ Command /\ pc' = "events"
    /\ UNCHANGED <<fired, clock, sched, base_under_attack, hail_quad, galaxy,
                   world, ship>>

HailOutOfRange(delay) ==
    /\ Command /\ pc' = "events"
    /\ \E q \in Nearest : /\ Range2(q) > HailRange
                          /\ sched' = Arm(HAIL, delay)
                          /\ hail_quad' = q
    /\ UNCHANGED <<fired, clock, base_under_attack, galaxy, world, ship>>

\* Nobody in the box: the reply still pending loses its sender, not its date.
HailNobody ==
    /\ Command /\ pc' = "events"
    /\ Hailed = {}
    /\ hail_quad' = NoQuad
    /\ UNCHANGED <<fired, clock, sched, base_under_attack, galaxy, world, ship>>

\* trek_land on the settled world, before its deadline.
Rescue ==
    /\ Command /\ pc' = "events"
    /\ settled = quad /\ stardate <= planet_evac_end
    /\ settled' = NoQuad /\ rescues' = rescues + 1
    /\ UNCHANGED <<fired, clock, sched, base_under_attack, hail_quad, galaxy,
                   planet_evac_end, ship>>

\* star_supernova: this quadrant burns and the ship is thrown down, up or
\* right.  A salvo goes on firing, from where the ship now is.
Thrown == {q \in Quads : \/ Col(q) = Col(quad) /\ Gap(Row(q), Row(quad)) = 1
                         \/ Row(q) = Row(quad) /\ Col(q) = Col(quad) + 1}

Supernova(dest) ==
    /\ Command \/ pc = "salvo"
    /\ quad \in Starry /\ (lost \/ quad \notin gal_nova)
    /\ dest \in Thrown
    /\ pc' = "salvo"
    /\ Burn(quad)
    /\ IF dest \in gal_nova
       THEN /\ lost' = TRUE
            /\ Relieve({quad})
            /\ UNCHANGED <<quad, docked>>
       ELSE /\ quad' = dest /\ docked' = "none"
            /\ Relieve({quad, dest})
            /\ UNCHANGED lost
    /\ UNCHANGED <<fired, clock, hail_quad>>

EndSalvo ==
    /\ pc = "salvo" /\ pc' = "events"
    /\ UNCHANGED <<fired, clock, sched, base_under_attack, hail_quad, galaxy,
                   world, ship>>

\* Won, lost or Q.
GameOver ==
    /\ pc = "command" /\ pc' = "over"
    /\ UNCHANGED <<fired, clock, sched, base_under_attack, hail_quad, galaxy,
                   world, ship>>

-----------------------------------------------------------------------------
(* run_events: the earliest date due, the lowest slot on a tie, until none *)

Due == {s \in Slots : sched[s] <= stardate /\ sched[s] < Never}

Earliest(s) == /\ s \in Due
               /\ \A r \in Due : sched[s] < sched[r] \/ (sched[s] = sched[r] /\ s <= r)

Firing(s) ==
    /\ pc = "events" /\ fired < MaxEvents
    /\ Earliest(s)
    /\ fired' = fired + 1
    /\ UNCHANGED <<pc, clock, ship, gal_nova, rescues, settled>>

\* Slip: the slot that fires stays armed.
Uncleared(s) == sched

Cleared(s) == [sched EXCEPT ![s] = Never]

\* pick_base: any base but the one already under attack.
Targets == {q \in Quads : gal_base[q] # "none" /\ q # base_under_attack}

FireAttack(delay) ==
    /\ Firing(BASE_ATTACK)
    /\ IF Targets = {}
       THEN sched' = Cleared(BASE_ATTACK) /\ UNCHANGED base_under_attack
       ELSE /\ base_under_attack' \in Targets
            /\ sched' = [Cleared(BASE_ATTACK) EXCEPT ![BASE_FALLS] = At(delay)]
    /\ UNCHANGED <<hail_quad, gal_base, bases_lost, planet_evac_end>>

\* Slip: the base under attack is forgotten but not taken off the chart.
FireFallKeepsBase(delay) ==
    /\ Firing(BASE_FALLS)
    /\ base_under_attack' = NoQuad
    /\ bases_lost' = IF bases_lost < MaxLost THEN bases_lost + 1 ELSE bases_lost
    /\ sched' = [Cleared(BASE_FALLS) EXCEPT ![BASE_ATTACK] = At(delay)]
    /\ UNCHANGED <<hail_quad, gal_base, planet_evac_end>>

FireFall(delay) ==
    /\ Firing(BASE_FALLS)
    /\ IF base_under_attack = NoQuad
       THEN /\ sched' = Cleared(BASE_FALLS)
            /\ UNCHANGED <<gal_base, bases_lost, base_under_attack>>
       ELSE /\ gal_base' = [gal_base EXCEPT ![base_under_attack] = "none"]
            /\ base_under_attack' = NoQuad
            /\ bases_lost' = IF bases_lost < MaxLost THEN bases_lost + 1
                                                     ELSE bases_lost
            /\ sched' = [Cleared(BASE_FALLS) EXCEPT ![BASE_ATTACK] = At(delay)]
    /\ UNCHANGED <<hail_quad, planet_evac_end>>

\* The settlers call, and only now does their deadline start.
FireDistress(delay) ==
    /\ Firing(DISTRESS)
    /\ sched' = Cleared(DISTRESS)
    /\ planet_evac_end' = IF settled = NoQuad THEN planet_evac_end
                          ELSE (stardate + delay) % (Never + 1)
    /\ UNCHANGED <<hail_quad, gal_base, bases_lost, base_under_attack>>

\* Slip: the quadrant that owed the answer is not forgotten.
FireHailKeepsQuad ==
    /\ Firing(HAIL)
    /\ sched' = Cleared(HAIL)
    /\ UNCHANGED <<hail_quad, gal_base, bases_lost, base_under_attack, planet_evac_end>>

FireHail ==
    /\ Firing(HAIL)
    /\ sched' = Cleared(HAIL)
    /\ hail_quad' = NoQuad
    /\ UNCHANGED <<gal_base, bases_lost, base_under_attack, planet_evac_end>>

\* Slip: the next reinforcement is booked for now.
FireReinforceNow(delay) ==
    /\ Firing(REINFORCE)
    /\ sched' = [Cleared(REINFORCE) EXCEPT ![REINFORCE] = stardate]
    /\ UNCHANGED <<hail_quad, gal_base, bases_lost, base_under_attack,
                   planet_evac_end>>

FireReinforce(delay) ==
    /\ Firing(REINFORCE)
    /\ sched' = [Cleared(REINFORCE) EXCEPT ![REINFORCE] = At(delay)]
    /\ UNCHANGED <<hail_quad, gal_base, bases_lost, base_under_attack,
                   planet_evac_end>>

Drained ==
    /\ pc = "events"
    /\ Due = {} \/ fired >= MaxEvents
    /\ pc' = "chance" /\ fired' = 0
    /\ UNCHANGED <<clock, sched, base_under_attack, hail_quad, galaxy, world, ship>>

\* run_nova: a star goes up somewhere outside the ship's row, or, mostly, none.
RunNova ==
    /\ pc = "chance" /\ pc' = "command"
    /\ \E q \in Starry \ gal_nova :
          Row(q) # Row(quad) /\ Burn(q) /\ Relieve({q})
    /\ UNCHANGED <<fired, clock, hail_quad, ship>>

QuietTurn ==
    /\ pc = "chance" /\ pc' = "command"
    /\ UNCHANGED <<fired, clock, sched, base_under_attack, hail_quad, galaxy,
                   world, ship>>

-----------------------------------------------------------------------------
Captain ==
    \/ \E t \in MoveTimes \cup Waits : Spend(t)
    \/ \E t \in MoveTimes : Impulse(t)
    \/ \E dest \in Quads, t \in MoveTimes : Arrive(dest, t)
    \/ Dock
    \/ HailAtOnce \/ HailNobody
    \/ \E d \in HailDelays : HailOutOfRange(d)
    \/ Rescue
    \/ \E dest \in Quads : Supernova(dest)
    \/ EndSalvo
    \/ GameOver \/ NewGame

Drain ==
    \/ \E d \in FallDelays : FireAttack(d)
    \/ \E d \in AttackDelays : FireFall(d)
    \/ \E d \in EvacDelays : FireDistress(d)
    \/ FireHail
    \/ \E d \in ReinfAgain : FireReinforce(d)
    \/ Drained

Chance == RunNova \/ QuietTurn

Next == Captain \/ Drain \/ Chance

Spec == Init /\ [][Next]_vars

\* The captain may never type again; a turn once begun runs to its end.
FairSpec == Spec /\ WF_vars(Drain) /\ WF_vars(Chance)

-----------------------------------------------------------------------------
(* Properties *)

Dates == 0 .. Never

\* Every variable holds a value the program can store in it.
TypeOK ==
    /\ pc \in {"command", "salvo", "events", "chance", "over"}
    /\ fired \in 0 .. MaxEvents
    /\ stardate \in Dates
    /\ sched \in [Slots -> Dates]
    /\ base_under_attack \in Quads \cup {NoQuad}
    /\ hail_quad \in Quads \cup {NoQuad}
    /\ gal_base \in [Quads -> BaseKinds]
    /\ gal_nova \in SUBSET Quads
    /\ bases_lost \in 0 .. MaxLost
    /\ settled \in Quads \cup {NoQuad}
    /\ planet_evac_end \in Dates
    /\ rescues \in Nat
    /\ quad \in Quads /\ docked \in BaseKinds /\ lost \in BOOLEAN

\* One siege, one deadline: a quadrant is marked under attack exactly while
\* the fall of its base has a date, the base is still there to be saved, and
\* no second attack is armed meanwhile (base_under_attack and sched, whoever
\* of run_events, trek_enter_quadrant, run_nova and star_supernova acts).
SiegeHasDeadline ==
    /\ base_under_attack # NoQuad <=> sched[BASE_FALLS] # Never
    /\ base_under_attack # NoQuad => gal_base[base_under_attack] # "none"
    /\ ~(sched[BASE_ATTACK] # Never /\ sched[BASE_FALLS] # Never)

\* A base remembered as owing an answer has an answer with a date: hail_quad
\* is never left set with its slot cleared.
HailHasDate == hail_quad # NoQuad => sched[HAIL] # Never

\* When the next command is read nothing is overdue: the deadline a message
\* printed is still ahead of the captain (run_events' bounded loop emptied
\* the schedule, and what it rescheduled lies in the future, each slot firing at
\* most once: four events, which leave the enemy room in run_turn's twelve).
NothingOverdue ==
    /\ pc \in {"chance", "command"} => \A s \in Slots : sched[s] > stardate
    /\ fired <= 4

\* The date a siege was announced with stands: it is met or cancelled, never
\* moved (EV_BASE_ATTACKED prints it as "they can last until").
PromiseKept ==
    [][sched[BASE_FALLS] # Never /\ sched'[BASE_FALLS] # Never
         => sched'[BASE_FALLS] = sched[BASE_FALLS]]_vars

\* The bases of this module behave as module Bases promises.
Threat == IF sched[BASE_ATTACK] # Never THEN "raid"
          ELSE IF sched[BASE_FALLS] # Never THEN "siege" ELSE "none"
Standing == {q \in Quads : gal_base[q] # "none"}

B == INSTANCE Bases WITH
        Nowhere   <- NoQuad,
        MaxFallen <- MaxLost,
        standing  <- Standing,
        besieged  <- base_under_attack,
        threat    <- Threat,
        fallen    <- bases_lost

ImplementsBases == B!Spec

\* While a siege is overdue the drain neither stops nor loses sight of it: each
\* event takes the base off the chart, or leaves the same siege with the same
\* date and fewer events due beside it (run_events' loop, in which an event may
\* book another or itself).
OverdueSiegeNears ==
    [][pc = "events" /\ base_under_attack # NoQuad /\ sched[BASE_FALLS] <= stardate =>
          \/ gal_base' = [gal_base EXCEPT ![base_under_attack] = "none"]
          \/ /\ pc' = "events" /\ base_under_attack' = base_under_attack
             /\ sched'[BASE_FALLS] = sched[BASE_FALLS]
             /\ Due' \subseteq Due /\ Due' # Due]_vars

\* A siege the turn finds overdue ends, in that turn, with the base gone from
\* the chart (run_events' loop under the fairness of the turn).
OverdueSiegeDecided ==
    \A q \in Quads :
        (pc = "events" /\ base_under_attack = q /\ sched[BASE_FALLS] <= stardate)
            ~> gal_base[q] = "none"

=============================================================================
