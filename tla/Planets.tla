------------------------------- MODULE Planets -------------------------------
(***************************************************************************)
(* The planet chain (core/planet.c and the dialogs over it in              *)
(* c128/src/main.c): ORBIT, LAND and USE, the one settled world and its    *)
(* deadline, what a world gives and what the captain does with it, and the *)
(* three pools of energy a crystal can leave above their maximum.          *)
(*                                                                         *)
(* A command ends with TRUE in turn, and RunTurn is the part of the turn   *)
(* that follows which touches a world: the distress call and a star that   *)
(* burns somewhere else.  Fire, flight and the enemy only draw on the      *)
(* pools here; their own rules are in Turn, Fleet and Clock.               *)
(***************************************************************************)
EXTENDS Integers, FiniteSets

CONSTANTS
    planet_count,
    GAL_DIM, Quads,         \* the quadrants of the instance
    QUAD_DIM, Cells,        \* the free sectors of the instance
    Galaxies,               \* [quad, find] of the galaxies a game may start in
    Calls,                  \* dates the call may be booked for: never, below a level
    Warnings,               \* EVAC_WARNING: how long the settlers hold out
    SCHED_NEVER,
    SHUTTLE_TENTHS,         \* what a trip by shuttle takes
    ENERGY_MAX, IMPULSE_MAX, SHIELD_MAX,
    ENERGIUM_BELOW,         \* ENERGY_MAX / 5
    SHIELDS_BELOW,          \* SHIELD_MAX / 2
    EnergyGains, ShieldGains, DefectLosses,
    Hits,                   \* what a shot, a flight or a bolt takes
    ITEM_CAP,               \* 255: the last value of a count
    MaxDate                 \* BOUND on the clock

NONE == -1
Worlds == 0 .. (planet_count - 1)
Finds == {"ENERGIUM", "MONGOL", "NOTHING"}
Flags == {"SCANNED", "TAKEN", "SETTLED"}
\* Mongol energium is carried and never spent, and is left out.
Rolled == {"plasma_bolts", "plasma_shield"}
Items == Rolled \cup {"life_support", "raw_energium"}

ASSUME PlanetsAssumption ==
    /\ planet_count \in Nat
    /\ GAL_DIM \in Nat \ {0} /\ QUAD_DIM \in Nat \ {0}
    /\ Quads \subseteq Nat /\ Cells \subseteq Nat /\ 0 \in Cells
    /\ Galaxies \subseteq [quad : [Worlds -> Quads], find : [Worlds -> Finds]]
    /\ \A g \in Galaxies, i, j \in Worlds : g.quad[i] = g.quad[j] => i = j
    /\ Calls \subseteq Nat /\ Warnings \subseteq Nat
    /\ MaxDate \in Nat /\ SHUTTLE_TENTHS \in Nat
    /\ SCHED_NEVER \in Nat
    /\ \A d \in 0 .. MaxDate, w \in Warnings : d + w < SCHED_NEVER
    /\ MaxDate < SCHED_NEVER
    /\ ENERGY_MAX \in Nat /\ IMPULSE_MAX \in Nat /\ SHIELD_MAX \in Nat
    /\ ENERGIUM_BELOW \in 0 .. ENERGY_MAX /\ SHIELDS_BELOW \in 0 .. SHIELD_MAX
    /\ EnergyGains \subseteq Nat /\ ShieldGains \subseteq Nat
    /\ DefectLosses \subseteq Nat /\ Hits \subseteq Nat
    /\ ITEM_CAP \in Nat /\ ITEM_CAP >= 2

VARIABLES
    planets,        \* [quad, sec, find, flags] of every world
    nova,           \* gal_nova: the burnt quadrants
    quad, cell,     \* where the ship is
    orbiting, shields_up,
    stardate, distress, planet_evac_end,
    pool,           \* [main, impulse, shields]
    inventory, plasma_shield,
    rescues,
    turn,           \* a command has been given, and its turn not run
    lost,           \* ship.lost
    told,           \* the energy the last command said it lost
    given           \* HISTORY: the worlds that have given what they had

galaxy == <<planets, nova>>
place  == <<quad, cell, orbiting>>
clock  == <<stardate, distress, planet_evac_end>>
goods  == <<inventory, plasma_shield>>
vars   == <<galaxy, place, shields_up, clock, pool, goods, rescues, turn, lost,
            told, given>>

LeastOf(a, b) == IF a < b THEN a ELSE b
Less(a, b) == IF a > b THEN a - b ELSE 0

(***************************************************************************)
(* The galaxy and the sectors.                                             *)
(***************************************************************************)
Apart(a, b) == IF a > b THEN a - b ELSE b - a

Adjacent(a, b) == /\ Apart(a \div QUAD_DIM, b \div QUAD_DIM) <= 1
                  /\ Apart(a % QUAD_DIM, b % QUAD_DIM) <= 1

\* The last energium world is the settled one.
LastEnergium(find) ==
    {i \in Worlds : find[i] = "ENERGIUM" /\ \A j \in Worlds : j > i => find[j] # "ENERGIUM"}

PlanetNew(g) ==
    [i \in Worlds |-> [quad |-> g.quad[i], sec |-> 0, find |-> g.find[i],
                       flags |-> IF i \in LastEnergium(g.find) THEN {"SETTLED"} ELSE {}]]

\* A world of the quadrant takes a sector the ship has not.
PlanetPlace(worlds, q, s) ==
    [i \in Worlds |-> IF worlds[i].quad = q THEN [worlds[i] EXCEPT !.sec = s] ELSE worlds[i]]

\* (mutant: the quadrant burns, and its settlers are still waited for)
KeepsSettlers(worlds, q) == worlds

QuadrantLost(worlds, q) ==
    [i \in Worlds |-> IF worlds[i].quad = q
                      THEN [worlds[i] EXCEPT !.flags = @ \ {"SETTLED"}] ELSE worlds[i]]

SettlementLost == stardate > planet_evac_end

Settled == {i \in Worlds : "SETTLED" \in planets[i].flags}

Init ==
    /\ quad \in Quads /\ cell \in Cells
    /\ \E g \in Galaxies, s \in Cells \ {cell} :
          planets = PlanetPlace(PlanetNew(g), quad, s)
    /\ nova = {} /\ orbiting = NONE /\ shields_up = FALSE
    /\ stardate = 0 /\ distress \in Calls /\ planet_evac_end = SCHED_NEVER
    /\ pool = [main |-> ENERGY_MAX, impulse |-> IMPULSE_MAX, shields |-> SHIELD_MAX]
    /\ inventory = [i \in Items |-> 0] /\ plasma_shield = FALSE
    /\ rescues = 0 /\ turn = FALSE /\ lost = FALSE /\ told = 0 /\ given = {}

(***************************************************************************)
(* Commands.  Every one is refused, or ends in a turn.                     *)
(***************************************************************************)
Command == ~turn /\ ~lost

\* Time a command takes; nobody plays past MaxDate.
Later(d) == stardate + d <= MaxDate /\ stardate' = stardate + d

\* The dock and the orbit are given up, and the sectors are filled again.
EnterQuadrant(worlds, q, c, s) ==
    /\ c # s
    /\ quad' = q /\ cell' = c /\ orbiting' = NONE
    /\ planets' = PlanetPlace(worlds, q, s)

\* trek_move_warp, and every other way of arriving somewhere.
Warp(q, c, s, d, e) ==
    /\ Command
    /\ e <= pool.main
    /\ EnterQuadrant(planets, q, c, s)
    /\ Later(d)
    /\ pool' = [pool EXCEPT !.main = @ - e]
    /\ turn' = TRUE /\ told' = 0
    /\ UNCHANGED <<nova, shields_up, distress, planet_evac_end, goods, rescues, lost, given>>

Clear(c) == \A i \in Worlds : planets[i].quad = quad => planets[i].sec # c

\* (mutant: the orbit outlives the move)
ImpulseInOrbit(c, d, e) ==
    /\ Command
    /\ c # cell /\ Clear(c) /\ e <= pool.impulse
    /\ cell' = c
    /\ Later(d)
    /\ pool' = [pool EXCEPT !.impulse = @ - e]
    /\ turn' = TRUE /\ told' = 0
    /\ UNCHANGED <<galaxy, quad, orbiting, shields_up, distress, planet_evac_end, goods,
                   rescues, lost, given>>

\* A move that leaves its sector leaves the orbit, blocked further on or not.
Impulse(c, d, e) ==
    /\ Command
    /\ c # cell /\ Clear(c) /\ e <= pool.impulse
    /\ cell' = c /\ orbiting' = NONE
    /\ Later(d)
    /\ pool' = [pool EXCEPT !.impulse = @ - e]
    /\ turn' = TRUE /\ told' = 0
    /\ UNCHANGED <<galaxy, quad, shields_up, distress, planet_evac_end, goods, rescues,
                   lost, given>>

\* Fire, of ours or theirs, or a shield taken down or put up: a turn.
Fight(h, up) ==
    /\ Command
    /\ pool' = [pool EXCEPT !.main = Less(@, h), !.shields = Less(@, h)]
    /\ shields_up' = up
    /\ turn' = TRUE /\ told' = 0
    /\ UNCHANGED <<galaxy, place, clock, goods, rescues, lost, given>>

\* trek_orbit: the first world in reach, and the scan with it.
Orbit(i) ==
    /\ Command
    /\ orbiting = NONE
    /\ planets[i].quad = quad /\ Adjacent(planets[i].sec, cell)
    /\ orbiting' = i
    /\ planets' = [planets EXCEPT ![i].flags = @ \cup {"SCANNED"}]
    /\ turn' = TRUE /\ told' = 0
    /\ UNCHANGED <<nova, quad, cell, shields_up, clock, pool, goods, rescues, lost, given>>

(***************************************************************************)
(* LAND.  Shields up, or a way down that is not whole, refuses it.         *)
(***************************************************************************)
Trip(how) == IF how = "shuttle" THEN SHUTTLE_TENTHS ELSE 0

Take(i) == planets' = [planets EXCEPT ![i].flags = @ \cup {"TAKEN"}]

\* A count of the inventory stops at ITEM_CAP.
More(item, n) == [inventory EXCEPT ![item] = IF @ + n <= ITEM_CAP THEN @ + n ELSE @]

Landing ==
    /\ Command
    /\ orbiting # NONE /\ ~shields_up
    /\ turn' = TRUE /\ told' = 0
    /\ UNCHANGED <<nova, place, shields_up, distress, planet_evac_end, pool, plasma_shield,
                   lost>>

\* The settlers are taken off first, and no trip is charged.
Rescue ==
    /\ Landing
    /\ "SETTLED" \in planets[orbiting].flags /\ ~SettlementLost
    /\ planets' = [planets EXCEPT ![orbiting].flags = (@ \ {"SETTLED"}) \cup {"TAKEN"}]
    /\ rescues' = rescues + 1 /\ given' = given \cup {orbiting}
    /\ UNCHANGED <<stardate, inventory>>

\* Any other landing is charged before its outcome.
Visit(how) ==
    /\ Landing
    /\ ~("SETTLED" \in planets[orbiting].flags /\ ~SettlementLost)
    /\ Later(Trip(how))
    /\ UNCHANGED rescues

\* The attack comes before the find, and replaces it.
Attacked(how) ==
    /\ Visit(how)
    /\ Take(orbiting)
    /\ UNCHANGED <<inventory, given>>

Already(how) ==
    /\ Visit(how)
    /\ "TAKEN" \in planets[orbiting].flags
    /\ UNCHANGED <<planets, inventory, given>>

Find(how, what) == /\ Visit(how)
                   /\ "TAKEN" \notin planets[orbiting].flags
                   /\ planets[orbiting].find = what
                   /\ Take(orbiting)

\* (mutant: the crystal is mined and the world left as it was)
MineAgain(how) ==
    /\ Visit(how)
    /\ "TAKEN" \notin planets[orbiting].flags
    /\ planets[orbiting].find = "ENERGIUM"
    /\ inventory' = More("raw_energium", 1)
    /\ given' = given \cup {orbiting}
    /\ UNCHANGED planets

Mine(how) ==
    /\ Find(how, "ENERGIUM")
    /\ inventory' = More("raw_energium", 1)
    /\ given' = given \cup {orbiting}

\* trek_capture_supplies, called by do_land: nothing, or the items rolled and
\* always two canisters.
Capture(how, got) ==
    /\ Find(how, "MONGOL")
    /\ given' = given \cup {orbiting}
    /\ inventory' = [i \in Items |->
                        IF i \in got THEN More(i, 1)[i]
                        ELSE IF i = "life_support" THEN More(i, 2)[i] ELSE inventory[i]]

CaptureNothing(how) ==
    /\ Find(how, "MONGOL")
    /\ given' = given \cup {orbiting}
    /\ UNCHANGED inventory

Nothing(how) ==
    /\ Find(how, "NOTHING")
    /\ UNCHANGED <<inventory, given>>

(***************************************************************************)
(* USE.  The menu lists what is held.                                      *)
(***************************************************************************)
Using(item) ==
    /\ Command
    /\ inventory[item] > 0
    /\ turn' = TRUE /\ told' = 0
    /\ UNCHANGED <<galaxy, place, shields_up, clock, rescues, lost, given>>

Spent(item) == inventory' = [inventory EXCEPT ![item] = @ - 1]

\* A canister is spent only by a ship on its reserve.
UseLifeSupport(on_reserve) ==
    /\ Using("life_support")
    /\ IF on_reserve THEN Spent("life_support") ELSE UNCHANGED inventory
    /\ UNCHANGED <<pool, plasma_shield>>

UsePlasmaShield ==
    /\ Using("plasma_shield") /\ Spent("plasma_shield")
    /\ plasma_shield' = TRUE
    /\ UNCHANGED pool

\* do_use answers USE_WANT_BOLT, and the command loop calls do_plasma_bolt in
\* another window: no target, or a bolt spent before anyone knows it works.
UseBolt(target, h) ==
    /\ Using("plasma_bolts")
    /\ IF target THEN Spent("plasma_bolts") ELSE UNCHANGED inventory
    /\ h # 0 => target /\ ~plasma_shield
    /\ pool' = [pool EXCEPT !.shields = Less(@, h)]
    /\ UNCHANGED plasma_shield

EnergiumAllowed == pool.main < ENERGIUM_BELOW /\ pool.shields < SHIELDS_BELOW

\* Refused, called off, a dud: the crystal is spent only by the last.
UseEnergiumRefused == Using("raw_energium") /\ UNCHANGED <<goods, pool>>

Burn == /\ Using("raw_energium") /\ EnergiumAllowed
        /\ Spent("raw_energium")
        /\ UNCHANGED plasma_shield

BurnDud == Burn /\ UNCHANGED pool

BurnDefective(loss) == Burn /\ pool' = [pool EXCEPT !.main = Less(@, loss)]

\* The main banks are left above their maximum; the shields stop at theirs.
BurnGood(e, s) == Burn /\ pool' = [pool EXCEPT !.main = @ + e,
                                              !.shields = LeastOf(@ + s, SHIELD_MAX)]

(***************************************************************************)
(* ENERGY and MAX.                                                         *)
(***************************************************************************)
Pools == {"main", "impulse", "shields"}
PoolMax(p) == CASE p = "main" -> ENERGY_MAX [] p = "impulse" -> IMPULSE_MAX [] OTHER -> SHIELD_MAX

\* (mutant: what does not fit is told with what does)
DivertTellsAll(from, to, amount) ==
    LET room == Less(PoolMax(to), pool[to])
    IN  /\ pool' = [pool EXCEPT ![to] = IF amount > room THEN PoolMax(to) ELSE @ + amount,
                                ![from] = @ - amount]
        /\ told' = IF amount > room THEN amount ELSE 0

\* trek_divert.  A destination above its maximum is brought down to it, and
\* that is not in what the captain is told.
Divert(from, to, amount) ==
    LET room == Less(PoolMax(to), pool[to])
    IN  /\ amount <= pool[from]
        /\ pool' = [pool EXCEPT ![to] = IF amount > room THEN PoolMax(to) ELSE @ + amount,
                                ![from] = @ - amount]
        /\ told' = Less(amount, room)

Diverting ==
    /\ Command
    /\ turn' = TRUE
    /\ UNCHANGED <<galaxy, place, shields_up, clock, goods, rescues, lost, given>>

Energy(from, to, amount) == from # to /\ Diverting /\ Divert(from, to, amount)

MaxEnergy == LET amount == LeastOf(pool.main, Less(SHIELD_MAX, pool.shields))
             IN  amount > 0 /\ Diverting /\ Divert("main", "shields", amount)

(***************************************************************************)
(* The turn.                                                               *)
(***************************************************************************)
\* SCHED_DISTRESS: the slot disarms itself, and the deadline starts here.
Call(w) ==
    IF distress > stardate THEN UNCHANGED <<distress, planet_evac_end>>
    ELSE /\ distress' = SCHED_NEVER
         /\ planet_evac_end' = IF Settled = {} THEN planet_evac_end ELSE stardate + w

\* run_nova: no star burns in the ship's row.
Nova(q) == q \div GAL_DIM # quad \div GAL_DIM /\ q \notin nova

RunTurn(w, burnt) ==
    /\ turn /\ ~lost
    /\ Call(w)
    /\ \A q \in burnt : Nova(q)
    /\ nova' = nova \cup burnt
    /\ planets' = IF burnt = {} THEN planets
                  ELSE QuadrantLost(planets, CHOOSE q \in burnt : TRUE)
    /\ turn' = FALSE /\ told' = 0
    /\ UNCHANGED <<place, shields_up, stardate, pool, goods, rescues, lost, given>>

\* star_supernova: the ship's own quadrant burns, and throws the ship; a ship
\* thrown into ashes is lost.
StarSupernova(q, c, s, h) ==
    /\ Command
    /\ quad \notin nova
    /\ nova' = nova \cup {quad}
    /\ pool' = IF shields_up THEN [pool EXCEPT !.shields = Less(@, h)]
               ELSE [pool EXCEPT !.main = Less(@, h)]
    /\ IF q \in nova'
       THEN /\ lost' = TRUE /\ planets' = QuadrantLost(planets, quad)
            /\ UNCHANGED place
       ELSE /\ EnterQuadrant(QuadrantLost(planets, quad), q, c, s)
            /\ UNCHANGED lost
    /\ turn' = TRUE /\ told' = 0
    /\ UNCHANGED <<shields_up, clock, goods, rescues, given>>

Ways == {"shuttle", "transporter"}

Flight ==
    \/ \E q \in Quads, c, s \in Cells, d \in {0, 1}, e \in Hits : Warp(q, c, s, d, e)
    \/ \E c \in Cells, d \in {0, 1}, e \in Hits \cup {0} : Impulse(c, d, e)
    \/ \E h \in Hits, up \in BOOLEAN : Fight(h, up)
    \/ \E q \in Quads, c, s \in Cells, h \in Hits : StarSupernova(q, c, s, h)

Land ==
    \/ Rescue
    \/ \E how \in Ways : \/ Attacked(how) \/ Already(how) \/ Mine(how)
                         \/ CaptureNothing(how) \/ Nothing(how)
                         \/ \E got \in SUBSET Rolled : Capture(how, got)

Use ==
    \/ \E on_reserve \in BOOLEAN : UseLifeSupport(on_reserve)
    \/ UsePlasmaShield
    \/ \E target \in BOOLEAN, h \in Hits \cup {0} : UseBolt(target, h)
    \/ UseEnergiumRefused \/ BurnDud
    \/ \E loss \in DefectLosses : BurnDefective(loss)
    \/ \E e \in EnergyGains, s \in ShieldGains : BurnGood(e, s)

Next ==
    \/ Flight
    \/ \E i \in Worlds : Orbit(i)
    \/ Land \/ Use
    \/ \E from, to \in Pools : \E amount \in 0 .. pool[from] : Energy(from, to, amount)
    \/ MaxEnergy
    \/ \E w \in Warnings, burnt \in {{}} \cup {{q} : q \in Quads} : RunTurn(w, burnt)

Spec == Init /\ [][Next]_vars

-----------------------------------------------------------------------------
(* Properties *)

Banked == {ENERGY_MAX} \cup {ENERGIUM_BELOW - 1 + e : e \in EnergyGains}

\* Every count stays in its byte, and every pool on its scale: "the gate caps
\* energy below 1000 before this runs, so the sum tops out at 7994"
\* (trek_use_energium), whatever was diverted, mined and burnt before.
TypeOK ==
    /\ planets \in [Worlds -> [quad : Quads, sec : Cells, find : Finds, flags : SUBSET Flags]]
    /\ nova \subseteq Quads /\ quad \in Quads /\ cell \in Cells
    /\ orbiting \in Worlds \cup {NONE} /\ shields_up \in BOOLEAN
    /\ stardate \in 0 .. MaxDate /\ distress \in Calls \cup {SCHED_NEVER}
    /\ planet_evac_end \in Nat
    /\ \E top \in Banked : pool.main \in 0 .. top
    /\ pool \in [main : Nat, impulse : 0 .. IMPULSE_MAX, shields : 0 .. SHIELD_MAX]
    /\ inventory \in [Items -> 0 .. ITEM_CAP] /\ plasma_shield \in BOOLEAN
    /\ rescues \in Nat /\ turn \in BOOLEAN /\ lost \in BOOLEAN /\ told \in Nat
    /\ given \subseteq Worlds

\* "the reason trek_land() can trust ship.orbiting without rechecking where
\* the ship is" (trek_enter_quadrant): a ship in orbit is beside its world, in
\* its quadrant, and has scanned it.
OrbitIsReal ==
    orbiting # NONE => /\ planets[orbiting].quad = quad
                       /\ Adjacent(planets[orbiting].sec, cell)
                       /\ "SCANNED" \in planets[orbiting].flags

\* "THE FIND IS SPENT WHATEVER HAPPENED" (trek_land): a world gives once -
\* crystal, supplies or settlers - however often it is landed on, left, placed
\* again or burnt in between.
OneGiftPerWorld ==
    [][rescues' # rescues \/ (\E i \in Items : inventory'[i] > inventory[i])
         => orbiting \notin given /\ orbiting \in given']_vars

Total(p) == p.main + p.impulse + p.shields

\* Of what a command destroys the captain is never told more than was there:
\* no divert, MAX or crystal reports a loss that did not happen.
TellsNoMoreThanItTakes == [][told' <= Less(Total(pool), Total(pool'))]_vars

\* The settlers of this module fare as module Evacuation promises: called for
\* once, to a date that stands, saved once, in time, and never from the ashes
\* (planet_new, run_events, trek_land, planet_quadrant_lost).
Home == LastEnergium([i \in Worlds |-> planets[i].find])

Fate == IF rescues > 0 THEN "saved"
        ELSE IF Home = {} THEN "none"
        ELSE IF \E i \in Home : planets[i].quad \in nova THEN "burnt" ELSE "there"

E == INSTANCE Evacuation WITH
        Dates    <- 0 .. (SCHED_NEVER - 1),
        Open     <- SCHED_NEVER,
        today    <- stardate,
        fate     <- Fate,
        deadline <- planet_evac_end,
        saved    <- rescues

ImplementsEvacuation == E!Spec
=============================================================================
