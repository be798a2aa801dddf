------------------------------- MODULE Clock -------------------------------
(***************************************************************************)
(* What time does to the ship (core/trek.c, trek_advance_time): the banks  *)
(* cool, the converter tops up, the crew repair at one of four rates, and  *)
(* life support lives on its reserve.  The orders that spend time are here *)
(* with the order in which they cast off, pay and arrive; hits, wear and   *)
(* spies are one action, Suffer.                                           *)
(*                                                                         *)
(* Time is in tenths of a stardate; the fraction of a tenth that a move    *)
(* costs is carried in time_frac, in hundredths.                           *)
(***************************************************************************)
EXTENDS Integers

CONSTANTS
    Word,           \* one more than an unsigned int holds: 2^16 or 2^32
    Trips,          \* the hundredths a move may take
    Waits,          \* the tenths a FIX may be asked to wait
    Costs,          \* what a warp may cost in energy
    Volleys,        \* what the captain may fire
    Crystals,       \* what energium may bring
    Docks,          \* the kinds of base
    Wounds,         \* what may be left of a system that is hit
    Strains,        \* what warp_strain may take off the warp engines
    Others,         \* the systems besides these three and the lasers, which
                    \* an overheated volley damages too
    Horizon,        \* BOUND on the stardates explored, in tenths from 0
    MaxOrders       \* BOUND on the turns of one game

Systems == {"converter", "life", "warp"} \cup Others
Nothing == "nothing"                \* repair_focus = 0

ENERGY_MAX    == 5000
HEAT_CAP      == 120
HEAT_PER_UNIT == 15
COOL_TURN     == 20
COOL_TENTH    == 36                 \* LASER_HEAT_COOL_DAY / 10
GAIN_TENTH    == 40                 \* ENERGY_PER_DAY / 10
RESERVE_MAX   == 20                 \* LIFE_RESERVE_MAX_TENTHS
RESERVE_ITEM  == 10
PANEL_BELOW   == 100
DRAIN_BELOW   == 90
STANDING_BILL == 1000               \* warp_energy(0) at warp 10, doubled by the shields
U16           == 65536

ASSUME ClockAssumption ==
    /\ Word \in Nat /\ Word >= U16
    /\ Trips \subseteq Nat /\ Waits \subseteq Nat \ {0}
    /\ Costs \subseteq Nat /\ Volleys \subseteq Nat /\ Crystals \subseteq Nat
    /\ "none" \notin Docks
    /\ Wounds \subseteq 0 .. 100 /\ Strains \subseteq Nat
    /\ Nothing \notin Systems
    /\ Horizon \in 0 .. 6000 /\ MaxOrders \in Nat

VARIABLES
    pc,             \* "command", "turn", "over"
    orders,         \* the turns taken, for the bound
    stardate, time_frac,
    energy, laser_heat,
    sys,            \* system -> its state of repair, in per cent
    repair_focus,
    life_reserve, docked, lost,
    charged         \* HISTORY: the hundredths charged to the clock

time  == <<stardate, time_frac, charged>>
power == <<energy, laser_heat>>
life  == <<life_reserve, lost>>
vars  == <<pc, orders, time, power, sys, repair_focus, life, docked>>

Least(a, b) == IF a < b THEN a ELSE b
Less(a, b)  == IF a > b THEN a - b ELSE 0

-----------------------------------------------------------------------------
(* trek_advance_time, part by part; t is the time elapsed, in tenths *)

Cooled(t) == Less(laser_heat, Least(t, 180) * COOL_TENTH)

\* gain is a uint16_t, and its product with the converter's state an int.
Gain(t) == ((((t * GAIN_TENTH) % U16) * sys["converter"]) % Word) \div 100

\* The converter tops up; it never drains.
ToppedUp(e, t) == IF e < ENERGY_MAX THEN Least(ENERGY_MAX, e + Gain(t)) ELSE e

\* d is the dock the clock finds the ship in.
Rate(d)      == IF d = "starbase" THEN 50 ELSE 20
FocusRate(d) == IF d = "starbase" THEN 100 ELSE 60
Crew(t)      == Least(t, 100)       \* rt: no more than ten stardates' work

\* What the focus has reached; above a hundred it is finished.
Focused(t, d) == sys[repair_focus] + (FocusRate(d) * Crew(t)) \div 10

\* Slip: the focus takes its share, and the time is everybody's.
LeftoverForAll(t, d) == Crew(t)

\* The time left for the others: all of it without a focus, none while it is
\* unfinished, and what the overshoot does not eat once it is done.
Leftover(t, d) ==
    IF repair_focus = Nothing THEN Crew(t)
    ELSE IF Focused(t, d) <= 100 THEN 0
    ELSE Less(Crew(t), (Focused(t, d) - 100) \div 10)

Repaired(t, d) ==
    [s \in Systems |->
        Least(100, (IF s = repair_focus THEN Least(100, Focused(t, d)) ELSE sys[s])
                   + (Rate(d) * Leftover(t, d)) \div 10)]

\* The routine up to the life support, on energy e; loss is what warp_strain
\* then takes off the warp engines.
Advance(t, e, d, loss) ==
    /\ stardate + t <= Horizon
    /\ stardate' = (stardate + t) % U16
    /\ energy' = ToppedUp(e, t)
    /\ sys' = [Repaired(t, d) EXCEPT !["warp"] = Less(@, loss)]
    /\ repair_focus' = IF repair_focus # Nothing /\ Focused(t, d) > 100
                       THEN Nothing ELSE repair_focus

\* Slip: life support is judged by its state before the repairs.
DrainUnrepaired(t, d) ==
    IF sys["life"] < DRAIN_BELOW /\ d = "none"
    THEN /\ life_reserve' = Less(life_reserve, t)
         /\ lost' = (lost \/ life_reserve < t)
    ELSE UNCHANGED life

\* Its end, after the repairs: the reserve runs down in the time that really
\* elapsed, and the ship is lost when it is short of it.
Drain(t, d) ==
    IF sys'["life"] < DRAIN_BELOW /\ d = "none"
    THEN /\ life_reserve' = Less(life_reserve, t)
         /\ lost' = (lost \/ life_reserve < t)
    ELSE UNCHANGED life

\* trek_advance_time.
Tenths(t) ==
    /\ Advance(t, energy, docked, 0)
    /\ laser_heat' = Cooled(t)
    /\ Drain(t, docked)
    /\ charged' = charged + 10 * t
    /\ UNCHANGED time_frac

\* advance_hundredths: whole tenths are charged, the rest is carried.
Whole(h) == (h + time_frac) \div 10

\* Slip: what a move leaves of a tenth is dropped.
CarryDropped(h) == time_frac' = 0 /\ charged' = charged + h

Carry(h) == time_frac' = (h + time_frac) % 10 /\ charged' = charged + h

-----------------------------------------------------------------------------
\* trek_new_game; the dates start at zero here.
Init ==
    /\ pc = "command" /\ orders = 0
    /\ stardate = 0 /\ time_frac = 0 /\ charged = 0
    /\ energy = ENERGY_MAX /\ laser_heat = 0
    /\ sys = [s \in Systems |-> 100] /\ repair_focus = Nothing
    /\ life_reserve = RESERVE_MAX /\ docked = "none" /\ lost = FALSE

Order ==
    /\ pc = "command" /\ pc' = "turn"
    /\ orders < MaxOrders /\ orders' = orders + 1

\* FIX with a wait, or the shuttle's round trip.
Wait(t) ==
    /\ Order
    /\ Tenths(t)
    /\ UNCHANGED docked

\* FIX, and the focus alone: no time, no turn.
Concentrate(s) ==
    /\ pc = "command"
    /\ repair_focus' = s
    /\ UNCHANGED <<pc, orders, time, power, sys, life, docked>>

\* trek_move_impulse, and a warp that is stopped in the quadrant it leaves,
\* which is paid for from the banks: the ship casts off, and then the clock is
\* charged.  A move stopped on its first step takes no time and does not cast
\* off, and a warp stopped there is billed for no distance; a move that ends in a
\* black hole may end in another quadrant.
Hop(h, cost) ==
    /\ Order
    /\ h = 0 => cost <= STANDING_BILL
    /\ LET left == IF h = 0 THEN docked ELSE "none"  t == Whole(h) IN
        /\ Advance(t, Less(energy, cost), left, 0)
        /\ Drain(t, left)
        /\ \/ laser_heat' = Cooled(t) /\ docked' = left
           \/ laser_heat' = 0 /\ docked' = "none"
    /\ Carry(h)

\* trek_move_warp, all the way: the clock is charged with the ship still in its
\* dock, and trek_enter_quadrant gives it up on arrival.
Warp(h, cost, loss) ==
    /\ Order
    /\ h > 0 /\ cost <= energy
    /\ Advance(Whole(h), energy - cost, docked, loss)
    /\ Drain(Whole(h), docked)
    /\ Carry(h)
    /\ laser_heat' = 0 /\ docked' = "none"

\* trek_dock: every base fills the reserve, a StarBase the banks, and the
\* tenth it takes is already spent alongside.
Dock(kind) ==
    /\ Order
    /\ docked = "none" /\ docked' = kind
    /\ Advance(1, IF kind = "starbase" /\ energy < ENERGY_MAX THEN ENERGY_MAX
                  ELSE energy, kind, 0)
    /\ laser_heat' = Cooled(1)
    /\ charged' = charged + 10
    /\ life_reserve' = RESERVE_MAX
    /\ UNCHANGED <<time_frac, lost>>

\* trek_life_replenish, allowed wherever the panel shows the reserve.
Replenish ==
    /\ Order
    /\ sys["life"] < PANEL_BELOW
    /\ life_reserve' = Least(RESERVE_MAX, life_reserve + RESERVE_ITEM)
    /\ UNCHANGED <<time, power, sys, repair_focus, docked, lost>>

\* trek_fire_laser, as far as the banks go.
Fire(volley) ==
    /\ Order
    /\ volley <= energy
    /\ energy' = energy - volley
    /\ laser_heat' = Least(HEAT_CAP, laser_heat + volley \div HEAT_PER_UNIT)
    /\ UNCHANGED <<time, sys, repair_focus, life, docked>>

\* trek_use_energium, on a good crystal: allowed on low banks only, and it may
\* leave them above their maximum.
Energium(gain) ==
    /\ Order
    /\ energy < ENERGY_MAX \div 5
    /\ energy' = energy + gain
    /\ UNCHANGED <<time, laser_heat, sys, repair_focus, life, docked>>

\* Hits, wear and spies, in the turn.
Suffer(s, left) ==
    /\ pc = "turn"
    /\ left < sys[s] /\ sys' = [sys EXCEPT ![s] = left]
    /\ UNCHANGED <<pc, orders, time, power, repair_focus, life, docked>>

\* trek_turn_end, and the question whether the game is over.
TurnEnd ==
    /\ pc = "turn"
    /\ laser_heat' = Less(laser_heat, COOL_TURN)
    /\ pc' = IF lost THEN "over" ELSE "command"
    /\ UNCHANGED <<orders, time, energy, sys, repair_focus, life, docked>>

NewGame ==
    /\ pc = "over" /\ pc' = "command" /\ orders' = 0
    /\ stardate' = 0 /\ time_frac' = 0 /\ charged' = 0
    /\ energy' = ENERGY_MAX /\ laser_heat' = 0
    /\ sys' = [s \in Systems |-> 100] /\ repair_focus' = Nothing
    /\ life_reserve' = RESERVE_MAX /\ docked' = "none" /\ lost' = FALSE

Next ==
    \/ \E t \in Waits : Wait(t)
    \/ \E s \in Systems : Concentrate(s)
    \/ \E h \in Trips, cost \in Costs \cup {0} : Hop(h, cost)
    \/ \E h \in Trips, cost \in Costs, loss \in Strains : Warp(h, cost, loss)
    \/ \E kind \in Docks : Dock(kind)
    \/ Replenish
    \/ \E volley \in Volleys : Fire(volley)
    \/ \E gain \in Crystals : Energium(gain)
    \/ \E s \in Systems, left \in Wounds : Suffer(s, left)
    \/ TurnEnd \/ NewGame

Spec == Init /\ [][Next]_vars

-----------------------------------------------------------------------------
(* Properties *)

\* Every gauge stays on its scale: no repair passes a hundred per cent, no
\* canister overfills the reserve.
TypeOK ==
    /\ pc \in {"command", "turn", "over"} /\ orders \in 0 .. MaxOrders
    /\ stardate \in 0 .. Horizon /\ time_frac \in 0 .. 9
    /\ energy \in Nat /\ laser_heat \in 0 .. HEAT_CAP
    /\ sys \in [Systems -> 0 .. 100]
    /\ repair_focus \in Systems \cup {Nothing}
    /\ life_reserve \in 0 .. RESERVE_MAX
    /\ docked \in Docks \cup {"none"}
    /\ lost \in BOOLEAN
    /\ charged \in Nat

\* "short hops" are not "free forever": what moves charge in hundredths is on
\* the clock, in tenths and time_frac, to the last one, however many moves,
\* docks and waits are mixed (advance_hundredths, trek_advance_time).
TimeConserved == 10 * stardate + time_frac = charged

\* "The converter tops up; it never drains": time alone takes no energy away,
\* not even what a crystal put above the maximum.
EnergyNeverConfiscated ==
    [][\A t \in Waits : Wait(t) => energy' >= energy]_vars

\* A focus that is still set when the clock stops has had all of the time: no
\* other system is better off than before.
FocusStarves ==
    [][repair_focus # Nothing /\ repair_focus' = repair_focus
         => \A s \in Systems \ {repair_focus} : sys'[s] <= sys[s]]_vars

\* Nobody dies of life support that was repaired in time, in a dock, or with
\* the reserve still lasting: whatever the crew were told to concentrate on.
LifeLossJustified ==
    [][~lost /\ lost' => /\ sys'["life"] < DRAIN_BELOW
                         /\ docked' = "none" /\ life_reserve' = 0]_vars

-----------------------------------------------------------------------------
(* What the comments and the tests say and the code does not do *)

\* "at full repair it is 400 per stardate" (core/test/test_trek.c), and in
\* proportion: what a wait brings does not depend on the width of an int.
ConverterDelivers ==
    [][\A t \in Waits : Wait(t) /\ energy < ENERGY_MAX =>
         energy' = Least(ENERGY_MAX,
                         energy + (t * GAIN_TENTH * sys["converter"]) \div 100)]_vars

=============================================================================
