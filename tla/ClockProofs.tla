----------------------------- MODULE ClockProofs -----------------------------
(***************************************************************************)
(* What module Clock promises whatever the orders, the docks, the wounds   *)
(* and the width of an int: every gauge stays on its scale, no time is     *)
(* lost, no energy is taken back, the focus gets all of the time, and      *)
(* life support kills only a crew it has failed.                           *)
(***************************************************************************)
EXTENDS Clock, TLAPS

CInv == TypeOK /\ TimeConserved

-----------------------------------------------------------------------------
(* The parts of trek_advance_time *)

\* The converter's product is a natural number, wrapped or not.
LEMMA GainType ==
    ASSUME NEW t \in Nat, sys \in [Systems -> 0 .. 100]
    PROVE  Gain(t) \in Nat
<1>1. sys["converter"] \in 0 .. 100
  BY DEF Systems
<1>2. (t * GAIN_TENTH) % U16 \in Nat
  BY DEF GAIN_TENTH, U16
<1>3. ((t * GAIN_TENTH) % U16) * sys["converter"] \in Nat
  BY <1>1, <1>2
<1>4. Word \in Nat /\ Word > 0
  BY ClockAssumption DEF ClockAssumption, U16
<1>5. (((t * GAIN_TENTH) % U16) * sys["converter"]) % Word \in Nat
  BY <1>3, <1>4
<1> QED
  BY <1>5 DEF Gain

\* A top-up adds, or does nothing.
LEMMA TopUpAdds ==
    ASSUME NEW t \in Nat, NEW e \in Nat, sys \in [Systems -> 0 .. 100]
    PROVE  ToppedUp(e, t) \in Nat /\ ToppedUp(e, t) >= e
  BY GainType DEF ToppedUp, Least, ENERGY_MAX

\* The time the focus leaves is a natural number.
LEMMA LeftoverType ==
    ASSUME NEW t \in Nat, NEW d, sys \in [Systems -> 0 .. 100],
           repair_focus \in Systems \cup {Nothing}
    PROVE  Leftover(t, d) \in Nat
<1>1. Crew(t) \in Nat
  BY DEF Crew, Least
<1>2. CASE repair_focus = Nothing
  BY <1>1, <1>2 DEF Leftover
<1>3. CASE repair_focus \in Systems
  <2>1. Focused(t, d) \in Nat
    BY <1>1, <1>3 DEF Focused, FocusRate
  <2> QED
    BY <1>1, <1>3, <2>1 DEF Leftover, Less
<1> QED
  BY <1>2, <1>3

\* What the crew do with it never passes a hundred per cent.
LEMMA RepairedType ==
    ASSUME NEW t \in Nat, NEW d, sys \in [Systems -> 0 .. 100],
           repair_focus \in Systems \cup {Nothing}
    PROVE  Repaired(t, d) \in [Systems -> 0 .. 100]
<1> SUFFICES ASSUME NEW s \in Systems PROVE Repaired(t, d)[s] \in 0 .. 100
  BY DEF Repaired
<1>1. (Rate(d) * Leftover(t, d)) \div 10 \in Nat
  BY LeftoverType DEF Rate
<1>2. ASSUME s = repair_focus PROVE Least(100, Focused(t, d)) \in 0 .. 100
  <2>1. Crew(t) \in Nat /\ sys[repair_focus] \in 0 .. 100
    BY <1>2 DEF Crew, Least
  <2>2. Focused(t, d) \in Nat
    BY <2>1 DEF Focused, FocusRate
  <2> QED
    BY <2>2 DEF Least
<1>3. (IF s = repair_focus THEN Least(100, Focused(t, d)) ELSE sys[s]) \in 0 .. 100
  BY <1>2
<1> QED
  BY <1>1, <1>3, SMTT(60) DEF Repaired, Least

LEMMA AdvanceType ==
    ASSUME TypeOK, NEW t \in Nat, NEW e \in Nat, NEW d, NEW loss \in Nat,
           Advance(t, e, d, loss)
    PROVE  /\ stardate' = stardate + t /\ stardate' \in 0 .. Horizon
           /\ energy' \in Nat /\ energy' >= e
           /\ sys' \in [Systems -> 0 .. 100]
           /\ repair_focus' \in Systems \cup {Nothing}
<1> USE DEF TypeOK, Advance
<1>1. stardate' = stardate + t /\ stardate' \in 0 .. Horizon
  BY ClockAssumption DEF ClockAssumption, U16
<1>2. energy' \in Nat /\ energy' >= e
  BY TopUpAdds
<1>3. sys' \in [Systems -> 0 .. 100]
  <2>1. Repaired(t, d) \in [Systems -> 0 .. 100]
    BY RepairedType
  <2>2. Less(Repaired(t, d)["warp"], loss) \in 0 .. 100
    BY <2>1 DEF Less, Systems
  <2> QED
    BY <2>1, <2>2
<1>4. repair_focus' \in Systems \cup {Nothing}
  OBVIOUS
<1> QED
  BY <1>1, <1>2, <1>3, <1>4

\* The reserve only falls, and the ship is lost on an empty one.
LEMMA DrainType ==
    ASSUME TypeOK, NEW t \in Nat, NEW d, Drain(t, d)
    PROVE  life_reserve' \in 0 .. RESERVE_MAX /\ lost' \in BOOLEAN
<1>1. life_reserve' \in 0 .. RESERVE_MAX
  BY DEF TypeOK, Drain, Less, life, RESERVE_MAX
<1>2. lost' \in BOOLEAN
  BY Zenon DEF TypeOK, Drain, life
<1> QED
  BY <1>1, <1>2

\* Whole tenths and the carry make up what a move takes and what was carried.
LEMMA CarryExact ==
    ASSUME NEW h \in Nat, time_frac \in 0 .. 9
    PROVE  /\ Whole(h) \in Nat
           /\ (h + time_frac) % 10 \in 0 .. 9
           /\ 10 * Whole(h) + ((h + time_frac) % 10) = h + time_frac
  BY DEF Whole

LEMMA CooledType ==
    ASSUME TypeOK, NEW t \in Nat
    PROVE  Cooled(t) \in 0 .. HEAT_CAP
<1>1. Least(t, 180) * COOL_TENTH \in Nat
  BY DEF Least, COOL_TENTH
<1>2. laser_heat \in 0 .. HEAT_CAP /\ HEAT_CAP \in Nat
  BY DEF TypeOK, HEAT_CAP
<1> QED
  BY <1>1, <1>2 DEF Cooled, Less
-----------------------------------------------------------------------------
(* The inductive invariant *)

LEMMA InitInvariant == Init => CInv
<1> SUFFICES ASSUME Init PROVE CInv
  OBVIOUS
<1>1. Horizon \in Nat /\ MaxOrders \in Nat
  BY ClockAssumption DEF ClockAssumption
<1>2. TypeOK
  <2>1. /\ pc \in {"command", "turn", "over"} /\ orders \in 0 .. MaxOrders
        /\ stardate \in 0 .. Horizon /\ time_frac \in 0 .. 9
        /\ energy \in Nat /\ laser_heat \in 0 .. HEAT_CAP
        /\ life_reserve \in 0 .. RESERVE_MAX /\ charged \in Nat
    BY <1>1 DEF Init, ENERGY_MAX, HEAT_CAP, RESERVE_MAX
  <2>2. sys \in [Systems -> 0 .. 100]
    BY DEF Init
  <2>3. /\ repair_focus \in Systems \cup {Nothing}
        /\ docked \in Docks \cup {"none"} /\ lost \in BOOLEAN
    BY DEF Init
  <2> QED
    BY <2>1, <2>2, <2>3 DEF TypeOK
<1>3. TimeConserved
  BY DEF Init, TimeConserved
<1> QED
  BY <1>2, <1>3 DEF CInv

LEMMA OrderType ==
    ASSUME TypeOK, Order
    PROVE  pc' \in {"command", "turn", "over"} /\ orders' \in 0 .. MaxOrders
  BY ClockAssumption DEF ClockAssumption, TypeOK, Order

LEMMA WaitInvariant ==
    ASSUME CInv, NEW t \in Waits, Wait(t)
    PROVE  CInv'
<1>1. t \in Nat
  BY ClockAssumption DEF ClockAssumption
<1> USE <1>1 DEF CInv, Wait, Tenths
<1>2. pc' \in {"command", "turn", "over"} /\ orders' \in 0 .. MaxOrders
  BY OrderType
<1>3. /\ stardate' = stardate + t /\ stardate' \in 0 .. Horizon
      /\ energy' \in Nat /\ sys' \in [Systems -> 0 .. 100]
      /\ repair_focus' \in Systems \cup {Nothing}
  <2>1. energy \in Nat /\ Advance(t, energy, docked, 0)
    BY DEF TypeOK
  <2> QED
    BY <2>1, AdvanceType
<1>4. laser_heat' \in 0 .. HEAT_CAP
  BY CooledType
<1>5. life_reserve' \in 0 .. RESERVE_MAX /\ lost' \in BOOLEAN
  BY DrainType
<1>6. docked' = docked /\ time_frac' = time_frac /\ charged' = charged + 10 * t
  OBVIOUS
<1>7. TimeConserved'
  BY <1>3, <1>6 DEF TimeConserved, TypeOK
<1>8. charged' \in Nat
  BY <1>6 DEF TypeOK
<1> QED
  BY <1>2, <1>3, <1>4, <1>5, <1>6, <1>7, <1>8 DEF TypeOK

\* A move: whatever it costs and wherever it leaves from, its hundredths are on
\* the clock and in the carry.
LEMMA MoveTime ==
    ASSUME CInv, NEW h \in Nat, Carry(h), stardate' = stardate + Whole(h)
    PROVE  TimeConserved' /\ time_frac' \in 0 .. 9 /\ charged' \in Nat
<1>1. /\ time_frac \in 0 .. 9 /\ stardate \in Nat /\ charged \in Nat
      /\ 10 * stardate + time_frac = charged
  BY ClockAssumption DEF ClockAssumption, CInv, TypeOK, TimeConserved
<1>2. time_frac' = (h + time_frac) % 10 /\ charged' = charged + h
  BY DEF Carry
<1>3. /\ Whole(h) \in Nat /\ time_frac' \in 0 .. 9
      /\ 10 * Whole(h) + time_frac' = h + time_frac
  BY <1>1, <1>2, CarryExact
<1>4. 10 * stardate' = 10 * stardate + 10 * Whole(h)
  BY <1>1, <1>3
<1> QED
  BY <1>1, <1>2, <1>3, <1>4 DEF TimeConserved

LEMMA HopInvariant ==
    ASSUME CInv, NEW h \in Trips, NEW cost \in Costs \cup {0}, Hop(h, cost)
    PROVE  CInv'
<1> DEFINE left == IF h = 0 THEN docked ELSE "none"
           t    == Whole(h)
<1>1. h \in Nat /\ cost \in Nat /\ t \in Nat
  <2>1. h \in Nat /\ cost \in Nat
    BY ClockAssumption DEF ClockAssumption
  <2> QED
    BY <2>1, CarryExact DEF CInv, TypeOK
<1>2. /\ Order /\ Carry(h)
      /\ Advance(t, Less(energy, cost), left, 0) /\ Drain(t, left)
      /\ \/ laser_heat' = Cooled(t) /\ docked' = left
         \/ laser_heat' = 0 /\ docked' = "none"
  BY DEF Hop
<1>3. Less(energy, cost) \in Nat
  BY <1>1 DEF CInv, TypeOK, Less
<1> HIDE DEF t
<1>4. pc' \in {"command", "turn", "over"} /\ orders' \in 0 .. MaxOrders
  BY <1>2, OrderType DEF CInv
<1>5. /\ stardate' = stardate + t /\ stardate' \in 0 .. Horizon
      /\ energy' \in Nat /\ sys' \in [Systems -> 0 .. 100]
      /\ repair_focus' \in Systems \cup {Nothing}
  BY <1>1, <1>2, <1>3, AdvanceType DEF CInv
<1>6. life_reserve' \in 0 .. RESERVE_MAX /\ lost' \in BOOLEAN
  BY <1>1, <1>2, DrainType DEF CInv
<1>7. laser_heat' \in 0 .. HEAT_CAP
  BY <1>1, <1>2, CooledType DEF CInv, HEAT_CAP
<1>8. docked' \in Docks \cup {"none"}
  BY <1>2 DEF CInv, TypeOK
<1>9. TimeConserved' /\ time_frac' \in 0 .. 9 /\ charged' \in Nat
  BY <1>1, <1>2, <1>5, MoveTime DEF t
<1> QED
  BY <1>4, <1>5, <1>6, <1>7, <1>8, <1>9 DEF CInv, TypeOK

LEMMA WarpInvariant ==
    ASSUME CInv, NEW h \in Trips, NEW cost \in Costs, NEW loss \in Strains,
           Warp(h, cost, loss)
    PROVE  CInv'
<1> DEFINE t == Whole(h)
<1>1. h \in Nat /\ cost \in Nat /\ loss \in Nat /\ t \in Nat
  <2>1. h \in Nat /\ cost \in Nat /\ loss \in Nat
    BY ClockAssumption DEF ClockAssumption
  <2> QED
    BY <2>1, CarryExact DEF CInv, TypeOK
<1>2. /\ Order /\ Carry(h) /\ cost <= energy
      /\ Advance(t, energy - cost, docked, loss) /\ Drain(t, docked)
      /\ laser_heat' = 0 /\ docked' = "none"
  BY DEF Warp
<1>3. energy - cost \in Nat
  BY <1>1, <1>2 DEF CInv, TypeOK
<1> HIDE DEF t
<1>4. pc' \in {"command", "turn", "over"} /\ orders' \in 0 .. MaxOrders
  BY <1>2, OrderType DEF CInv
<1>5. /\ stardate' = stardate + t /\ stardate' \in 0 .. Horizon
      /\ energy' \in Nat /\ sys' \in [Systems -> 0 .. 100]
      /\ repair_focus' \in Systems \cup {Nothing}
  BY <1>1, <1>2, <1>3, AdvanceType DEF CInv
<1>6. life_reserve' \in 0 .. RESERVE_MAX /\ lost' \in BOOLEAN
  BY <1>1, <1>2, DrainType DEF CInv
<1>7. laser_heat' \in 0 .. HEAT_CAP /\ docked' \in Docks \cup {"none"}
  BY <1>2 DEF HEAT_CAP
<1>8. TimeConserved' /\ time_frac' \in 0 .. 9 /\ charged' \in Nat
  BY <1>1, <1>2, <1>5, MoveTime DEF t
<1> QED
  BY <1>4, <1>5, <1>6, <1>7, <1>8 DEF CInv, TypeOK

LEMMA DockInvariant ==
    ASSUME CInv, NEW kind \in Docks, Dock(kind)
    PROVE  CInv'
<1> DEFINE e == IF kind = "starbase" /\ energy < ENERGY_MAX THEN ENERGY_MAX
                ELSE energy
<1>1. /\ Order /\ docked' = kind /\ Advance(1, e, kind, 0)
      /\ laser_heat' = Cooled(1) /\ charged' = charged + 10
      /\ life_reserve' = RESERVE_MAX /\ time_frac' = time_frac /\ lost' = lost
  BY DEF Dock
<1>2. e \in Nat
  BY DEF CInv, TypeOK, ENERGY_MAX
<1> HIDE DEF e
<1>3. pc' \in {"command", "turn", "over"} /\ orders' \in 0 .. MaxOrders
  BY <1>1, OrderType DEF CInv
<1>4. /\ stardate' = stardate + 1 /\ stardate' \in 0 .. Horizon
      /\ energy' \in Nat /\ sys' \in [Systems -> 0 .. 100]
      /\ repair_focus' \in Systems \cup {Nothing}
  BY <1>1, <1>2, AdvanceType DEF CInv
<1>5. laser_heat' \in 0 .. HEAT_CAP
  BY <1>1, CooledType DEF CInv
<1>6. TimeConserved' /\ charged' \in Nat
  BY <1>1, <1>4 DEF CInv, TypeOK, TimeConserved
<1>7. life_reserve' \in 0 .. RESERVE_MAX
  BY <1>1 DEF RESERVE_MAX
<1>8. lost' \in BOOLEAN
  BY <1>1 DEF CInv, TypeOK
<1>9. docked' \in Docks \cup {"none"} /\ time_frac' \in 0 .. 9
  BY <1>1 DEF CInv, TypeOK
<1> QED
  BY <1>3, <1>4, <1>5, <1>6, <1>7, <1>8, <1>9 DEF CInv, TypeOK

\* The orders that take no time, and the turn.
LEMMA TimelessInvariant ==
    ASSUME CInv,
           \/ Replenish \/ TurnEnd \/ NewGame
           \/ \E s \in Systems : Concentrate(s)
           \/ \E volley \in Volleys : Fire(volley)
           \/ \E gain \in Crystals : Energium(gain)
           \/ \E s \in Systems, left \in Wounds : Suffer(s, left)
    PROVE  CInv'
<1> USE DEF CInv, TypeOK, TimeConserved, time, power, life,
            RESERVE_MAX, HEAT_CAP
<1>1. CASE Replenish
  BY <1>1, OrderType DEF Replenish, Least, RESERVE_ITEM
<1>2. CASE TurnEnd
  BY <1>2 DEF TurnEnd, Less, COOL_TURN
<1>3. CASE NewGame
  <2>1. Horizon \in Nat /\ MaxOrders \in Nat
    BY ClockAssumption DEF ClockAssumption
  <2>2. sys' \in [Systems -> 0 .. 100]
    BY <1>3 DEF NewGame
  <2>3. /\ pc' \in {"command", "turn", "over"} /\ orders' \in 0 .. MaxOrders
        /\ stardate' \in 0 .. Horizon /\ time_frac' \in 0 .. 9
        /\ energy' \in Nat /\ laser_heat' \in 0 .. HEAT_CAP
        /\ life_reserve' \in 0 .. RESERVE_MAX /\ charged' \in Nat
        /\ 10 * stardate' + time_frac' = charged'
    BY <1>3, <2>1 DEF NewGame, ENERGY_MAX
  <2>4. /\ repair_focus' \in Systems \cup {Nothing}
        /\ docked' \in Docks \cup {"none"} /\ lost' \in BOOLEAN
    BY <1>3 DEF NewGame
  <2> QED
    BY <2>2, <2>3, <2>4
<1>4. ASSUME NEW s \in Systems, Concentrate(s) PROVE CInv'
  BY <1>4 DEF Concentrate
<1>5. ASSUME NEW volley \in Volleys, Fire(volley) PROVE CInv'
  <2>1. volley \in Nat /\ energy' \in Nat
    BY <1>5, ClockAssumption DEF ClockAssumption, Fire
  <2>2. laser_heat' \in 0 .. HEAT_CAP
    BY <1>5, <2>1 DEF Fire, Least, HEAT_PER_UNIT
  <2> QED
    BY <1>5, <2>1, <2>2, OrderType DEF Fire
<1>6. ASSUME NEW gain \in Crystals, Energium(gain) PROVE CInv'
  <2>1. energy' \in Nat
    BY <1>6, ClockAssumption DEF ClockAssumption, Energium
  <2> QED
    BY <1>6, <2>1, OrderType DEF Energium
<1>7. ASSUME NEW s \in Systems, NEW left \in Wounds, Suffer(s, left) PROVE CInv'
  <2>1. left \in 0 .. 100
    BY ClockAssumption DEF ClockAssumption
  <2> QED
    BY <1>7, <2>1 DEF Suffer
<1> QED
  BY <1>1, <1>2, <1>3, <1>4, <1>5, <1>6, <1>7

LEMMA NextInvariant == CInv /\ [Next]_vars => CInv'
<1> SUFFICES ASSUME CInv, [Next]_vars PROVE CInv'
  OBVIOUS
<1>1. ASSUME NEW t \in Waits, Wait(t) PROVE CInv'
  BY <1>1, WaitInvariant
<1>2. ASSUME NEW h \in Trips, NEW cost \in Costs \cup {0}, Hop(h, cost)
      PROVE  CInv'
  BY <1>2, HopInvariant
<1>3. ASSUME NEW h \in Trips, NEW cost \in Costs, NEW loss \in Strains,
             Warp(h, cost, loss)
      PROVE  CInv'
  BY <1>3, WarpInvariant
<1>4. ASSUME NEW kind \in Docks, Dock(kind) PROVE CInv'
  BY <1>4, DockInvariant
<1>5. CASE UNCHANGED vars
  BY <1>5 DEF vars, time, power, life, CInv, TypeOK, TimeConserved
<1> QED
  BY <1>1, <1>2, <1>3, <1>4, <1>5, TimelessInvariant DEF Next

LEMMA Invariant == Spec => []CInv
  BY InitInvariant, NextInvariant, PTL DEF Spec

-----------------------------------------------------------------------------
(* What follows from it *)

\* Every gauge stays on its scale, for any wounds, strains and orders.
THEOREM TypeCorrect == Spec => []TypeOK
<1>1. CInv => TypeOK
  BY DEF CInv
<1> QED
  BY <1>1, Invariant, PTL

\* Every hundredth a move, a dock or a wait asked for is on the clock or in
\* time_frac (advance_hundredths), for moves of any length.
THEOREM NoTimeIsLost == Spec => []TimeConserved
<1>1. CInv => TimeConserved
  BY DEF CInv
<1> QED
  BY <1>1, Invariant, PTL

\* No wait takes energy away, whatever the width of an int does to the
\* converter's product (trek_advance_time).
THEOREM EnergyIsKept == Spec => EnergyNeverConfiscated
<1>1. CInv /\ [Next]_vars
        => [\A t \in Waits : Wait(t) => energy' >= energy]_vars
  <2> SUFFICES ASSUME CInv, NEW t \in Waits, Wait(t) PROVE energy' >= energy
    OBVIOUS
  <2>1. t \in Nat /\ energy \in Nat /\ TypeOK
    BY ClockAssumption DEF ClockAssumption, CInv, TypeOK
  <2> QED
    BY <2>1, AdvanceType DEF Wait, Tenths
<1> QED
  BY <1>1, Invariant, PTL DEF Spec, EnergyNeverConfiscated

\* A focus that outlives the call leaves nothing for the other systems.
LEMMA FocusTakesAll ==
    ASSUME TypeOK, NEW t \in Nat, NEW e, NEW d, NEW loss \in Nat,
           Advance(t, e, d, loss),
           repair_focus # Nothing, repair_focus' = repair_focus,
           NEW s \in Systems, s # repair_focus
    PROVE  sys'[s] <= sys[s]
<1>1. repair_focus \in Systems /\ sys \in [Systems -> 0 .. 100]
  BY DEF TypeOK
<1>2. Focused(t, d) \in Nat
  <2>1. Crew(t) \in Nat /\ sys[repair_focus] \in 0 .. 100
    BY <1>1 DEF Crew, Least
  <2> QED
    BY <2>1 DEF Focused, FocusRate
<1>3. Focused(t, d) <= 100
  BY <1>2 DEF Advance
<1>4. Leftover(t, d) = 0
  BY <1>3 DEF Leftover
<1>5. (Rate(d) * Leftover(t, d)) \div 10 = 0
  BY <1>4 DEF Rate
<1>6. Repaired(t, d)[s] = sys[s]
  BY <1>1, <1>5 DEF Repaired, Least
<1>7. \/ sys'[s] = Repaired(t, d)[s]
      \/ sys'[s] = Less(Repaired(t, d)[s], loss)
  BY DEF Advance, Repaired
<1> QED
  BY <1>1, <1>6, <1>7 DEF Less

\* As long as the focus stands, every other system is where it was or worse:
\* a crew told to concentrate does (trek_advance_time, its callers, and
\* everything that damages a system).
THEOREM FocusGetsAll == Spec => FocusStarves
<1>1. CInv /\ [Next]_vars
        => [repair_focus # Nothing /\ repair_focus' = repair_focus
              => \A s \in Systems \ {repair_focus} : sys'[s] <= sys[s]]_vars
  <2> SUFFICES ASSUME CInv, Next, repair_focus # Nothing,
                      repair_focus' = repair_focus,
                      NEW s \in Systems \ {repair_focus}
               PROVE  sys'[s] <= sys[s]
    OBVIOUS
  <2>1. TypeOK /\ energy \in Nat /\ sys \in [Systems -> 0 .. 100]
    BY DEF CInv, TypeOK
  <2>2. ASSUME NEW t \in Waits, Wait(t) PROVE sys'[s] <= sys[s]
    <3>1. t \in Nat /\ Advance(t, energy, docked, 0)
      BY <2>2, ClockAssumption DEF ClockAssumption, Wait, Tenths
    <3> QED
      BY <2>1, <3>1, FocusTakesAll
  <2>3. ASSUME NEW h \in Trips, NEW cost \in Costs \cup {0}, Hop(h, cost)
        PROVE  sys'[s] <= sys[s]
    <3>1. Whole(h) \in Nat
      BY <2>1, CarryExact, ClockAssumption DEF ClockAssumption, TypeOK
    <3>2. PICK d : Advance(Whole(h), Less(energy, cost), d, 0)
      BY <2>3 DEF Hop
    <3> QED
      BY <2>1, <3>1, <3>2, FocusTakesAll
  <2>4. ASSUME NEW h \in Trips, NEW cost \in Costs, NEW loss \in Strains,
               Warp(h, cost, loss)
        PROVE  sys'[s] <= sys[s]
    <3>1. Whole(h) \in Nat /\ loss \in Nat
      BY <2>1, CarryExact, ClockAssumption DEF ClockAssumption, TypeOK
    <3>2. Advance(Whole(h), energy - cost, docked, loss)
      BY <2>4 DEF Warp
    <3> QED
      BY <2>1, <3>1, <3>2, FocusTakesAll
  <2>5. ASSUME NEW kind \in Docks, Dock(kind) PROVE sys'[s] <= sys[s]
    <3>1. PICK e : Advance(1, e, kind, 0)
      BY <2>5 DEF Dock
    <3> QED
      BY <2>1, <3>1, FocusTakesAll
  <2>6. ASSUME NEW r \in Systems, NEW left \in Wounds, Suffer(r, left)
        PROVE  sys'[s] <= sys[s]
    BY <2>1, <2>6, ClockAssumption DEF ClockAssumption, Suffer
  <2>7. CASE NewGame
    BY <2>7 DEF NewGame
  <2>8. CASE sys' = sys
    BY <2>1, <2>8
  <2>9. \/ (\E r \in Systems : Concentrate(r)) \/ Replenish \/ TurnEnd
        \/ \E volley \in Volleys : Fire(volley)
        \/ \E gain \in Crystals : Energium(gain)
        => sys' = sys
    BY DEF Concentrate, Replenish, TurnEnd, Fire, Energium
  <2> QED
    BY <2>2, <2>3, <2>4, <2>5, <2>6, <2>7, <2>8, <2>9 DEF Next
<1> QED
  BY <1>1, Invariant, PTL DEF Spec, FocusStarves

\* The ship is lost in a drain only on an empty reserve, with life support out
\* and no dock to feed it.
LEMMA DrainKills ==
    ASSUME TypeOK, NEW t \in Nat, NEW d, Drain(t, d), ~lost, lost'
    PROVE  sys'["life"] < DRAIN_BELOW /\ d = "none" /\ life_reserve' = 0
<1>1. sys'["life"] < DRAIN_BELOW /\ d = "none" /\ life_reserve < t
  BY DEF Drain, life
<1>2. life_reserve' = Less(life_reserve, t)
  BY <1>1 DEF Drain
<1> QED
  BY <1>1, <1>2 DEF Less, TypeOK, RESERVE_MAX

\* Nobody dies of life support that was mended in time, fed by a dock, or
\* still had its reserve (trek_advance_time, in a wait and in every move).
THEOREM LifeLossesJustified == Spec => LifeLossJustified
<1>1. CInv /\ [Next]_vars
        => [~lost /\ lost' => /\ sys'["life"] < DRAIN_BELOW
                              /\ docked' = "none" /\ life_reserve' = 0]_vars
  <2> SUFFICES ASSUME CInv, Next, ~lost, lost'
               PROVE  /\ sys'["life"] < DRAIN_BELOW
                      /\ docked' = "none" /\ life_reserve' = 0
    OBVIOUS
  <2> DEFINE Goal == /\ sys'["life"] < DRAIN_BELOW
                     /\ docked' = "none" /\ life_reserve' = 0
  <2>1. TypeOK
    BY DEF CInv
  <2>2. ASSUME NEW t \in Waits, Wait(t) PROVE Goal
    <3>1. t \in Nat /\ Drain(t, docked) /\ docked' = docked
      BY <2>2, ClockAssumption DEF ClockAssumption, Wait, Tenths
    <3> QED
      BY <2>1, <3>1, DrainKills
  <2>3. ASSUME NEW h \in Trips, NEW cost \in Costs \cup {0}, Hop(h, cost)
        PROVE  Goal
    <3>1. Whole(h) \in Nat
      BY <2>1, CarryExact, ClockAssumption DEF ClockAssumption, TypeOK
    <3>2. PICK d : Drain(Whole(h), d) /\ docked' \in {d, "none"}
      BY <2>3 DEF Hop
    <3> QED
      BY <2>1, <3>1, <3>2, DrainKills
  <2>4. ASSUME NEW h \in Trips, NEW cost \in Costs, NEW loss \in Strains,
               Warp(h, cost, loss)
        PROVE  Goal
    <3>1. Whole(h) \in Nat /\ Drain(Whole(h), docked) /\ docked' = "none"
      BY <2>1, <2>4, CarryExact, ClockAssumption
         DEF ClockAssumption, TypeOK, Warp
    <3> QED
      BY <2>1, <3>1, DrainKills
  <2>5. \/ \E kind \in Docks : Dock(kind)
        \/ \E r \in Systems : Concentrate(r)
        \/ \E volley \in Volleys : Fire(volley)
        \/ \E gain \in Crystals : Energium(gain)
        \/ \E r \in Systems, left \in Wounds : Suffer(r, left)
        \/ Replenish \/ TurnEnd \/ NewGame
        => Goal
    BY Zenon DEF Dock, Concentrate, Fire, Energium, Suffer, Replenish, TurnEnd,
             NewGame, life
  <2> QED
    BY <2>2, <2>3, <2>4, <2>5 DEF Next
<1> QED
  BY <1>1, Invariant, PTL DEF Spec, LifeLossJustified

=============================================================================
