---------------------------- MODULE PlanetsProofs ----------------------------
(* Proofs about Planets, for every galaxy, every grid and every yield of a  *)
(* crystal.                                                                 *)
EXTENDS Planets, TLAPS

-----------------------------------------------------------------------------
(* The invariant, part by part. *)

World == [quad : Quads, sec : Cells, find : Finds, flags : SUBSET Flags]

GalaxyOK ==
    /\ planets \in [Worlds -> World]
    /\ nova \subseteq Quads /\ quad \in Quads /\ cell \in Cells
    /\ orbiting \in Worlds \cup {NONE}
    /\ rescues \in Nat /\ given \subseteq Worlds

ClockOK ==
    /\ stardate \in 0 .. MaxDate /\ distress \in Calls \cup {SCHED_NEVER}
    /\ planet_evac_end \in Nat

PoolOK ==
    /\ \E top \in Banked : pool.main \in 0 .. top
    /\ pool \in [main : Nat, impulse : 0 .. IMPULSE_MAX, shields : 0 .. SHIELD_MAX]
    /\ told \in Nat

GoodsOK == inventory \in [Items -> 0 .. ITEM_CAP]

SwitchesOK ==
    shields_up \in BOOLEAN /\ plasma_shield \in BOOLEAN /\ turn \in BOOLEAN /\ lost \in BOOLEAN

LEMMA TypeParts == TypeOK <=> GalaxyOK /\ ClockOK /\ PoolOK /\ GoodsOK /\ SwitchesOK
  BY Zenon DEF TypeOK, GalaxyOK, ClockOK, PoolOK, GoodsOK, SwitchesOK, World

\* A date is given at the call, and the call comes once.
CalledOnce == planet_evac_end # SCHED_NEVER => distress = SCHED_NEVER

\* What has given is spent, and settlers are left there only if it is too late.
Spent1 == \A i \in given : /\ "TAKEN" \in planets[i].flags
                           /\ "SETTLED" \in planets[i].flags => SettlementLost

\* The settlers are on the last energium world, until they are off or it burns.
SettlersAtHome ==
    \A i \in Worlds : "SETTLED" \in planets[i].flags
                         <=> i \in Home /\ planets[i].quad \notin nova /\ rescues = 0

Inv == /\ GalaxyOK /\ ClockOK /\ PoolOK /\ GoodsOK /\ SwitchesOK
       /\ OrbitIsReal /\ CalledOnce /\ Spent1 /\ SettlersAtHome

\* Steps that leave every world and every gift alone.
Aside == UNCHANGED <<galaxy, rescues, given>>

LEMMA Constants ==
    /\ MaxDate \in Nat /\ SCHED_NEVER \in Nat /\ MaxDate < SCHED_NEVER
    /\ SHUTTLE_TENTHS \in Nat /\ Warnings \subseteq Nat /\ Calls \subseteq Nat
    /\ ENERGY_MAX \in Nat /\ IMPULSE_MAX \in Nat /\ SHIELD_MAX \in Nat
    /\ ENERGIUM_BELOW \in 0 .. ENERGY_MAX
    /\ EnergyGains \subseteq Nat /\ ShieldGains \subseteq Nat
    /\ DefectLosses \subseteq Nat /\ Hits \subseteq Nat
    /\ ITEM_CAP \in Nat /\ ITEM_CAP >= 2
    /\ NONE \notin Worlds /\ Cells \subseteq Nat
    /\ \A d \in 0 .. MaxDate, w \in Warnings : d + w < SCHED_NEVER
  BY PlanetsAssumption DEF PlanetsAssumption, NONE, Worlds

-----------------------------------------------------------------------------
(* The banks. *)

\* Every pool above the ceiling is one crystal above the regulations.
LEMMA Banking ==
    /\ ENERGY_MAX \in Banked
    /\ \A e \in EnergyGains : ENERGIUM_BELOW - 1 + e \in Banked
    /\ Banked \subseteq Int
  BY Constants DEF Banked

LEMMA Lessens ==
    ASSUME NEW a \in Nat, NEW b \in Nat
    PROVE  Less(a, b) \in 0 .. a /\ LeastOf(a, b) \in 0 .. b
  BY DEF Less, LeastOf

LEMMA MainFalls ==
    ASSUME PoolOK, pool'.main \in 0 .. pool.main, pool'.impulse \in 0 .. IMPULSE_MAX,
           pool'.shields \in 0 .. SHIELD_MAX,
           pool' = [main |-> pool'.main, impulse |-> pool'.impulse, shields |-> pool'.shields],
           told' \in Nat
    PROVE  PoolOK'
<1>1. PICK top \in Banked : pool.main \in 0 .. top
  BY DEF PoolOK
<1>2. pool'.main \in 0 .. top /\ pool'.main \in Nat
  BY <1>1, Banking DEF PoolOK
<1>3. pool' \in [main : Nat, impulse : 0 .. IMPULSE_MAX, shields : 0 .. SHIELD_MAX]
  BY <1>2
<1>4. Banked' = Banked
  BY DEF Banked
<1> QED BY <1>2, <1>3, <1>4 DEF PoolOK

\* The pools by name, and a change to one of them.
LEMMA PoolFields ==
    ASSUME PoolOK
    PROVE  /\ pool.main \in Nat /\ pool.impulse \in 0 .. IMPULSE_MAX
           /\ pool.shields \in 0 .. SHIELD_MAX
           /\ pool = [main |-> pool.main, impulse |-> pool.impulse, shields |-> pool.shields]
           /\ DOMAIN pool = Pools
  BY DEF PoolOK, Pools

\* trek_divert, whatever the two pools.
LEMMA DivertHolds ==
    ASSUME PoolOK, NEW from \in Pools, NEW to \in Pools, from # to,
           NEW amount \in Nat, Divert(from, to, amount)
    PROVE  PoolOK' /\ told' <= Less(Total(pool), Total(pool'))
<1> DEFINE room == Less(PoolMax(to), pool[to])
           filled == IF amount > room THEN PoolMax(to) ELSE pool[to] + amount
<1>1. /\ pool' = [pool EXCEPT ![to] = filled, ![from] = @ - amount]
      /\ amount <= pool[from] /\ told' = Less(amount, room)
  BY DEF Divert
<1>2. /\ pool.main \in Nat /\ pool.impulse \in 0 .. IMPULSE_MAX
      /\ pool.shields \in 0 .. SHIELD_MAX /\ DOMAIN pool = Pools
      /\ pool = [main |-> pool.main, impulse |-> pool.impulse, shields |-> pool.shields]
  BY PoolFields
<1>3. PoolMax(to) \in Nat /\ pool[to] \in Nat /\ pool[from] \in Nat /\ room \in Nat
  BY <1>2, Constants DEF Pools, PoolMax, Less
<1>4. /\ filled <= PoolMax(to) \/ filled = pool[to]
      /\ filled \in Nat /\ pool[from] - amount \in 0 .. pool[from]
      /\ told' \in Nat
      /\ told' <= pool[to] + amount - filled
  BY <1>1, <1>3 DEF Less
<1> HIDE DEF filled
<1>5. /\ pool'.main = IF to = "main" THEN filled
                      ELSE IF from = "main" THEN pool.main - amount ELSE pool.main
      /\ pool'.impulse = IF to = "impulse" THEN filled
                         ELSE IF from = "impulse" THEN pool.impulse - amount ELSE pool.impulse
      /\ pool'.shields = IF to = "shields" THEN filled
                         ELSE IF from = "shields" THEN pool.shields - amount ELSE pool.shields
      /\ pool' = [main |-> pool'.main, impulse |-> pool'.impulse, shields |-> pool'.shields]
  <2>1. CASE to = "main" /\ from = "impulse"
    BY <1>1, <1>2, <2>1
  <2>2. CASE to = "main" /\ from = "shields"
    BY <1>1, <1>2, <2>2
  <2>3. CASE to = "impulse" /\ from = "main"
    BY <1>1, <1>2, <2>3
  <2>4. CASE to = "impulse" /\ from = "shields"
    BY <1>1, <1>2, <2>4
  <2>5. CASE to = "shields" /\ from = "main"
    BY <1>1, <1>2, <2>5
  <2>6. CASE to = "shields" /\ from = "impulse"
    BY <1>1, <1>2, <2>6
  <2> QED BY <2>1, <2>2, <2>3, <2>4, <2>5, <2>6 DEF Pools
<1>6. pool'.impulse \in 0 .. IMPULSE_MAX /\ pool'.shields \in 0 .. SHIELD_MAX
      /\ pool'.main \in Nat
  BY <1>2, <1>3, <1>4, <1>5, Constants DEF PoolMax, Pools
<1>7. PoolOK'
  <2>1. CASE pool'.main <= pool.main
    <3>1. pool'.main \in 0 .. pool.main
      BY <1>2, <1>6, <2>1
    <3> QED BY <1>4, <1>5, <1>6, <3>1, MainFalls
  <2>2. CASE pool'.main > pool.main
    <3>1. pool'.main <= ENERGY_MAX
      BY <1>2, <1>3, <1>4, <1>5, <2>2 DEF PoolMax
    <3>2. ENERGY_MAX \in Banked' /\ pool'.main \in 0 .. ENERGY_MAX
      BY <1>6, <3>1, Banking, Constants DEF Banked
    <3>3. pool' \in [main : Nat, impulse : 0 .. IMPULSE_MAX, shields : 0 .. SHIELD_MAX]
      BY <1>5, <1>6
    <3> QED BY <1>4, <3>2, <3>3 DEF PoolOK
  <2> QED BY <1>2, <1>6, <2>1, <2>2
<1>8. Total(pool') = Total(pool) - pool[to] - amount + filled
  BY <1>2, <1>3, <1>4, <1>5, <1>6 DEF Total, Pools
<1>9. told' <= Less(Total(pool), Total(pool'))
  <2>1. Total(pool) \in Nat /\ Total(pool') \in Nat
    BY <1>2, <1>6, Constants DEF Total
  <2> QED BY <1>3, <1>4, <1>8, <2>1 DEF Less
<1> QED BY <1>7, <1>9

\* A step that only takes from the pools, and leaves m, i and s in them.
LEMMA Drawn ==
    ASSUME PoolOK, told' = 0,
           NEW m \in 0 .. pool.main, NEW i \in 0 .. IMPULSE_MAX, NEW s \in 0 .. SHIELD_MAX,
           pool' = [main |-> m, impulse |-> i, shields |-> s]
    PROVE  PoolOK'
<1>1. /\ pool'.main \in 0 .. pool.main /\ pool'.impulse \in 0 .. IMPULSE_MAX
      /\ pool'.shields \in 0 .. SHIELD_MAX /\ told' \in Nat
      /\ pool' = [main |-> pool'.main, impulse |-> pool'.impulse, shields |-> pool'.shields]
  OBVIOUS
<1> QED BY <1>1, MainFalls

LEMMA Draws ==
    ASSUME PoolOK
    PROVE  /\ pool.main \in 0 .. pool.main
           /\ \A h \in Nat : Less(pool.main, h) \in 0 .. pool.main
                             /\ Less(pool.shields, h) \in 0 .. SHIELD_MAX
           /\ \A e \in Nat : /\ e <= pool.main => pool.main - e \in 0 .. pool.main
                             /\ e <= pool.impulse => pool.impulse - e \in 0 .. IMPULSE_MAX
<1>1. /\ pool.main \in Nat /\ pool.impulse \in 0 .. IMPULSE_MAX
      /\ pool.shields \in 0 .. SHIELD_MAX /\ IMPULSE_MAX \in Nat /\ SHIELD_MAX \in Nat
  BY PoolFields, Constants
<1>2. ASSUME NEW h \in Nat
      PROVE  Less(pool.main, h) \in 0 .. pool.main /\ Less(pool.shields, h) \in 0 .. SHIELD_MAX
  BY <1>1 DEF Less
<1> QED BY <1>1, <1>2

LEMMA Undrawn == ASSUME PoolOK, told' = 0, UNCHANGED pool PROVE PoolOK'
  BY Drawn, Draws, PoolFields

LEMMA Silent ==
    ASSUME PoolOK, PoolOK', told' = 0
    PROVE  told' <= Less(Total(pool), Total(pool'))
  BY PoolFields, Constants DEF PoolOK, Total, Less

\* trek_use_energium: the regulations hold the banks a crystal can add to.
LEMMA BurnHolds ==
    ASSUME PoolOK, NEW e \in EnergyGains, NEW s \in ShieldGains, BurnGood(e, s)
    PROVE  PoolOK'
<1>1. /\ pool.main \in Nat /\ pool.impulse \in 0 .. IMPULSE_MAX
      /\ pool.shields \in 0 .. SHIELD_MAX
      /\ pool = [main |-> pool.main, impulse |-> pool.impulse, shields |-> pool.shields]
      /\ e \in Nat /\ s \in Nat /\ ENERGIUM_BELOW \in Nat /\ SHIELD_MAX \in Nat
  BY PoolFields, Constants
<1>2. /\ pool.main < ENERGIUM_BELOW /\ told' = 0
      /\ pool' = [pool EXCEPT !.main = @ + e, !.shields = LeastOf(@ + s, SHIELD_MAX)]
  BY DEF BurnGood, Burn, EnergiumAllowed, Using
<1>3. LeastOf(pool.shields + s, SHIELD_MAX) \in 0 .. SHIELD_MAX
  BY <1>1 DEF LeastOf
<1>4. pool' \in [main : Nat, impulse : 0 .. IMPULSE_MAX, shields : 0 .. SHIELD_MAX]
      /\ pool'.main = pool.main + e
  <2> DEFINE full == LeastOf(pool.shields + s, SHIELD_MAX)
  <2>1. pool' = [pool EXCEPT !.main = pool.main + e, !.shields = full]
    BY <1>2
  <2> HIDE DEF full
  <2>2. pool' = [main |-> pool.main + e, impulse |-> pool.impulse, shields |-> full]
    BY <1>1, <2>1
  <2> QED BY <1>1, <1>3, <2>2 DEF full
<1>5. pool'.main \in 0 .. (ENERGIUM_BELOW - 1 + e) /\ ENERGIUM_BELOW - 1 + e \in Banked'
  BY <1>1, <1>2, <1>4, Banking DEF Banked
<1> QED BY <1>2, <1>4, <1>5 DEF PoolOK

LEMMA PoolSteps ==
    ASSUME PoolOK, Next
    PROVE  PoolOK' /\ told' <= Less(Total(pool), Total(pool'))
<1> DEFINE m == pool.main
           i == pool.impulse
           s == pool.shields
<1>0. /\ pool = [main |-> m, impulse |-> i, shields |-> s]
      /\ m \in 0 .. m /\ i \in 0 .. IMPULSE_MAX /\ s \in 0 .. SHIELD_MAX
      /\ Hits \cup {0} \subseteq Nat
  BY PoolFields, Draws, Constants
<1>1. CASE Flight
  <2>2. ASSUME NEW q \in Quads, NEW c \in Cells, NEW t \in Cells, NEW d \in {0, 1},
               NEW e \in Hits, Warp(q, c, t, d, e)
        PROVE  PoolOK' /\ told' = 0
    <3>1. pool' = [main |-> m - e, impulse |-> i, shields |-> s] /\ e <= m /\ told' = 0
      BY <1>0, <2>2 DEF Warp
    <3> QED BY <1>0, <3>1, Drawn, Draws
  <2>3. ASSUME NEW c \in Cells, NEW d \in {0, 1}, NEW e \in Hits \cup {0}, Impulse(c, d, e)
        PROVE  PoolOK' /\ told' = 0
    <3>1. pool' = [main |-> m, impulse |-> i - e, shields |-> s] /\ e <= i /\ told' = 0
      BY <1>0, <2>3 DEF Impulse
    <3> QED BY <1>0, <3>1, Drawn, Draws
  <2>4. ASSUME NEW h \in Hits, NEW up \in BOOLEAN, Fight(h, up)
        PROVE  PoolOK' /\ told' = 0
    <3>1. pool' = [main |-> Less(m, h), impulse |-> i, shields |-> Less(s, h)] /\ told' = 0
      BY <1>0, <2>4 DEF Fight
    <3> QED BY <1>0, <3>1, Drawn, Draws
  <2>5. ASSUME NEW q \in Quads, NEW c \in Cells, NEW t \in Cells, NEW h \in Hits,
               StarSupernova(q, c, t, h)
        PROVE  PoolOK' /\ told' = 0
    <3>1. told' = 0 /\ \/ pool' = [pool EXCEPT !.shields = Less(s, h)]
                       \/ pool' = [pool EXCEPT !.main = Less(m, h)]
      BY <2>5, Zenon DEF StarSupernova
    <3>2. \/ pool' = [main |-> m, impulse |-> i, shields |-> Less(s, h)]
          \/ pool' = [main |-> Less(m, h), impulse |-> i, shields |-> s]
      BY <1>0, <3>1
    <3> QED BY <1>0, <3>1, <3>2, Drawn, Draws
  <2> QED BY <1>1, <2>2, <2>3, <2>4, <2>5, Silent DEF Flight
<1>2. CASE (\E k \in Worlds : Orbit(k)) \/ Land
           \/ \E w \in Warnings, burnt \in {{}} \cup {{q} : q \in Quads} : RunTurn(w, burnt)
  <2>1. told' = 0 /\ UNCHANGED pool
    BY <1>2 DEF Orbit, Land, Landing, Rescue, Visit, Attacked, Already, Find, Mine, Capture,
                CaptureNothing, Nothing, RunTurn
  <2> QED BY <2>1, Undrawn, Silent
<1>3. CASE Use
  <2>1. CASE \E e \in EnergyGains, t \in ShieldGains : BurnGood(e, t)
    <3>1. told' = 0
      BY <2>1 DEF BurnGood, Burn, Using
    <3> QED BY <2>1, <3>1, BurnHolds, Silent
  <2>2. ASSUME NEW target \in BOOLEAN, NEW h \in Hits \cup {0}, UseBolt(target, h)
        PROVE  PoolOK' /\ told' = 0
    <3>1. pool' = [main |-> m, impulse |-> i, shields |-> Less(s, h)] /\ told' = 0
      BY <1>0, <2>2 DEF UseBolt, Using
    <3> QED BY <1>0, <3>1, Drawn, Draws
  <2>3. ASSUME NEW loss \in DefectLosses, BurnDefective(loss)
        PROVE  PoolOK' /\ told' = 0
    <3>1. pool' = [main |-> Less(m, loss), impulse |-> i, shields |-> s] /\ told' = 0
      BY <1>0, <2>3 DEF BurnDefective, Burn, Using
    <3>2. loss \in Nat
      BY Constants
    <3> QED BY <1>0, <3>1, <3>2, Drawn, Draws
  <2>4. CASE \/ \E on_reserve \in BOOLEAN : UseLifeSupport(on_reserve)
             \/ UsePlasmaShield \/ UseEnergiumRefused \/ BurnDud
    <3>1. told' = 0 /\ UNCHANGED pool
      BY <2>4 DEF UseLifeSupport, UsePlasmaShield, UseEnergiumRefused, BurnDud, Burn, Using
    <3> QED BY <3>1, Undrawn, Silent
  <2> QED BY <1>3, <2>1, <2>2, <2>3, <2>4, Silent DEF Use
<1>4. CASE \E from, to \in Pools : \E amount \in 0 .. pool[from] : Energy(from, to, amount)
  <2>1. PICK from \in Pools, to \in Pools : \E amount \in 0 .. pool[from] : Energy(from, to, amount)
    BY <1>4
  <2>2. PICK amount \in 0 .. pool[from] : Energy(from, to, amount)
    BY <2>1
  <2>3. amount \in Nat /\ from # to /\ Divert(from, to, amount)
    BY <2>2, PoolFields DEF Energy, Pools
  <2> QED BY <2>3, DivertHolds
<1>5. CASE MaxEnergy
  <2>1. LeastOf(pool.main, Less(SHIELD_MAX, pool.shields)) \in Nat
    BY PoolFields, Constants DEF LeastOf, Less
  <2>2. Divert("main", "shields", LeastOf(pool.main, Less(SHIELD_MAX, pool.shields)))
    BY <1>5 DEF MaxEnergy
  <2>3. "main" \in Pools /\ "shields" \in Pools /\ "main" # "shields"
    BY DEF Pools
  <2> QED BY <2>1, <2>2, <2>3, DivertHolds
<1> QED BY <1>1, <1>2, <1>3, <1>4, <1>5 DEF Next

-----------------------------------------------------------------------------
(* The inventory. *)

LEMMA GoodsSteps ==
    ASSUME GoodsOK, Next
    PROVE  /\ GoodsOK'
           /\ (\E i \in Items : inventory'[i] > inventory[i])
                 => /\ orbiting # NONE /\ "TAKEN" \notin planets[orbiting].flags
                    /\ given' = given \cup {orbiting}
<1>0. ITEM_CAP \in Nat /\ ITEM_CAP >= 2
  BY Constants
<1>1. CASE UNCHANGED inventory
  BY <1>0, <1>1 DEF GoodsOK
<1>2. CASE \E i \in Items : inventory[i] > 0 /\ Spent(i)
  BY <1>0, <1>2 DEF GoodsOK, Spent
<1>3. CASE Land
  <2>1. \A item \in Items, n \in {1, 2} :
            More(item, n) \in [Items -> 0 .. ITEM_CAP]
    BY <1>0 DEF GoodsOK, More
  <2>2. CASE \E how \in Ways : Mine(how)
    <3>1. "raw_energium" \in Items
      BY DEF Items
    <3> QED BY <1>3, <2>1, <2>2, <3>1 DEF Mine, Find, Visit, Landing, GoodsOK
  <2>3. CASE \E how \in Ways, got \in SUBSET Rolled : Capture(how, got)
    <3>1. PICK got \in SUBSET Rolled :
              /\ orbiting # NONE /\ "TAKEN" \notin planets[orbiting].flags
              /\ given' = given \cup {orbiting}
              /\ inventory' = [i \in Items |->
                     IF i \in got THEN More(i, 1)[i]
                     ELSE IF i = "life_support" THEN More(i, 2)[i] ELSE inventory[i]]
      BY <2>3 DEF Capture, Find, Visit, Landing
    <3>2. \A i \in Items : More(i, 1)[i] \in 0 .. ITEM_CAP /\ More(i, 2)[i] \in 0 .. ITEM_CAP
                           /\ inventory[i] \in 0 .. ITEM_CAP
      BY <2>1 DEF GoodsOK
    <3> HIDE DEF More
    <3> QED BY <1>3, <3>1, <3>2 DEF GoodsOK
  <2> QED BY <1>1, <1>3, <2>2, <2>3
          DEF Land, Rescue, Attacked, Already, CaptureNothing, Nothing
<1> QED
  <2>1. CASE Use
    BY <1>1, <1>2, <2>1 DEF Use, UseLifeSupport, UsePlasmaShield, UseBolt, UseEnergiumRefused,
                            Burn, BurnDud, BurnDefective, BurnGood, goods, Using, Items, Rolled
  <2>2. CASE ~Use /\ ~Land
    BY <1>1, <2>2 DEF Next, Flight, Warp, Impulse, Fight, StarSupernova, Orbit, Energy,
                      MaxEnergy, Diverting, RunTurn, goods
  <2> QED BY <1>3, <2>1, <2>2

-----------------------------------------------------------------------------
(* The switches and the clock. *)

LEMMA SwitchSteps == ASSUME SwitchesOK, Next PROVE SwitchesOK'
<1>1. CASE Flight
  BY <1>1, Zenon DEF SwitchesOK, Flight, Warp, Impulse, Fight, StarSupernova, goods
<1>2. CASE Land
  BY <1>2, Zenon DEF SwitchesOK, Land, Landing, Rescue, Visit, Attacked, Already, Find, Mine,
                     Capture, CaptureNothing, Nothing
<1>3. CASE Use
  BY <1>3, Zenon DEF SwitchesOK, Use, Using, UseLifeSupport, UsePlasmaShield, UseBolt,
                     UseEnergiumRefused, Burn, BurnDud, BurnDefective, BurnGood, goods
<1>4. CASE \E i \in Worlds : Orbit(i)
  BY <1>4, Zenon DEF SwitchesOK, Orbit, goods
<1>5. CASE (\E from, to \in Pools : \E amount \in 0 .. pool[from] : Energy(from, to, amount))
           \/ MaxEnergy
  BY <1>5, Zenon DEF SwitchesOK, Energy, MaxEnergy, Diverting, goods
<1>6. CASE \E w \in Warnings, burnt \in {{}} \cup {{q} : q \in Quads} : RunTurn(w, burnt)
  BY <1>6, Zenon DEF SwitchesOK, RunTurn, goods
<1> QED BY <1>1, <1>2, <1>3, <1>4, <1>5, <1>6 DEF Next

\* Steps that leave the clock alone, or only move it on.
LEMMA ClockMoves ==
    ASSUME Next, ~\E w \in Warnings, burnt \in {{}} \cup {{q} : q \in Quads} : RunTurn(w, burnt)
    PROVE  /\ UNCHANGED <<distress, planet_evac_end>>
           /\ stardate' = stardate \/ \E d \in {0, 1, SHUTTLE_TENTHS} : Later(d)
<1>1. CASE Flight
  BY <1>1 DEF Flight, Warp, Impulse, Fight, StarSupernova, clock
<1>2. CASE Land
  <2>1. UNCHANGED <<distress, planet_evac_end>>
    BY <1>2 DEF Land, Landing, Rescue, Visit, Attacked, Already, Find, Mine, Capture,
                CaptureNothing, Nothing
  <2>2. ASSUME NEW how \in Ways, Visit(how) PROVE \E d \in {0, SHUTTLE_TENTHS} : Later(d)
    BY <2>2 DEF Visit, Trip
  <2>3. CASE Rescue
    BY <2>1, <2>3 DEF Rescue
  <2>4. CASE \E how \in Ways : Visit(how)
    BY <2>1, <2>2, <2>4
  <2> QED BY <1>2, <2>3, <2>4
          DEF Land, Attacked, Already, Find, Mine, Capture, CaptureNothing, Nothing
<1>3. CASE Use
  BY <1>3 DEF Use, Using, UseLifeSupport, UsePlasmaShield, UseBolt, UseEnergiumRefused,
              Burn, BurnDud, BurnDefective, BurnGood, clock
<1>4. CASE \E i \in Worlds : Orbit(i)
  BY <1>4 DEF Orbit, clock
<1>5. CASE (\E from, to \in Pools : \E amount \in 0 .. pool[from] : Energy(from, to, amount))
           \/ MaxEnergy
  BY <1>5 DEF Energy, MaxEnergy, Diverting, clock
<1> QED BY <1>1, <1>2, <1>3, <1>4, <1>5 DEF Next

LEMMA ClockSteps ==
    ASSUME ClockOK, CalledOnce, Next
    PROVE  ClockOK' /\ CalledOnce' /\ stardate <= stardate' /\ (SettlementLost => SettlementLost')
<1>0. /\ stardate \in 0 .. MaxDate /\ MaxDate \in Nat /\ MaxDate < SCHED_NEVER
      /\ SCHED_NEVER \in Nat /\ SHUTTLE_TENTHS \in Nat /\ planet_evac_end \in Nat
  BY Constants DEF ClockOK
<1>1. CASE \E w \in Warnings, burnt \in {{}} \cup {{q} : q \in Quads} : RunTurn(w, burnt)
  <2>1. PICK w \in Warnings : Call(w) /\ stardate' = stardate
    BY <1>1 DEF RunTurn
  <2>2. w \in Nat
    BY Constants
  <2>3. CASE distress > stardate
    BY <1>0, <2>1, <2>3 DEF Call, ClockOK, CalledOnce, SettlementLost
  <2>4. CASE ~(distress > stardate)
    <3>1. /\ distress' = SCHED_NEVER
          /\ planet_evac_end' = planet_evac_end \/ planet_evac_end' = stardate + w
      BY <2>1, <2>4 DEF Call
    <3>2. planet_evac_end = SCHED_NEVER
      BY <1>0, <2>4 DEF CalledOnce
    <3> QED BY <1>0, <2>1, <2>2, <3>1, <3>2 DEF ClockOK, CalledOnce, SettlementLost
  <2> QED BY <2>3, <2>4
<1>2. CASE ~\E w \in Warnings, burnt \in {{}} \cup {{q} : q \in Quads} : RunTurn(w, burnt)
  <2>1. UNCHANGED <<distress, planet_evac_end>> /\ stardate' \in stardate .. MaxDate
    BY <1>0, <1>2, ClockMoves DEF Later
  <2> QED BY <1>0, <2>1 DEF ClockOK, CalledOnce, SettlementLost
<1> QED BY <1>1, <1>2

-----------------------------------------------------------------------------
(* The worlds. *)

LEMMA PlaceKeeps ==
    ASSUME NEW w \in [Worlds -> World], NEW q, NEW s \in Cells
    PROVE  /\ PlanetPlace(w, q, s) \in [Worlds -> World]
           /\ \A i \in Worlds : /\ PlanetPlace(w, q, s)[i].quad = w[i].quad
                                /\ PlanetPlace(w, q, s)[i].find = w[i].find
                                /\ PlanetPlace(w, q, s)[i].flags = w[i].flags
<1>1. ASSUME NEW i \in Worlds
      PROVE  /\ PlanetPlace(w, q, s)[i] \in World
             /\ PlanetPlace(w, q, s)[i].quad = w[i].quad
             /\ PlanetPlace(w, q, s)[i].find = w[i].find
             /\ PlanetPlace(w, q, s)[i].flags = w[i].flags
  <2>1. w[i] \in World
    OBVIOUS
  <2> QED BY <2>1 DEF PlanetPlace, World
<1>2. PlanetPlace(w, q, s) = [i \in Worlds |-> PlanetPlace(w, q, s)[i]]
  BY DEF PlanetPlace
<1> HIDE DEF PlanetPlace
<1>3. PlanetPlace(w, q, s) \in [Worlds -> World]
  BY <1>1, <1>2, Zenon
<1> QED BY <1>1, <1>3

LEMMA LostKeeps ==
    ASSUME NEW w \in [Worlds -> World], NEW q \in Quads
    PROVE  /\ QuadrantLost(w, q) \in [Worlds -> World]
           /\ \A i \in Worlds : /\ QuadrantLost(w, q)[i].quad = w[i].quad
                                /\ QuadrantLost(w, q)[i].sec = w[i].sec
                                /\ QuadrantLost(w, q)[i].find = w[i].find
                                /\ w[i].quad = q => QuadrantLost(w, q)[i].flags =
                                                      w[i].flags \ {"SETTLED"}
                                /\ w[i].quad # q => QuadrantLost(w, q)[i].flags = w[i].flags
<1>1. ASSUME NEW i \in Worlds
      PROVE  /\ QuadrantLost(w, q)[i] \in World
             /\ QuadrantLost(w, q)[i].quad = w[i].quad
             /\ QuadrantLost(w, q)[i].sec = w[i].sec
             /\ QuadrantLost(w, q)[i].find = w[i].find
             /\ w[i].quad = q => QuadrantLost(w, q)[i].flags = w[i].flags \ {"SETTLED"}
             /\ w[i].quad # q => QuadrantLost(w, q)[i].flags = w[i].flags
  <2>1. w[i] \in World /\ w[i].flags \ {"SETTLED"} \in SUBSET Flags
    BY DEF World
  <2> QED BY <2>1 DEF QuadrantLost, World
<1>2. QuadrantLost(w, q) = [i \in Worlds |-> QuadrantLost(w, q)[i]]
  BY DEF QuadrantLost
<1> HIDE DEF QuadrantLost
<1>3. QuadrantLost(w, q) \in [Worlds -> World]
  BY <1>1, <1>2, Zenon
<1> QED BY <1>1, <1>3

LEMMA FlagsKeep ==
    ASSUME planets \in [Worlds -> World], NEW k \in Worlds, NEW F \in SUBSET Flags,
           planets' = [planets EXCEPT ![k].flags = F]
    PROVE  /\ planets' \in [Worlds -> World]
           /\ \A i \in Worlds : /\ planets'[i].quad = planets[i].quad
                                /\ planets'[i].sec = planets[i].sec
                                /\ planets'[i].find = planets[i].find
                                /\ planets'[i].flags = IF i = k THEN F ELSE planets[i].flags
<1>1. planets[k] \in World
  OBVIOUS
<1>2. [planets[k] EXCEPT !.flags = F] \in World
  BY <1>1 DEF World
<1>3. planets' \in [Worlds -> World]
  BY <1>2
<1> QED BY <1>1, <1>3 DEF World

LEMMA HomeStays ==
    ASSUME \A i \in Worlds : planets'[i].find = planets[i].find
    PROVE  Home' = Home
<1>1. [i \in Worlds |-> planets'[i].find] = [i \in Worlds |-> planets[i].find]
  OBVIOUS
<1> QED BY <1>1 DEF Home

LEMMA OneHome == ASSUME NEW i \in Home, NEW j \in Home PROVE i = j
<1> DEFINE f == [k \in Worlds |-> planets[k].find]
<1>1. /\ i \in Worlds /\ f[i] = "ENERGIUM" /\ \A k \in Worlds : k > i => f[k] # "ENERGIUM"
      /\ j \in Worlds /\ f[j] = "ENERGIUM" /\ \A k \in Worlds : k > j => f[k] # "ENERGIUM"
  BY DEF Home, LastEnergium
<1> HIDE DEF f
<1>2. ~(i > j) /\ ~(j > i)
  BY <1>1
<1>3. i \in Int /\ j \in Int
  BY <1>1, PlanetsAssumption DEF Worlds, PlanetsAssumption
<1> QED BY <1>2, <1>3

-----------------------------------------------------------------------------
(* The galaxy, step by step. *)

GalaxyInv == GalaxyOK /\ OrbitIsReal /\ Spent1 /\ SettlersAtHome

\* The worlds keep their places and their finds, and no find comes back.
WorldsKeep ==
    /\ planets' \in [Worlds -> World]
    /\ \A i \in Worlds : /\ planets'[i].quad = planets[i].quad
                         /\ planets'[i].find = planets[i].find
                         /\ "SCANNED" \in planets[i].flags => "SCANNED" \in planets'[i].flags
                         /\ "TAKEN" \in planets[i].flags => "TAKEN" \in planets'[i].flags

\* What every step but a rescue does to the settlers' world: at most it burns,
\* and then no time passes.
Kept == /\ WorldsKeep /\ rescues' = rescues
        /\ nova \subseteq nova' /\ (nova' = nova \/ stardate' = stardate)

LEMMA GiftsKeep ==
    ASSUME Inv, Next, WorldsKeep,
           \A i \in Worlds : "SETTLED" \in planets'[i].flags => "SETTLED" \in planets[i].flags,
           given' \subseteq Worlds,
           \A i \in given' : i \notin given =>
               /\ "TAKEN" \in planets'[i].flags
               /\ "SETTLED" \in planets'[i].flags => SettlementLost'
    PROVE  Spent1'
<1>1. SettlementLost => SettlementLost'
  BY ClockSteps DEF Inv
<1> QED BY <1>1 DEF Inv, Spent1, WorldsKeep, GalaxyOK

LEMMA SettlersKeep ==
    ASSUME Inv, WorldsKeep, rescues' = rescues, nova \subseteq nova',
           \A i \in Worlds : "SETTLED" \in planets'[i].flags
               <=> "SETTLED" \in planets[i].flags
                      /\ (planets[i].quad \in nova' => planets[i].quad \in nova)
    PROVE  SettlersAtHome'
<1>1. Home' = Home
  BY HomeStays DEF WorldsKeep
<1> QED BY <1>1 DEF Inv, SettlersAtHome, WorldsKeep

LEMMA AsideHolds ==
    ASSUME Inv, Next, UNCHANGED <<planets, nova, rescues, given>>,
           UNCHANGED <<quad, cell, orbiting>> \/ (orbiting' = NONE /\ quad' = quad /\ cell' \in Cells)
    PROVE  GalaxyInv'
<1>1. GalaxyOK'
  BY DEF Inv, GalaxyOK
<1>2. WorldsKeep
  BY DEF WorldsKeep, Inv, GalaxyOK
<1>3. Spent1'
  BY <1>2, GiftsKeep DEF Inv, GalaxyOK
<1>4. SettlersAtHome'
  BY <1>2, SettlersKeep
<1>5. OrbitIsReal'
  BY DEF Inv, OrbitIsReal
<1> QED BY <1>1, <1>3, <1>4, <1>5 DEF GalaxyInv

LEMMA WarpHolds ==
    ASSUME Inv, Next, NEW q \in Quads, NEW c \in Cells, NEW s \in Cells, NEW d, NEW e,
           Warp(q, c, s, d, e)
    PROVE  GalaxyInv' /\ Kept
<1>1. /\ quad' = q /\ cell' = c /\ orbiting' = NONE /\ planets' = PlanetPlace(planets, q, s)
      /\ UNCHANGED <<nova, rescues, given>>
  BY DEF Warp, EnterQuadrant
<1>2. WorldsKeep /\ \A i \in Worlds : planets'[i].flags = planets[i].flags
  BY <1>1, PlaceKeeps DEF WorldsKeep, Inv, GalaxyOK
<1>3. GalaxyOK'
  BY <1>1, <1>2 DEF Inv, GalaxyOK, WorldsKeep
<1>4. Spent1'
  BY <1>1, <1>2, GiftsKeep DEF Inv, GalaxyOK
<1>5. SettlersAtHome'
  BY <1>1, <1>2, SettlersKeep
<1>6. OrbitIsReal'
  BY <1>1 DEF OrbitIsReal
<1> QED BY <1>1, <1>2, <1>3, <1>4, <1>5, <1>6 DEF GalaxyInv, Kept

LEMMA OrbitHolds ==
    ASSUME Inv, Next, NEW k \in Worlds, Orbit(k)
    PROVE  GalaxyInv' /\ Kept
<1> DEFINE F == planets[k].flags \cup {"SCANNED"}
<1>1. /\ planets[k].quad = quad /\ Adjacent(planets[k].sec, cell) /\ orbiting' = k
      /\ planets' = [planets EXCEPT ![k].flags = F]
      /\ UNCHANGED <<nova, quad, cell, rescues, given>>
  BY DEF Orbit
<1>2. planets \in [Worlds -> World] /\ planets[k] \in World
  BY DEF Inv, GalaxyOK
<1>3. F \in SUBSET Flags
  BY <1>2 DEF World, Flags
<1>4. /\ planets' \in [Worlds -> World]
      /\ \A i \in Worlds : /\ planets'[i].quad = planets[i].quad
                           /\ planets'[i].sec = planets[i].sec
                           /\ planets'[i].find = planets[i].find
                           /\ planets'[i].flags = IF i = k THEN F ELSE planets[i].flags
  <2> HIDE DEF F
  <2> QED BY <1>1, <1>2, <1>3, FlagsKeep
<1>5. WorldsKeep
  BY <1>4 DEF WorldsKeep
<1>6. \A i \in Worlds : "SETTLED" \in planets'[i].flags <=> "SETTLED" \in planets[i].flags
  BY <1>4
<1>7. GalaxyOK'
  BY <1>1, <1>4 DEF Inv, GalaxyOK
<1>8. Spent1'
  BY <1>1, <1>5, <1>6, GiftsKeep DEF Inv, GalaxyOK
<1>9. SettlersAtHome'
  BY <1>1, <1>5, <1>6, SettlersKeep
<1>10. OrbitIsReal'
  BY <1>1, <1>4 DEF OrbitIsReal
<1> QED BY <1>1, <1>5, <1>7, <1>8, <1>9, <1>10 DEF GalaxyInv, Kept

\* A landing that takes the find, or what is left of it.
LEMMA TakeHolds ==
    ASSUME Inv, Next, NEW how \in Ways, Visit(how), Take(orbiting),
           given' = given \/ given' = given \cup {orbiting}
    PROVE  GalaxyInv' /\ Kept
<1> DEFINE k == orbiting
           F == planets[k].flags \cup {"TAKEN"}
<1>1. /\ k \in Worlds /\ planets' = [planets EXCEPT ![k].flags = F]
      /\ UNCHANGED <<nova, quad, cell, orbiting, rescues>>
      /\ "SETTLED" \in planets[k].flags => SettlementLost
  BY Constants DEF Visit, Landing, Take, Inv, GalaxyOK, place
<1>2. planets \in [Worlds -> World] /\ planets[k] \in World
  BY <1>1 DEF Inv, GalaxyOK
<1>3. F \in SUBSET Flags
  BY <1>2 DEF World, Flags
<1>4. /\ planets' \in [Worlds -> World]
      /\ \A i \in Worlds : /\ planets'[i].quad = planets[i].quad
                           /\ planets'[i].sec = planets[i].sec
                           /\ planets'[i].find = planets[i].find
                           /\ planets'[i].flags = IF i = k THEN F ELSE planets[i].flags
  <2> HIDE DEF F, k
  <2> QED BY <1>1, <1>2, <1>3, FlagsKeep
<1>5. WorldsKeep
  BY <1>4 DEF WorldsKeep
<1>6. \A i \in Worlds : "SETTLED" \in planets'[i].flags <=> "SETTLED" \in planets[i].flags
  BY <1>4
<1>7. GalaxyOK'
  BY <1>1, <1>4 DEF Inv, GalaxyOK
<1>8. Spent1'
  <2>1. SettlementLost => SettlementLost'
    BY ClockSteps DEF Inv
  <2>2. ASSUME NEW i \in given', i \notin given
        PROVE  "TAKEN" \in planets'[i].flags /\ ("SETTLED" \in planets'[i].flags => SettlementLost')
    <3>1. i = k
      BY <2>2
    <3> QED BY <1>1, <1>4, <1>6, <2>1, <3>1
  <2>3. given' \subseteq Worlds
    BY <1>7 DEF GalaxyOK
  <2> QED BY <1>5, <1>6, <2>2, <2>3, GiftsKeep
<1>9. SettlersAtHome'
  BY <1>1, <1>5, <1>6, SettlersKeep
<1>10. OrbitIsReal'
  BY <1>1, <1>4 DEF Inv, OrbitIsReal
<1> QED BY <1>1, <1>5, <1>7, <1>8, <1>9, <1>10 DEF GalaxyInv, Kept

LEMMA RescueHolds ==
    ASSUME Inv, Next, Rescue
    PROVE  /\ GalaxyInv'
           /\ orbiting \in Home /\ planets[orbiting].quad \notin nova /\ rescues = 0
           /\ rescues' = 1 /\ orbiting \notin given /\ orbiting \in given' /\ Home' = Home
           /\ ~SettlementLost /\ stardate' = stardate /\ UNCHANGED nova
           /\ \A i \in Worlds : planets'[i].quad = planets[i].quad
<1> DEFINE k == orbiting
           F == (planets[k].flags \ {"SETTLED"}) \cup {"TAKEN"}
<1>1. /\ k \in Worlds /\ planets' = [planets EXCEPT ![k].flags = F]
      /\ UNCHANGED <<nova, quad, cell, orbiting, stardate>>
      /\ "SETTLED" \in planets[k].flags /\ ~SettlementLost
      /\ rescues' = rescues + 1 /\ given' = given \cup {k}
  BY Constants DEF Rescue, Landing, Inv, GalaxyOK, place
<1>2. planets \in [Worlds -> World] /\ planets[k] \in World
  BY <1>1 DEF Inv, GalaxyOK
<1>3. F \in SUBSET Flags
  BY <1>2 DEF World, Flags
<1>4. /\ planets' \in [Worlds -> World]
      /\ \A i \in Worlds : /\ planets'[i].quad = planets[i].quad
                           /\ planets'[i].sec = planets[i].sec
                           /\ planets'[i].find = planets[i].find
                           /\ planets'[i].flags = IF i = k THEN F ELSE planets[i].flags
  <2> HIDE DEF F, k
  <2> QED BY <1>1, <1>2, <1>3, FlagsKeep
<1>5. WorldsKeep /\ Home' = Home
  BY <1>4, HomeStays DEF WorldsKeep
<1>6. k \in Home /\ planets[k].quad \notin nova /\ rescues = 0 /\ k \notin given
  BY <1>1 DEF Inv, SettlersAtHome, Spent1
<1>7. GalaxyOK'
  BY <1>1, <1>4 DEF Inv, GalaxyOK
<1>8. Spent1'
  <2>1. \A i \in Worlds : "SETTLED" \in planets'[i].flags => "SETTLED" \in planets[i].flags
    BY <1>4
  <2>2. \A i \in given' : i \notin given =>
            "TAKEN" \in planets'[i].flags /\ ~("SETTLED" \in planets'[i].flags)
    BY <1>1, <1>4
  <2>3. given' \subseteq Worlds
    BY <1>7 DEF GalaxyOK
  <2> QED BY <1>5, <2>1, <2>2, <2>3, GiftsKeep
<1>9. SettlersAtHome'
  <2>1. ASSUME NEW i \in Worlds PROVE ~("SETTLED" \in planets'[i].flags)
    <3>1. CASE i = k
      BY <1>4, <3>1
    <3>2. CASE i # k
      <4>1. i \notin Home
        BY <1>6, <3>2, OneHome
      <4> QED BY <1>4, <3>2, <4>1 DEF Inv, SettlersAtHome
    <3> QED BY <3>1, <3>2
  <2>2. rescues' # 0
    BY <1>1, <1>6
  <2> QED BY <2>1, <2>2 DEF SettlersAtHome
<1>10. OrbitIsReal'
  BY <1>1, <1>4 DEF Inv, OrbitIsReal
<1> QED BY <1>1, <1>4, <1>5, <1>6, <1>7, <1>8, <1>9, <1>10 DEF GalaxyInv

\* A quadrant that burns: nobody is left in it, and the rest is as it was.
LEMMA BurntHolds ==
    ASSUME Inv, Next, NEW q \in Quads, NEW w, w = QuadrantLost(planets, q),
           nova' = nova \cup {q}, UNCHANGED <<rescues, given>>,
           planets' \in [Worlds -> World],
           \A i \in Worlds : /\ planets'[i].quad = w[i].quad /\ planets'[i].find = w[i].find
                             /\ planets'[i].flags = w[i].flags,
           quad' \in Quads, cell' \in Cells, orbiting' \in Worlds \cup {NONE}
    PROVE  GalaxyOK' /\ Spent1' /\ SettlersAtHome' /\ WorldsKeep
<1>1. planets \in [Worlds -> World]
  BY DEF Inv, GalaxyOK
<1>2. \A i \in Worlds : /\ planets'[i].quad = planets[i].quad
                        /\ planets'[i].find = planets[i].find
                        /\ planets[i].quad = q =>
                              planets'[i].flags = planets[i].flags \ {"SETTLED"}
                        /\ planets[i].quad # q => planets'[i].flags = planets[i].flags
  BY <1>1, LostKeeps
<1>3. WorldsKeep
  BY <1>2 DEF WorldsKeep
<1>4. GalaxyOK'
  BY DEF Inv, GalaxyOK
<1>5. Spent1'
  BY <1>2, <1>3, GiftsKeep DEF Inv, GalaxyOK
<1>6. SettlersAtHome'
  <2>1. \A i \in Worlds : "SETTLED" \in planets'[i].flags
               <=> "SETTLED" \in planets[i].flags
                      /\ (planets[i].quad \in nova' => planets[i].quad \in nova)
    <3> SUFFICES ASSUME NEW i \in Worlds
                 PROVE  "SETTLED" \in planets'[i].flags
                          <=> "SETTLED" \in planets[i].flags
                                /\ (planets[i].quad \in nova' => planets[i].quad \in nova)
      OBVIOUS
    <3>1. "SETTLED" \in planets[i].flags => planets[i].quad \notin nova
      BY DEF Inv, SettlersAtHome
    <3> QED BY <1>2, <3>1
  <2> QED BY <1>3, <2>1, SettlersKeep
<1> QED BY <1>3, <1>4, <1>5, <1>6

LEMMA TurnHolds ==
    ASSUME Inv, Next, NEW w \in Warnings, NEW burnt \in {{}} \cup {{q} : q \in Quads},
           RunTurn(w, burnt)
    PROVE  GalaxyInv' /\ Kept
<1>1. /\ UNCHANGED <<quad, cell, orbiting, rescues, given, stardate>>
      /\ nova' = nova \cup burnt
      /\ planets' = IF burnt = {} THEN planets
                    ELSE QuadrantLost(planets, CHOOSE q \in burnt : TRUE)
  BY DEF RunTurn, place
<1>2. CASE burnt = {}
  <2>1. UNCHANGED <<planets, nova>>
    BY <1>1, <1>2
  <2>2. WorldsKeep
    BY <2>1 DEF WorldsKeep, Inv, GalaxyOK
  <2> QED BY <1>1, <2>1, <2>2, AsideHolds DEF Kept
<1>3. ASSUME NEW q \in Quads, burnt = {q} PROVE GalaxyInv' /\ WorldsKeep
  <2>1. (CHOOSE x \in burnt : TRUE) = q
    BY <1>3
  <2>2. planets' = QuadrantLost(planets, q) /\ nova' = nova \cup {q}
    BY <1>1, <1>3, <2>1
  <2>3. planets \in [Worlds -> World] /\ quad \in Quads /\ cell \in Cells
        /\ orbiting \in Worlds \cup {NONE}
    BY DEF Inv, GalaxyOK
  <2>4. /\ planets' \in [Worlds -> World]
        /\ \A i \in Worlds : /\ planets'[i].quad = planets[i].quad
                             /\ planets'[i].sec = planets[i].sec
                             /\ "SCANNED" \in planets[i].flags => "SCANNED" \in planets'[i].flags
    BY <2>2, <2>3, LostKeeps
  <2>5. GalaxyOK' /\ Spent1' /\ SettlersAtHome' /\ WorldsKeep
    BY <1>1, <2>2, <2>3, <2>4, BurntHolds
  <2>6. OrbitIsReal'
    BY <1>1, <2>3, <2>4 DEF Inv, OrbitIsReal
  <2> QED BY <2>5, <2>6 DEF GalaxyInv
<1> QED BY <1>1, <1>2, <1>3 DEF Kept

LEMMA NovaHolds ==
    ASSUME Inv, Next, NEW q \in Quads, NEW c \in Cells, NEW s \in Cells, NEW h,
           StarSupernova(q, c, s, h)
    PROVE  GalaxyInv' /\ Kept
<1> DEFINE w == QuadrantLost(planets, quad)
<1>1. /\ nova' = nova \cup {quad} /\ UNCHANGED <<rescues, given, stardate>>
      /\ \/ planets' = w /\ UNCHANGED <<quad, cell, orbiting>>
         \/ quad' = q /\ cell' = c /\ orbiting' = NONE /\ planets' = PlanetPlace(w, q, s)
  BY Zenon DEF StarSupernova, EnterQuadrant, place, clock
<1>2. planets \in [Worlds -> World] /\ quad \in Quads /\ cell \in Cells
      /\ orbiting \in Worlds \cup {NONE}
  BY DEF Inv, GalaxyOK
<1>3. /\ w \in [Worlds -> World]
      /\ \A i \in Worlds : /\ w[i].quad = planets[i].quad /\ w[i].sec = planets[i].sec
                           /\ "SCANNED" \in planets[i].flags => "SCANNED" \in w[i].flags
  BY <1>2, LostKeeps
<1>4. w = QuadrantLost(planets, quad)
  OBVIOUS
<1> HIDE DEF w
<1>5. CASE planets' = w /\ UNCHANGED <<quad, cell, orbiting>>
  <2>1. GalaxyOK' /\ Spent1' /\ SettlersAtHome' /\ WorldsKeep
    BY <1>1, <1>2, <1>3, <1>4, <1>5, BurntHolds
  <2>2. OrbitIsReal'
    BY <1>2, <1>3, <1>5 DEF Inv, OrbitIsReal
  <2> QED BY <1>1, <2>1, <2>2 DEF GalaxyInv, Kept
<1>6. CASE quad' = q /\ cell' = c /\ orbiting' = NONE /\ planets' = PlanetPlace(w, q, s)
  <2>1. /\ planets' \in [Worlds -> World]
        /\ \A i \in Worlds : /\ planets'[i].quad = w[i].quad /\ planets'[i].find = w[i].find
                             /\ planets'[i].flags = w[i].flags
    BY <1>3, <1>6, PlaceKeeps
  <2>2. GalaxyOK' /\ Spent1' /\ SettlersAtHome' /\ WorldsKeep
    BY <1>1, <1>2, <1>4, <1>6, <2>1, BurntHolds
  <2>3. OrbitIsReal'
    BY <1>6 DEF OrbitIsReal
  <2> QED BY <1>1, <2>2, <2>3 DEF GalaxyInv, Kept
<1> QED BY <1>1, <1>5, <1>6

\* The steps that touch no world: fire, impulse, a landing that finds the world
\* spent, and whatever is done with the goods and the banks.
LEMMA AsideSteps ==
    ASSUME Inv, Next,
           \/ \E c \in Cells, d \in {0, 1}, e \in Hits \cup {0} : Impulse(c, d, e)
           \/ \E h \in Hits, up \in BOOLEAN : Fight(h, up)
           \/ \E how \in Ways : Already(how)
           \/ Use
           \/ \E from, to \in Pools : \E amount \in 0 .. pool[from] : Energy(from, to, amount)
           \/ MaxEnergy
    PROVE  GalaxyInv' /\ Kept
<1>1. UNCHANGED <<planets, nova, rescues, given>>
  BY DEF Impulse, Fight, Already, Visit, Landing, Use, Using, UseLifeSupport, UsePlasmaShield,
         UseBolt, UseEnergiumRefused, Burn, BurnDud, BurnDefective, BurnGood, Energy, MaxEnergy,
         Diverting, galaxy
<1>2. UNCHANGED <<quad, cell, orbiting>> \/ (orbiting' = NONE /\ quad' = quad /\ cell' \in Cells)
  BY DEF Impulse, Fight, Already, Visit, Landing, Use, Using, UseLifeSupport, UsePlasmaShield,
         UseBolt, UseEnergiumRefused, Burn, BurnDud, BurnDefective, BurnGood, Energy, MaxEnergy,
         Diverting, place
<1>3. Kept
  BY <1>1 DEF Kept, WorldsKeep, Inv, GalaxyOK
<1> QED BY <1>1, <1>2, <1>3, AsideHolds

LEMMA TakeSteps ==
    ASSUME Inv, Next, NEW how \in Ways,
           \/ Attacked(how) \/ Mine(how) \/ CaptureNothing(how) \/ Nothing(how)
           \/ \E got \in SUBSET Rolled : Capture(how, got)
    PROVE  GalaxyInv' /\ Kept
<1>1. /\ Visit(how) /\ Take(orbiting)
      /\ given' = given \/ given' = given \cup {orbiting}
  BY DEF Attacked, Find, Mine, CaptureNothing, Nothing, Capture
<1> QED BY <1>1, TakeHolds

LEMMA GalaxySteps ==
    ASSUME Inv, Next
    PROVE  GalaxyInv' /\ (Kept \/ Rescue)
<1>1. CASE Flight
  BY <1>1, WarpHolds, AsideSteps, NovaHolds DEF Flight
<1>2. CASE \E i \in Worlds : Orbit(i)
  BY <1>2, OrbitHolds
<1>3. CASE Land
  BY <1>3, RescueHolds, TakeSteps, AsideSteps DEF Land
<1>4. CASE Use \/ MaxEnergy
           \/ \E from, to \in Pools : \E amount \in 0 .. pool[from] : Energy(from, to, amount)
  BY <1>4, AsideSteps
<1>5. CASE \E w \in Warnings, burnt \in {{}} \cup {{q} : q \in Quads} : RunTurn(w, burnt)
  BY <1>5, TurnHolds
<1> QED BY <1>1, <1>2, <1>3, <1>4, <1>5 DEF Next

-----------------------------------------------------------------------------
(* The invariant holds. *)

LEMMA InitHolds == Init => Inv
<1> SUFFICES ASSUME Init PROVE Inv
  OBVIOUS
<1>1. PICK g \in Galaxies, s \in Cells \ {cell} : planets = PlanetPlace(PlanetNew(g), quad, s)
  BY DEF Init
<1>2. g.quad \in [Worlds -> Quads] /\ g.find \in [Worlds -> Finds]
  BY PlanetsAssumption DEF PlanetsAssumption
<1>3. /\ PlanetNew(g) \in [Worlds -> World]
      /\ \A i \in Worlds : /\ PlanetNew(g)[i].find = g.find[i]
                           /\ PlanetNew(g)[i].flags =
                                 IF i \in LastEnergium(g.find) THEN {"SETTLED"} ELSE {}
  BY <1>2, PlanetsAssumption DEF PlanetNew, World, Flags, PlanetsAssumption
<1>4. /\ planets \in [Worlds -> World]
      /\ \A i \in Worlds : /\ planets[i].find = g.find[i]
                           /\ planets[i].flags =
                                 IF i \in LastEnergium(g.find) THEN {"SETTLED"} ELSE {}
  BY <1>1, <1>3, PlaceKeeps
<1>5. Home = LastEnergium(g.find)
  <2>1. [i \in Worlds |-> planets[i].find] = g.find
    BY <1>2, <1>4
  <2> QED BY <2>1 DEF Home
<1>6. GalaxyOK /\ OrbitIsReal /\ Spent1
  BY <1>4 DEF Init, GalaxyOK, OrbitIsReal, Spent1
<1>7. SettlersAtHome
  BY <1>4, <1>5 DEF Init, SettlersAtHome
<1>8. ClockOK /\ CalledOnce
  BY Constants DEF Init, ClockOK, CalledOnce
<1>9. PoolOK
  <2>1. pool = [main |-> ENERGY_MAX, impulse |-> IMPULSE_MAX, shields |-> SHIELD_MAX]
        /\ told = 0
    BY DEF Init
  <2> QED BY <2>1, Constants, Banking DEF PoolOK
<1>10. GoodsOK
  BY Constants DEF Init, GoodsOK
<1>11. SwitchesOK
  BY Zenon DEF Init, SwitchesOK
<1> QED BY <1>6, <1>7, <1>8, <1>9, <1>10, <1>11 DEF Inv

LEMMA StutterHolds == ASSUME Inv, UNCHANGED vars PROVE Inv'
<1>1. GalaxyOK' /\ OrbitIsReal' /\ ClockOK' /\ CalledOnce' /\ GoodsOK'
  BY DEF Inv, GalaxyOK, OrbitIsReal, ClockOK, CalledOnce, GoodsOK, vars, galaxy, place, clock, goods
<1>2. Spent1' /\ SettlersAtHome'
  <2>1. Home' = Home
    BY HomeStays DEF vars, galaxy
  <2> QED BY <2>1 DEF Inv, Spent1, SettlersAtHome, SettlementLost, vars, galaxy, clock
<1>3. PoolOK'
  BY DEF Inv, PoolOK, Banked, vars
<1>4. SwitchesOK'
  BY Zenon DEF Inv, SwitchesOK, vars, goods
<1> QED BY <1>1, <1>2, <1>3, <1>4 DEF Inv

LEMMA StepHolds == Inv /\ [Next]_vars => Inv'
<1> SUFFICES ASSUME Inv, [Next]_vars PROVE Inv'
  OBVIOUS
<1>1. CASE Next
  <2>1. PoolOK' /\ GoodsOK' /\ SwitchesOK'
    BY <1>1, PoolSteps, GoodsSteps, SwitchSteps DEF Inv
  <2>2. ClockOK' /\ CalledOnce'
    BY <1>1, ClockSteps DEF Inv
  <2>3. GalaxyInv'
    BY <1>1, GalaxySteps
  <2> QED BY <2>1, <2>2, <2>3 DEF Inv, GalaxyInv
<1> QED BY <1>1, StutterHolds

LEMMA Invariant == Spec => []Inv
<1> QED BY InitHolds, StepHolds, PTL DEF Spec

-----------------------------------------------------------------------------
(* The theorems *)

\* No pool leaves its scale, whatever was diverted, mined and burnt: the banks
\* end at their maximum, or at one crystal above the regulations.
THEOREM TypeCorrect == Spec => []TypeOK
<1>1. Inv => TypeOK
  BY TypeParts DEF Inv
<1> QED BY <1>1, Invariant, PTL

\* Every landing may trust the orbit it starts from.
THEOREM OrbitsAreReal == Spec => []OrbitIsReal
<1>1. Inv => OrbitIsReal
  BY DEF Inv
<1> QED BY <1>1, Invariant, PTL

\* A world gives once, for any number of worlds, landings and fires.
THEOREM WorldsGiveOnce == Spec => OneGiftPerWorld
<1> DEFINE Gift == rescues' # rescues \/ (\E i \in Items : inventory'[i] > inventory[i])
                      => orbiting \notin given /\ orbiting \in given'
<1>1. Inv /\ [Next]_vars => [Gift]_vars
  <2> SUFFICES ASSUME Inv, Next PROVE Gift
    OBVIOUS
  <2>1. CASE rescues' # rescues
    BY <2>1, GalaxySteps, RescueHolds DEF Kept
  <2>2. CASE \E i \in Items : inventory'[i] > inventory[i]
    <3>1. orbiting # NONE /\ "TAKEN" \notin planets[orbiting].flags
          /\ given' = given \cup {orbiting}
      BY <2>2, GoodsSteps DEF Inv
    <3> QED BY <3>1 DEF Inv, Spent1
  <2> QED BY <2>1, <2>2
<1> QED BY <1>1, Invariant, PTL DEF Spec, OneGiftPerWorld

\* What the captain is told was lost had been there to lose.
THEOREM TellsTheTruth == Spec => TellsNoMoreThanItTakes
<1>1. Inv /\ [Next]_vars => [told' <= Less(Total(pool), Total(pool'))]_vars
  BY PoolSteps DEF Inv
<1> QED BY <1>1, Invariant, PTL DEF Spec, TellsNoMoreThanItTakes

-----------------------------------------------------------------------------
(* The refinement of Evacuation. *)

LEMMA FateKept ==
    ASSUME Inv, Kept
    PROVE  Home' = Home /\ (Fate' = Fate \/ (Fate = "there" /\ Fate' = "burnt" /\ nova' # nova))
<1>1. Home' = Home
  BY HomeStays DEF Kept, WorldsKeep
<1>2. \A i \in Home : planets'[i].quad = planets[i].quad
  BY DEF Kept, WorldsKeep, Home, LastEnergium
<1> QED BY <1>1, <1>2 DEF Kept, Fate

\* The settlers who call are at home, and their quadrant has not burnt.
LEMMA CallIsHeard ==
    ASSUME Inv, NEW w \in Warnings, Call(w), stardate' = stardate
    PROVE  \/ planet_evac_end' = planet_evac_end
           \/ /\ Fate = "there" /\ planet_evac_end = SCHED_NEVER
              /\ planet_evac_end' \in 0 .. (SCHED_NEVER - 1) /\ planet_evac_end' >= stardate
<1>1. SUFFICES ASSUME planet_evac_end' # planet_evac_end
               PROVE  /\ Fate = "there" /\ planet_evac_end = SCHED_NEVER
                      /\ planet_evac_end' \in 0 .. (SCHED_NEVER - 1)
                      /\ planet_evac_end' >= stardate
  OBVIOUS
<1>2. Settled # {} /\ ~(distress > stardate) /\ planet_evac_end' = stardate + w
  BY <1>1 DEF Call
<1>3. PICK i \in Worlds : "SETTLED" \in planets[i].flags
  BY <1>2 DEF Settled
<1>4. i \in Home /\ planets[i].quad \notin nova /\ rescues = 0
  BY <1>3 DEF Inv, SettlersAtHome
<1>5. \A j \in Home : j = i
  BY <1>4, OneHome
<1>6. Fate = "there"
  BY <1>4, <1>5 DEF Fate
<1>7. /\ stardate \in 0 .. MaxDate /\ MaxDate \in Nat /\ MaxDate < SCHED_NEVER
      /\ SCHED_NEVER \in Nat /\ w \in Nat /\ stardate + w < SCHED_NEVER
  BY Constants, PlanetsAssumption DEF Inv, ClockOK, PlanetsAssumption
<1>8. planet_evac_end = SCHED_NEVER
  BY <1>2, <1>7 DEF Inv, CalledOnce
<1> QED BY <1>2, <1>6, <1>7, <1>8

LEMMA RescueSaves == ASSUME Inv, Next, Rescue PROVE E!Save
<1>1. /\ orbiting \in Home /\ planets[orbiting].quad \notin nova /\ rescues = 0 /\ rescues' = 1
      /\ Home' = Home /\ ~SettlementLost /\ UNCHANGED <<stardate, nova>>
  BY RescueHolds
<1>2. \A j \in Home : j = orbiting
  BY <1>1, OneHome
<1>3. Fate = "there" /\ Fate' = "saved"
  BY <1>1, <1>2 DEF Fate
<1>4. stardate <= planet_evac_end
  BY <1>1 DEF SettlementLost, Inv, ClockOK
<1>5. planet_evac_end' = planet_evac_end
  BY DEF Rescue, Landing
<1> QED BY <1>1, <1>3, <1>4, <1>5 DEF E!Save

LEMMA StepRefines == Inv /\ [Next]_vars => [E!Next]_E!vars
<1> SUFFICES ASSUME Inv, [Next]_vars PROVE [E!Next]_E!vars
  OBVIOUS
<1>1. CASE UNCHANGED vars
  <2>1. Fate' = Fate
    <3>1. Home' = Home
      BY <1>1, HomeStays DEF vars, galaxy
    <3> QED BY <1>1, <3>1 DEF Fate, vars, galaxy
  <2> QED BY <1>1, <2>1 DEF E!vars, vars, clock
<1>2. CASE Rescue /\ Next
  BY <1>2, RescueSaves DEF E!Next
<1>3. CASE Kept /\ Next
  <2>1. Fate' = Fate \/ (Fate = "there" /\ Fate' = "burnt" /\ nova' # nova)
    BY <1>3, FateKept
  <2>2. rescues' = rescues /\ (nova' = nova \/ stardate' = stardate)
    BY <1>3 DEF Kept
  <2>3. CASE \E w \in Warnings, burnt \in {{}} \cup {{q} : q \in Quads} : RunTurn(w, burnt)
    <3>1. PICK w \in Warnings : Call(w) /\ stardate' = stardate
      BY <2>3 DEF RunTurn
    <3>2. CASE planet_evac_end' = planet_evac_end
      BY <2>1, <2>2, <3>1, <3>2 DEF E!Next, E!Burn, E!vars
    <3>3. CASE planet_evac_end' # planet_evac_end
      <4>1. /\ Fate = "there" /\ planet_evac_end = SCHED_NEVER
            /\ planet_evac_end' \in 0 .. (SCHED_NEVER - 1) /\ planet_evac_end' >= stardate
        BY <3>1, <3>3, CallIsHeard
      <4> QED BY <2>1, <2>2, <3>1, <4>1 DEF E!Next, E!CallForHelp
    <3> QED BY <3>2, <3>3
  <2>4. CASE ~\E w \in Warnings, burnt \in {{}} \cup {{q} : q \in Quads} : RunTurn(w, burnt)
    <3>1. planet_evac_end' = planet_evac_end
      BY <1>3, <2>4, ClockMoves
    <3>2. stardate <= stardate' /\ ClockOK'
      BY <1>3, ClockSteps DEF Inv
    <3>3. stardate \in Int /\ stardate' \in 0 .. (SCHED_NEVER - 1)
      BY <3>2, Constants DEF Inv, ClockOK
    <3>4. CASE stardate' = stardate
      BY <2>1, <2>2, <3>1, <3>4 DEF E!Next, E!Burn, E!vars
    <3>5. CASE stardate' # stardate
      <4>1. Fate' = Fate /\ stardate' > stardate
        BY <2>1, <2>2, <3>2, <3>3, <3>5
      <4> QED BY <2>2, <3>1, <3>3, <4>1 DEF E!Next, E!Pass
    <3> QED BY <3>4, <3>5
  <2> QED BY <2>3, <2>4
<1> QED BY <1>1, <1>2, <1>3, GalaxySteps

\* The planet chain keeps the promises of module Evacuation, for any galaxy.
THEOREM PlanetsImplementEvacuation == Spec => ImplementsEvacuation
<1>1. Init => E!Init
  <2> SUFFICES ASSUME Init PROVE E!Init
    OBVIOUS
  <2>1. stardate = 0 /\ rescues = 0 /\ nova = {} /\ planet_evac_end = SCHED_NEVER
    BY DEF Init
  <2>2. Fate \in {"none", "there"}
    BY <2>1 DEF Fate
  <2>3. 0 \in 0 .. (SCHED_NEVER - 1)
    BY PlanetsAssumption DEF PlanetsAssumption
  <2> QED BY <2>1, <2>2, <2>3 DEF E!Init
<1> QED BY <1>1, StepRefines, Invariant, PTL DEF Spec, ImplementsEvacuation, E!Spec
=============================================================================
