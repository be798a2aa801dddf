--------------------------- MODULE ScheduleProofs ---------------------------
(* Proofs about Schedule, for every galaxy, level, clock and spread.       *)
EXTENDS Schedule, TLAPS

USE ScheduleAssumption

\* A quadrant is not the mark for "no quadrant".
LEMMA NoQuadIsNoQuad == NoQuad \in Nat /\ NoQuad \notin Quads
  BY SMT DEF NoQuad, Quads, Cells

\* trek_schedule never stores Never and never leaves the sixteen bits.
LEMMA AtIsADate ==
  ASSUME NEW date \in Dates, NEW offset \in Nat
  PROVE  AtFrom(date, offset) \in 0 .. (Never - 1)
  BY SMT DEF AtFrom, Dates

\* A 16-bit sum of tenths is a date.
LEMMA SumIsADate ==
  ASSUME NEW date \in Dates, NEW tenths \in Nat
  PROVE  (date + tenths) % (Never + 1) \in Dates
  BY SMT DEF Dates

-----------------------------------------------------------------------------
\* The delays the schedule and the commands use are natural numbers.
LEMMA DelaysAreNat ==
  /\ FirstDelays \subseteq Nat /\ AttackDelays \subseteq Nat
  /\ FallDelays \subseteq Nat /\ DistressDelays \subseteq Nat
  /\ EvacDelays \subseteq Nat /\ ReinfFirst \subseteq Nat
  /\ ReinfAgain \subseteq Nat /\ HailDelays \subseteq Nat
  /\ MoveTimes \subseteq Nat /\ Waits \subseteq Nat
  BY DEF Delays

\* A new game's schedule is a schedule, with no fall in it.
LEMMA FirstScheduleType ==
  ASSUME NEW sc \in FirstSchedules
  PROVE  sc \in [Slots -> Dates] /\ sc[BASE_FALLS] = Never
<1>1. PICK a \in FirstDelays, d \in DistressDelays, r \in ReinfFirst :
         sc = FirstSchedule(a, d, r)
  BY DEF FirstSchedules
<1>2. /\ AtFrom(Start, a) \in Dates /\ AtFrom(Start, d) \in Dates
      /\ AtFrom(Start, r) \in Dates /\ Never \in Dates
  <2>1. a \in Nat /\ d \in Nat /\ r \in Nat
    BY DelaysAreNat
  <2>2. Start \in Dates /\ Never \in Dates /\ 0 .. (Never - 1) \subseteq Dates
    BY SMT DEF Dates
  <2> QED
    BY <2>1, <2>2, AtIsADate
<1>3. ASSUME NEW s \in Slots
      PROVE  FirstSchedule(a, d, r)[s] \in Dates
  BY <1>2, SMT DEF FirstSchedule, Slots, BASE_ATTACK, DISTRESS, REINFORCE
<1>4. FirstSchedule(a, d, r) = [s \in Slots |-> FirstSchedule(a, d, r)[s]]
  BY DEF FirstSchedule
<1>5. FirstSchedule(a, d, r)[BASE_FALLS] = Never
  BY SMT DEF FirstSchedule, Slots, BASE_ATTACK, BASE_FALLS, DISTRESS, REINFORCE
<1> QED
  BY <1>1, <1>3, <1>4, <1>5

\* Arming a slot, clearing one and relieving a siege keep the schedule typed.
LEMMA ArmingType ==
  ASSUME TypeOK, NEW slot \in Slots, NEW other \in Slots, NEW offset \in Nat
  PROVE  /\ At(offset) \in 0 .. (Never - 1)
         /\ Arm(slot, offset) \in [Slots -> Dates]
         /\ Cleared(slot) \in [Slots -> Dates]
         /\ [Cleared(slot) EXCEPT ![other] = At(offset)] \in [Slots -> Dates]
<1>1. At(offset) \in 0 .. (Never - 1)
  BY AtIsADate DEF TypeOK, At
<1>2. At(offset) \in Dates /\ Never \in Dates
  BY <1>1, SMT DEF Dates
<1> QED
  BY <1>1, <1>2, SMT DEF TypeOK, Arm, Cleared

LEMMA RelieveType ==
  ASSUME TypeOK, NEW S, Relieve(S)
  PROVE  /\ base_under_attack' \in Quads \cup {NoQuad}
         /\ sched' \in [Slots -> Dates]
<1>1. Never \in Dates
  BY SMT DEF Dates
<1>2. sched \in [Slots -> Dates] /\ base_under_attack \in Quads \cup {NoQuad}
  BY DEF TypeOK
<1>3. [sched EXCEPT ![BASE_FALLS] = Never] \in [Slots -> Dates]
  BY <1>1, <1>2
<1> QED
  BY <1>2, <1>3 DEF Relieve

LEMMA AdvanceType ==
  ASSUME TypeOK, NEW tenths \in Nat, Advance(tenths)
  PROVE  stardate' \in Dates
  BY SumIsADate DEF TypeOK, Advance

LEMMA BurnType ==
  ASSUME TypeOK, NEW q \in Quads, Burn(q)
  PROVE  /\ gal_base' \in [Quads -> BaseKinds] /\ gal_nova' \in SUBSET Quads
         /\ bases_lost' \in 0 .. MaxLost /\ settled' \in Quads \cup {NoQuad}
         /\ planet_evac_end' \in Dates /\ rescues' \in Nat
<1>1. gal_base' \in [Quads -> BaseKinds]
  BY SMT DEF TypeOK, Burn, BaseKinds
<1> QED
  BY <1>1 DEF TypeOK, Burn

-----------------------------------------------------------------------------
LEMMA InitType == Init => TypeOK
<1> SUFFICES ASSUME Init PROVE TypeOK
  OBVIOUS
<1>1. sched \in [Slots -> Dates]
  BY FirstScheduleType DEF Init
<1>2. gal_base \in [Quads -> BaseKinds] /\ settled \in Quads \cup {NoQuad}
  BY DEF Init
<1>3. /\ fired \in 0 .. MaxEvents /\ stardate \in Dates /\ bases_lost \in 0 .. MaxLost
      /\ planet_evac_end \in Dates /\ rescues \in Nat
  BY SMT DEF Init, Dates
<1> QED
  BY <1>1, <1>2, <1>3 DEF Init, TypeOK, BaseKinds

LEMMA NewGameType == ASSUME NewGame PROVE TypeOK'
<1>1. sched' \in [Slots -> Dates]
  BY FirstScheduleType DEF NewGame
<1>2. gal_base' \in [Quads -> BaseKinds] /\ settled' \in Quads \cup {NoQuad}
  BY DEF NewGame
<1>3. /\ fired' \in 0 .. MaxEvents /\ stardate' \in Dates /\ bases_lost' \in 0 .. MaxLost
      /\ planet_evac_end' \in Dates /\ rescues' \in Nat
  BY SMT DEF NewGame, Dates
<1> QED
  BY <1>1, <1>2, <1>3 DEF NewGame, TypeOK, BaseKinds

\* Every command of the captain keeps the types.
LEMMA CaptainType == ASSUME TypeOK, Captain PROVE TypeOK'
<1>1. CASE \E t \in MoveTimes \cup Waits : Spend(t)
  BY <1>1, DelaysAreNat, AdvanceType
     DEF TypeOK, Spend, galaxy, world, ship
<1>2. CASE \E t \in MoveTimes : Impulse(t)
  BY <1>2, DelaysAreNat, AdvanceType
     DEF TypeOK, Impulse, galaxy, world, BaseKinds
<1>3. CASE \E dest \in Quads, t \in MoveTimes : Arrive(dest, t)
  <2>1. PICK dest \in Quads, t \in MoveTimes : Arrive(dest, t)
    BY <1>3
  <2>2. stardate' \in Dates
    BY <2>1, DelaysAreNat, AdvanceType DEF Arrive
  <2>3. base_under_attack' \in Quads \cup {NoQuad} /\ sched' \in [Slots -> Dates]
    BY <2>1, RelieveType DEF Arrive
  <2> QED
    BY <2>1, <2>2, <2>3 DEF TypeOK, Arrive, galaxy, world, BaseKinds
<1>4. CASE Dock
  <2>1. stardate' \in Dates
    BY <1>4, AdvanceType, SMT DEF Dock
  <2> QED
    BY <1>4, <2>1 DEF TypeOK, Dock, galaxy, world
<1>5. CASE HailAtOnce \/ HailNobody \/ EndSalvo \/ GameOver
  BY <1>5 DEF TypeOK, HailAtOnce, HailNobody, EndSalvo, GameOver,
              clock, galaxy, world, ship
<1>6. CASE \E d \in HailDelays : HailOutOfRange(d)
  <2>1. PICK d \in HailDelays : HailOutOfRange(d)
    BY <1>6
  <2>2. sched' \in [Slots -> Dates]
    <3>1. HAIL \in Slots
      BY SMT DEF HAIL, Slots
    <3> QED
      BY <2>1, <3>1, ArmingType, DelaysAreNat DEF HailOutOfRange
  <2>3. hail_quad' \in Quads
    BY <2>1 DEF HailOutOfRange, Nearest, Hailed
  <2> QED
    BY <2>1, <2>2, <2>3 DEF TypeOK, HailOutOfRange, clock, galaxy, world, ship
<1>7. CASE Rescue
  <2>1. rescues' \in Nat
    BY <1>7, SMT DEF TypeOK, Rescue
  <2> QED
    BY <1>7, <2>1 DEF TypeOK, Rescue, clock, galaxy, ship
<1>8. CASE \E dest \in Quads : Supernova(dest)
  <2>1. PICK dest \in Quads : Supernova(dest)
    BY <1>8
  <2>2. quad \in Quads /\ Burn(quad)
    BY <2>1 DEF TypeOK, Supernova
  <2>3. base_under_attack' \in Quads \cup {NoQuad} /\ sched' \in [Slots -> Dates]
    BY <2>1, RelieveType DEF Supernova
  <2>4. quad' \in Quads /\ docked' \in BaseKinds /\ lost' \in BOOLEAN
    BY <2>1 DEF TypeOK, Supernova, BaseKinds
  <2> QED
    BY <2>1, <2>2, <2>3, <2>4, BurnType DEF TypeOK, Supernova, clock
<1>9. CASE NewGame
  BY <1>9, NewGameType
<1> QED
  BY <1>1, <1>2, <1>3, <1>4, <1>5, <1>6, <1>7, <1>8, <1>9 DEF Captain

\* So does every event of the drain, and its end.
LEMMA DrainType == ASSUME TypeOK, Drain PROVE TypeOK'
<1>0. \A s \in Slots : Firing(s) => fired' \in 0 .. MaxEvents
  BY SMT DEF Firing, TypeOK
<1>1. /\ BASE_ATTACK \in Slots /\ BASE_FALLS \in Slots /\ DISTRESS \in Slots
      /\ HAIL \in Slots /\ REINFORCE \in Slots
  BY SMT DEF BASE_ATTACK, BASE_FALLS, DISTRESS, HAIL, REINFORCE, Slots
<1>2. \A s \in Slots : Cleared(s) \in [Slots -> Dates]
  BY ArmingType, <1>1
<1>3. CASE \E d \in FallDelays : FireAttack(d)
  <2>1. PICK d \in FallDelays : FireAttack(d)
    BY <1>3
  <2>2. d \in Nat
    BY DelaysAreNat
  <2>3. sched' \in [Slots -> Dates]
    BY <2>1, <2>2, <1>1, <1>2, ArmingType DEF FireAttack
  <2>4. base_under_attack' \in Quads \cup {NoQuad}
    BY <2>1 DEF FireAttack, Targets, TypeOK
  <2> QED
    BY <2>1, <2>3, <2>4, <1>0, <1>1 DEF TypeOK, FireAttack, Firing, clock, ship
<1>4. CASE \E d \in AttackDelays : FireFall(d)
  <2>1. PICK d \in AttackDelays : FireFall(d)
    BY <1>4
  <2>2. d \in Nat
    BY DelaysAreNat
  <2>3. sched' \in [Slots -> Dates]
    <3>1. \/ sched' = Cleared(BASE_FALLS)
          \/ sched' = [Cleared(BASE_FALLS) EXCEPT ![BASE_ATTACK] = At(d)]
      BY <2>1 DEF FireFall
    <3>2. [Cleared(BASE_FALLS) EXCEPT ![BASE_ATTACK] = At(d)] \in [Slots -> Dates]
      BY <2>2, <1>1, ArmingType
    <3> QED
      BY <3>1, <3>2, <1>1, <1>2
  <2>4. bases_lost' \in 0 .. MaxLost
    <3>1. \/ bases_lost' = bases_lost
          \/ bases_lost < MaxLost /\ bases_lost' = bases_lost + 1
      BY <2>1 DEF FireFall
    <3>2. bases_lost \in 0 .. MaxLost
      BY DEF TypeOK
    <3> QED
      BY <3>1, <3>2, SMT
  <2>5. gal_base' \in [Quads -> BaseKinds]
    <3>1. gal_base' = gal_base \/ gal_base' = [gal_base EXCEPT ![base_under_attack] = "none"]
      BY <2>1 DEF FireFall
    <3>2. gal_base \in [Quads -> BaseKinds] /\ "none" \in BaseKinds
      BY DEF TypeOK, BaseKinds
    <3> QED
      BY <3>1, <3>2
  <2>6. base_under_attack' \in Quads \cup {NoQuad}
    BY <2>1 DEF TypeOK, FireFall
  <2> QED
    BY <2>1, <2>3, <2>4, <2>5, <2>6, <1>0, <1>1 DEF TypeOK, FireFall, Firing, clock, ship
<1>5. CASE \E d \in EvacDelays : FireDistress(d)
  <2>1. PICK d \in EvacDelays : FireDistress(d)
    BY <1>5
  <2>2. planet_evac_end' \in Dates
    BY <2>1, DelaysAreNat, SumIsADate DEF TypeOK, FireDistress
  <2>3. sched' \in [Slots -> Dates]
    BY <2>1, <1>1, <1>2 DEF FireDistress
  <2> QED
    BY <2>1, <2>2, <2>3, <1>0, <1>1 DEF TypeOK, FireDistress, Firing, clock, ship
<1>6. CASE FireHail
  <2>1. sched' \in [Slots -> Dates]
    BY <1>6, <1>1, <1>2 DEF FireHail
  <2> QED
    BY <1>6, <2>1, <1>0, <1>1 DEF TypeOK, FireHail, Firing, clock, ship
<1>7. CASE \E d \in ReinfAgain : FireReinforce(d)
  <2>1. PICK d \in ReinfAgain : FireReinforce(d)
    BY <1>7
  <2>2. sched' \in [Slots -> Dates]
    BY <2>1, <1>1, DelaysAreNat, ArmingType DEF FireReinforce
  <2> QED
    BY <2>1, <2>2, <1>0, <1>1 DEF TypeOK, FireReinforce, Firing, clock, ship
<1>8. CASE Drained
  <2>1. fired' \in 0 .. MaxEvents
    BY <1>8, SMT DEF Drained
  <2> QED
    BY <1>8, <2>1 DEF TypeOK, Drained, clock, galaxy, world, ship
<1> QED
  BY <1>3, <1>4, <1>5, <1>6, <1>7, <1>8 DEF Drain

LEMMA ChanceType == ASSUME TypeOK, Chance PROVE TypeOK'
<1>1. CASE RunNova
  <2>1. PICK q \in Starry \ gal_nova : Row(q) # Row(quad) /\ Burn(q) /\ Relieve({q})
    BY <1>1 DEF RunNova
  <2>2. q \in Quads
    BY ScheduleAssumption
  <2> QED
    BY <1>1, <2>1, <2>2, BurnType, RelieveType DEF TypeOK, RunNova, clock, ship
<1>2. CASE QuietTurn
  BY <1>2 DEF TypeOK, QuietTurn, clock, galaxy, world, ship
<1> QED
  BY <1>1, <1>2 DEF Chance

LEMMA StutterType == ASSUME TypeOK, UNCHANGED vars PROVE TypeOK'
  BY DEF TypeOK, vars, galaxy, world, ship

\* Whatever is played, every variable keeps the type the program stores in it.
THEOREM TypeCorrect == Spec => []TypeOK
<1>1. TypeOK /\ [Next]_vars => TypeOK'
  BY CaptainType, DrainType, ChanceType, StutterType DEF Next
<1> QED
  BY InitType, <1>1, PTL DEF Spec

-----------------------------------------------------------------------------
(* The sieges.  SiegeHasDeadline is inductive once the types are known.    *)

LEMMA SlotsDiffer ==
  /\ BASE_ATTACK \in Slots /\ BASE_FALLS \in Slots /\ DISTRESS \in Slots
  /\ HAIL \in Slots /\ REINFORCE \in Slots
  /\ BASE_ATTACK # BASE_FALLS /\ BASE_ATTACK # DISTRESS
  /\ BASE_ATTACK # HAIL /\ BASE_ATTACK # REINFORCE
  /\ BASE_FALLS # DISTRESS /\ BASE_FALLS # HAIL /\ BASE_FALLS # REINFORCE
  /\ HAIL # DISTRESS /\ HAIL # REINFORCE
  BY SMT DEF BASE_ATTACK, BASE_FALLS, DISTRESS, HAIL, REINFORCE, Slots

\* What is armed has a date.
LEMMA ArmedHasDate ==
  ASSUME TypeOK, NEW offset \in Nat
  PROVE  At(offset) # Never /\ At(offset) \in Dates
<1>1. At(offset) \in 0 .. (Never - 1)
  BY AtIsADate DEF TypeOK, At
<1> QED
  BY <1>1, SMT DEF Dates

\* A relief clears mark and deadline together and touches nothing else.
LEMMA RelieveEffect ==
  ASSUME TypeOK, SiegeHasDeadline, NEW S \in SUBSET Quads, Relieve(S)
  PROVE  /\ base_under_attack' \in {base_under_attack, NoQuad}
         /\ base_under_attack' \notin S
         /\ base_under_attack' # NoQuad <=> sched'[BASE_FALLS] # Never
         /\ \A s \in Slots \ {BASE_FALLS} : sched'[s] = sched[s]
         /\ sched'[BASE_FALLS] \in {sched[BASE_FALLS], Never}
<1>1. sched \in [Slots -> Dates] /\ NoQuad \notin S
  BY NoQuadIsNoQuad DEF TypeOK
<1>2. CASE base_under_attack \in S
  <2>1. base_under_attack' = NoQuad /\ sched' = [sched EXCEPT ![BASE_FALLS] = Never]
    BY <1>2 DEF Relieve
  <2> QED
    BY <1>1, <2>1, SlotsDiffer
<1>3. CASE base_under_attack \notin S
  BY <1>1, <1>3 DEF Relieve, SiegeHasDeadline
<1> QED
  BY <1>2, <1>3

Sieges == TypeOK /\ SiegeHasDeadline /\ HailHasDate

LEMMA InitSieges == Init => Sieges
<1> SUFFICES ASSUME Init PROVE Sieges
  OBVIOUS
<1>1. sched[BASE_FALLS] = Never
  BY FirstScheduleType DEF Init
<1> QED
  BY <1>1, InitType DEF Init, Sieges, SiegeHasDeadline, HailHasDate

LEMMA NewGameSieges == ASSUME NewGame PROVE SiegeHasDeadline' /\ HailHasDate'
<1>1. sched'[BASE_FALLS] = Never
  BY FirstScheduleType DEF NewGame
<1> QED
  BY <1>1 DEF NewGame, SiegeHasDeadline, HailHasDate

\* A step that leaves marks and schedule alone and takes no base but an
\* unbesieged one keeps the sieges in order.
LEMMA SameSieges ==
  ASSUME Sieges, UNCHANGED <<sched, base_under_attack, hail_quad>>,
         base_under_attack # NoQuad
            => gal_base'[base_under_attack] = gal_base[base_under_attack]
  PROVE  SiegeHasDeadline' /\ HailHasDate'
  BY DEF Sieges, SiegeHasDeadline, HailHasDate

\* The same for a relief of the quadrants that burn, if any.
LEMMA RelievedSieges ==
  ASSUME Sieges, NEW S \in SUBSET Quads, Relieve(S), UNCHANGED hail_quad,
         \A q \in Quads \ S : gal_base'[q] = gal_base[q]
  PROVE  SiegeHasDeadline' /\ HailHasDate'
<1> USE DEF Sieges
<1>1. sched \in [Slots -> Dates] /\ base_under_attack \in Quads \cup {NoQuad}
  BY DEF TypeOK
<1>2. sched'[BASE_ATTACK] = sched[BASE_ATTACK] /\ sched'[HAIL] = sched[HAIL]
  BY RelieveEffect, SlotsDiffer
<1>3. HailHasDate'
  BY <1>2 DEF HailHasDate
<1>4. base_under_attack' # NoQuad <=> sched'[BASE_FALLS] # Never
  BY RelieveEffect
<1>5. base_under_attack' # NoQuad => gal_base'[base_under_attack'] # "none"
  BY <1>1, RelieveEffect DEF SiegeHasDeadline
<1>6. ~(sched'[BASE_ATTACK] # Never /\ sched'[BASE_FALLS] # Never)
  BY <1>2, RelieveEffect DEF SiegeHasDeadline
<1> QED
  BY <1>3, <1>4, <1>5, <1>6 DEF SiegeHasDeadline

\* Arming one slot that is neither of the two sieges' slots.
LEMMA OtherSlotSieges ==
  ASSUME Sieges, NEW slot \in {DISTRESS, HAIL, REINFORCE}, NEW date \in Dates,
         sched' = [sched EXCEPT ![slot] = date],
         UNCHANGED <<base_under_attack, gal_base>>
  PROVE  /\ SiegeHasDeadline'
         /\ \A s \in Slots \ {slot} : sched'[s] = sched[s]
         /\ sched'[slot] = date
<1>1. sched \in [Slots -> Dates]
  BY DEF Sieges, TypeOK
<1>2. /\ sched'[BASE_ATTACK] = sched[BASE_ATTACK]
      /\ sched'[BASE_FALLS] = sched[BASE_FALLS]
  BY <1>1, SlotsDiffer
<1>3. (\A s \in Slots \ {slot} : sched'[s] = sched[s]) /\ sched'[slot] = date
  BY <1>1, SlotsDiffer
<1> QED
  BY <1>2, <1>3 DEF Sieges, SiegeHasDeadline

LEMMA CaptainSieges ==
  ASSUME Sieges, Captain PROVE SiegeHasDeadline' /\ HailHasDate'
<1>1. CASE \/ \E t \in MoveTimes \cup Waits : Spend(t)
           \/ \E t \in MoveTimes : Impulse(t)
           \/ Dock \/ HailAtOnce \/ Rescue \/ EndSalvo \/ GameOver
  <2>1. UNCHANGED <<sched, base_under_attack, hail_quad, gal_base>>
    BY <1>1 DEF Spend, Impulse, Dock, HailAtOnce, Rescue, EndSalvo, GameOver, galaxy
  <2> QED
    BY <2>1, SameSieges
<1>2. CASE \E dest \in Quads, t \in MoveTimes : Arrive(dest, t)
  <2>1. PICK dest \in Quads, t \in MoveTimes : Arrive(dest, t)
    BY <1>2
  <2>2. Relieve({dest}) /\ UNCHANGED <<hail_quad, gal_base>>
    BY <2>1 DEF Arrive, galaxy
  <2> QED
    BY <2>2, RelievedSieges
<1>3. CASE HailNobody
  BY <1>3 DEF Sieges, HailNobody, galaxy, SiegeHasDeadline, HailHasDate
<1>4. CASE \E d \in HailDelays : HailOutOfRange(d)
  <2>1. PICK d \in HailDelays : HailOutOfRange(d)
    BY <1>4
  <2>2. At(d) # Never /\ At(d) \in Dates
    BY DelaysAreNat, ArmedHasDate DEF Sieges
  <2>3. sched' = [sched EXCEPT ![HAIL] = At(d)]
    BY <2>1 DEF HailOutOfRange, Arm
  <2>4. UNCHANGED <<base_under_attack, gal_base>>
    BY <2>1 DEF HailOutOfRange, galaxy
  <2>5. SiegeHasDeadline' /\ sched'[HAIL] = At(d)
    BY <2>2, <2>3, <2>4, OtherSlotSieges
  <2> QED
    BY <2>2, <2>5 DEF HailHasDate
<1>5. CASE \E dest \in Quads : Supernova(dest)
  <2>1. PICK dest \in Quads : Supernova(dest)
    BY <1>5
  <2>2. quad \in Quads /\ gal_base \in [Quads -> BaseKinds]
    BY DEF Sieges, TypeOK
  <2>3. \A q \in Quads \ {quad} : gal_base'[q] = gal_base[q]
    BY <2>1, <2>2 DEF Supernova, Burn
  <2>4. PICK S \in {{quad}, {quad, dest}} : Relieve(S)
    BY <2>1 DEF Supernova
  <2>5. S \in SUBSET Quads /\ quad \in S
    BY <2>2, <2>4
  <2>6. UNCHANGED hail_quad
    BY <2>1 DEF Supernova
  <2>7. \A q \in Quads \ S : gal_base'[q] = gal_base[q]
    BY <2>3, <2>5
  <2> QED
    BY <2>4, <2>5, <2>6, <2>7, RelievedSieges
<1>6. CASE NewGame
  BY <1>6, NewGameSieges
<1> QED
  BY <1>1, <1>2, <1>3, <1>4, <1>5, <1>6 DEF Captain

\* What the slot that fires was, and what clearing it does.
LEMMA FiringClears ==
  ASSUME Sieges, NEW slot \in Slots, Firing(slot)
  PROVE  /\ sched[slot] # Never
         /\ Cleared(slot) \in [Slots -> Dates]
         /\ Cleared(slot)[slot] = Never
         /\ \A s \in Slots \ {slot} : Cleared(slot)[s] = sched[s]
<1>1. sched \in [Slots -> Dates] /\ Never \in Dates
  BY SMT DEF Sieges, TypeOK, Dates
<1>2. sched[slot] < Never
  BY DEF Firing, Earliest, Due
<1>3. sched[slot] # Never
  BY <1>1, <1>2, SMT DEF Dates
<1> QED
  BY <1>1, <1>3 DEF Cleared

LEMMA DrainSieges ==
  ASSUME Sieges, Drain PROVE SiegeHasDeadline' /\ HailHasDate'
<1>1. CASE \E d \in FallDelays : FireAttack(d)
  <2>1. PICK d \in FallDelays : FireAttack(d)
    BY <1>1
  <2>2. Firing(BASE_ATTACK) /\ UNCHANGED <<hail_quad, gal_base>>
    BY <2>1 DEF FireAttack
  <2>3. sched[BASE_ATTACK] # Never /\ sched[BASE_FALLS] = Never
    BY <2>2, FiringClears, SlotsDiffer DEF Sieges, SiegeHasDeadline
  <2>4. base_under_attack = NoQuad
    BY <2>3 DEF Sieges, SiegeHasDeadline
  <2>5. /\ Cleared(BASE_ATTACK)[BASE_ATTACK] = Never
        /\ Cleared(BASE_ATTACK)[BASE_FALLS] = Never
        /\ Cleared(BASE_ATTACK)[HAIL] = sched[HAIL]
    BY <2>2, <2>3, FiringClears, SlotsDiffer
  <2>6. CASE Targets = {}
    <3>1. sched' = Cleared(BASE_ATTACK) /\ UNCHANGED base_under_attack
      BY <2>1, <2>6 DEF FireAttack
    <3> QED
      BY <3>1, <2>2, <2>4, <2>5 DEF Sieges, SiegeHasDeadline, HailHasDate
  <2>7. CASE Targets # {}
    <3>1. /\ base_under_attack' \in Targets
          /\ sched' = [Cleared(BASE_ATTACK) EXCEPT ![BASE_FALLS] = At(d)]
      BY <2>1, <2>7 DEF FireAttack
    <3>2. base_under_attack' # NoQuad /\ gal_base[base_under_attack'] # "none"
      BY <3>1, NoQuadIsNoQuad DEF Targets
    <3>3. Cleared(BASE_ATTACK) \in [Slots -> Dates]
      BY <2>2, FiringClears, SlotsDiffer
    <3>4. /\ sched'[BASE_ATTACK] = Never /\ sched'[BASE_FALLS] = At(d)
          /\ sched'[HAIL] = sched[HAIL]
      BY <2>5, <3>1, <3>3, SlotsDiffer
    <3>5. At(d) # Never
      BY DelaysAreNat, ArmedHasDate DEF Sieges
    <3> QED
      BY <2>2, <3>2, <3>4, <3>5 DEF Sieges, SiegeHasDeadline, HailHasDate
  <2> QED
    BY <2>6, <2>7
<1>2. CASE \E d \in AttackDelays : FireFall(d)
  <2>1. PICK d \in AttackDelays : FireFall(d)
    BY <1>2
  <2>2. Firing(BASE_FALLS) /\ UNCHANGED hail_quad
    BY <2>1 DEF FireFall
  <2>3. sched[BASE_FALLS] # Never /\ Cleared(BASE_FALLS) \in [Slots -> Dates]
    BY <2>2, FiringClears, SlotsDiffer
  <2>4. base_under_attack # NoQuad
    BY <2>3 DEF Sieges, SiegeHasDeadline
  <2>5. /\ base_under_attack' = NoQuad
        /\ sched' = [Cleared(BASE_FALLS) EXCEPT ![BASE_ATTACK] = At(d)]
    BY <2>1, <2>4 DEF FireFall
  <2>6. Cleared(BASE_FALLS)[BASE_FALLS] = Never /\ Cleared(BASE_FALLS)[HAIL] = sched[HAIL]
    BY <2>2, FiringClears, SlotsDiffer
  <2>7. sched'[BASE_FALLS] = Never /\ sched'[HAIL] = sched[HAIL]
    BY <2>3, <2>5, <2>6, SlotsDiffer
  <2> QED
    BY <2>2, <2>5, <2>7 DEF Sieges, SiegeHasDeadline, HailHasDate
<1>3. CASE \E d \in EvacDelays : FireDistress(d)
  <2>1. PICK d \in EvacDelays : FireDistress(d)
    BY <1>3
  <2>2. /\ sched' = [sched EXCEPT ![DISTRESS] = Never]
        /\ UNCHANGED <<hail_quad, gal_base, base_under_attack>>
    BY <2>1 DEF FireDistress, Cleared
  <2>3. Never \in Dates
    BY SMT DEF Dates
  <2>4. SiegeHasDeadline' /\ sched'[HAIL] = sched[HAIL]
    BY <2>2, <2>3, OtherSlotSieges, SlotsDiffer
  <2> QED
    BY <2>2, <2>4 DEF Sieges, HailHasDate
<1>4. CASE FireHail
  <2>1. /\ sched' = [sched EXCEPT ![HAIL] = Never] /\ hail_quad' = NoQuad
        /\ UNCHANGED <<gal_base, base_under_attack>>
    BY <1>4 DEF FireHail, Cleared
  <2>2. Never \in Dates
    BY SMT DEF Dates
  <2>3. SiegeHasDeadline'
    BY <2>1, <2>2, OtherSlotSieges
  <2> QED
    BY <2>1, <2>3 DEF HailHasDate
<1>5. CASE \E d \in ReinfAgain : FireReinforce(d)
  <2>1. PICK d \in ReinfAgain : FireReinforce(d)
    BY <1>5
  <2>2. UNCHANGED <<hail_quad, gal_base, base_under_attack>>
    BY <2>1 DEF FireReinforce
  <2>3. Firing(REINFORCE) /\ At(d) \in Dates
    BY <2>1, DelaysAreNat, ArmedHasDate DEF FireReinforce, Sieges
  <2>4. sched' = [sched EXCEPT ![REINFORCE] = At(d)]
    BY <2>1 DEF FireReinforce, Cleared
  <2>5. SiegeHasDeadline' /\ sched'[HAIL] = sched[HAIL]
    BY <2>2, <2>3, <2>4, OtherSlotSieges, SlotsDiffer
  <2> QED
    BY <2>2, <2>5 DEF Sieges, HailHasDate
<1>6. CASE Drained
  BY <1>6, SameSieges DEF Drained, galaxy
<1> QED
  BY <1>1, <1>2, <1>3, <1>4, <1>5, <1>6 DEF Drain

LEMMA ChanceSieges ==
  ASSUME Sieges, Chance PROVE SiegeHasDeadline' /\ HailHasDate'
<1>1. CASE RunNova
  <2>1. PICK q \in Starry \ gal_nova : Row(q) # Row(quad) /\ Burn(q) /\ Relieve({q})
    BY <1>1 DEF RunNova
  <2>2. {q} \in SUBSET Quads /\ gal_base \in [Quads -> BaseKinds]
    BY ScheduleAssumption DEF Sieges, TypeOK
  <2>3. \A r \in Quads \ {q} : gal_base'[r] = gal_base[r]
    BY <2>1, <2>2 DEF Burn
  <2> QED
    BY <1>1, <2>1, <2>2, <2>3, RelievedSieges DEF RunNova
<1>2. CASE QuietTurn
  BY <1>2, SameSieges DEF QuietTurn, galaxy
<1> QED
  BY <1>1, <1>2 DEF Chance

LEMMA SiegesStep == Sieges /\ [Next]_vars => Sieges'
<1> SUFFICES ASSUME Sieges, [Next]_vars PROVE Sieges'
  OBVIOUS
<1>1. TypeOK'
  BY CaptainType, DrainType, ChanceType, StutterType DEF Sieges, Next
<1>2. SiegeHasDeadline' /\ HailHasDate'
  <2>1. CASE UNCHANGED vars
    BY <2>1, SameSieges DEF vars, galaxy
  <2> QED
    BY <2>1, CaptainSieges, DrainSieges, ChanceSieges DEF Next
<1> QED
  BY <1>1, <1>2 DEF Sieges

LEMMA SiegesAlways == Spec => []Sieges
  BY InitSieges, SiegesStep, PTL DEF Spec

\* In every game a quadrant is marked under attack exactly while the fall of
\* its standing base is dated, and no second raid is armed meanwhile.
THEOREM SiegesAreSound == Spec => []SiegeHasDeadline
<1>1. Sieges => SiegeHasDeadline
  BY DEF Sieges
<1> QED
  BY SiegesAlways, <1>1, PTL

\* In every game a base that owes an answer has a date to give it.
THEOREM HailsAreSound == Spec => []HailHasDate
<1>1. Sieges => HailHasDate
  BY DEF Sieges
<1> QED
  BY SiegesAlways, <1>1, PTL

-----------------------------------------------------------------------------
(* Steps: what may become of a siege's deadline, of a base, of a threat.   *)

\* A relief on the way of the captain or of a nova, seen from the slots.
LEMMA RelieveSlots ==
  ASSUME Sieges, NEW S \in SUBSET Quads, Relieve(S)
  PROVE  /\ sched'[BASE_ATTACK] = sched[BASE_ATTACK]
         /\ \/ /\ sched'[BASE_FALLS] = sched[BASE_FALLS]
               /\ UNCHANGED base_under_attack
            \/ /\ sched[BASE_FALLS] # Never
               /\ sched'[BASE_FALLS] = Never /\ base_under_attack' = NoQuad
<1>1. sched \in [Slots -> Dates] /\ NoQuad \notin S
  BY NoQuadIsNoQuad DEF Sieges, TypeOK
<1>2. CASE base_under_attack \in S
  BY <1>1, <1>2, SlotsDiffer DEF Relieve, Sieges, SiegeHasDeadline
<1>3. CASE base_under_attack \notin S
  BY <1>3 DEF Relieve
<1> QED
  BY <1>2, <1>3

\* The deadline of a siege is met or cancelled, never moved.
LEMMA PromiseStep ==
  ASSUME Sieges, [Next]_vars,
         sched[BASE_FALLS] # Never, sched'[BASE_FALLS] # Never
  PROVE  sched'[BASE_FALLS] = sched[BASE_FALLS]
<1> USE DEF Sieges
<1>0. sched \in [Slots -> Dates]
  BY DEF TypeOK
<1>1. ASSUME NEW S \in SUBSET Quads, Relieve(S)
      PROVE  sched'[BASE_FALLS] = sched[BASE_FALLS]
  BY <1>1, RelieveSlots
<1>2. CASE Captain
  <2>1. CASE \E dest \in Quads, t \in MoveTimes : Arrive(dest, t)
    BY <2>1, <1>1 DEF Arrive
  <2>2. CASE \E d \in HailDelays : HailOutOfRange(d)
    BY <2>2, <1>0, SlotsDiffer DEF HailOutOfRange, Arm
  <2>3. CASE \E dest \in Quads : Supernova(dest)
    <3>1. PICK dest \in Quads : Supernova(dest)
      BY <2>3
    <3>2. PICK S \in {{quad}, {quad, dest}} : Relieve(S)
      BY <3>1 DEF Supernova
    <3> QED
      BY <3>2, <1>1 DEF TypeOK
  <2>4. CASE NewGame
    <3>1. sched'[BASE_FALLS] = Never
      BY <2>4, FirstScheduleType DEF NewGame
    <3> QED
      BY <3>1
  <2> QED
    BY <1>2, <2>1, <2>2, <2>3, <2>4
       DEF Captain, Spend, Impulse, Dock, HailAtOnce, HailNobody, Rescue,
           EndSalvo, GameOver
<1>3. CASE Drain
  <2>1. CASE \E d \in FallDelays : FireAttack(d)
    BY <2>1, FiringClears, SlotsDiffer DEF FireAttack, SiegeHasDeadline
  <2>2. CASE \E d \in AttackDelays : FireFall(d)
    <3>1. PICK d \in AttackDelays : FireFall(d)
      BY <2>2
    <3>2. Firing(BASE_FALLS) /\ base_under_attack # NoQuad
      BY <3>1 DEF FireFall, SiegeHasDeadline
    <3>3. sched' = [Cleared(BASE_FALLS) EXCEPT ![BASE_ATTACK] = At(d)]
      BY <3>1, <3>2 DEF FireFall
    <3>4. sched'[BASE_FALLS] = Never
      BY <3>2, <3>3, FiringClears, SlotsDiffer
    <3> QED
      BY <3>4
  <2>3. CASE \/ \E d \in EvacDelays : FireDistress(d)
             \/ FireHail
             \/ \E d \in ReinfAgain : FireReinforce(d)
    BY <2>3, <1>0, SlotsDiffer DEF FireDistress, FireHail, FireReinforce, Cleared
  <2>4. CASE Drained
    BY <2>4 DEF Drained
  <2> QED
    BY <1>3, <2>1, <2>2, <2>3, <2>4 DEF Drain
<1>4. CASE Chance
  <2>1. CASE RunNova
    <3>1. PICK q \in Starry \ gal_nova : Relieve({q})
      BY <2>1 DEF RunNova
    <3> QED
      BY <3>1, <1>1, ScheduleAssumption
  <2> QED
    BY <1>4, <2>1 DEF Chance, QuietTurn
<1>5. CASE UNCHANGED vars
  BY <1>5 DEF vars
<1> QED
  BY <1>2, <1>3, <1>4, <1>5 DEF Next

\* The date a siege was announced with is never moved.
THEOREM DeadlinesArePromises == Spec => PromiseKept
<1>1. Sieges /\ [Next]_vars =>
        [sched[BASE_FALLS] # Never /\ sched'[BASE_FALLS] # Never
           => sched'[BASE_FALLS] = sched[BASE_FALLS]]_vars
  BY PromiseStep
<1> QED
  BY SiegesAlways, <1>1, PTL DEF Spec, PromiseKept

-----------------------------------------------------------------------------
(* Schedule implements Bases.                                              *)

BaseView == <<gal_base, bases_lost, base_under_attack,
              sched[BASE_ATTACK], sched[BASE_FALLS]>>

\* What Bases sees depends on these five pieces of the state only.
LEMMA ViewDecides == UNCHANGED BaseView => UNCHANGED B!vars
  BY DEF BaseView, B!vars, Standing, Threat

LEMMA NewGameRefines == NewGame => B!NewGame
<1> SUFFICES ASSUME NewGame PROVE B!NewGame
  OBVIOUS
<1>1. PICK a \in FirstDelays, d \in DistressDelays, r \in ReinfFirst :
         sched' = FirstSchedule(a, d, r)
  BY DEF NewGame, FirstSchedules
<1>2. sched'[BASE_ATTACK] = AtFrom(Start, a)
  BY <1>1, SlotsDiffer DEF FirstSchedule
<1>3. AtFrom(Start, a) # Never
  <2>1. Start \in Dates /\ a \in Nat
    BY DelaysAreNat, SMT DEF Dates
  <2>2. AtFrom(Start, a) \in 0 .. (Never - 1)
    BY <2>1, AtIsADate
  <2> QED
    BY <2>2, SMT
<1>4. Threat' = "raid"
  BY <1>2, <1>3 DEF Threat
<1>5. Standing' \in SUBSET Quads
  BY DEF Standing
<1> QED
  BY <1>4, <1>5 DEF NewGame, B!NewGame

LEMMA InitRefines == Init => B!Init
<1> SUFFICES ASSUME Init PROVE B!Init
  OBVIOUS
<1>1. PICK a \in FirstDelays, d \in DistressDelays, r \in ReinfFirst :
         sched = FirstSchedule(a, d, r)
  BY DEF Init, FirstSchedules
<1>2. sched[BASE_ATTACK] = AtFrom(Start, a)
  BY <1>1, SlotsDiffer DEF FirstSchedule
<1>3. AtFrom(Start, a) # Never
  <2>1. Start \in Dates /\ a \in Nat
    BY DelaysAreNat, SMT DEF Dates
  <2>2. AtFrom(Start, a) \in 0 .. (Never - 1)
    BY <2>1, AtIsADate
  <2> QED
    BY <2>2, SMT
<1>4. Threat = "raid"
  BY <1>2, <1>3 DEF Threat
<1>5. Standing \in SUBSET Quads
  BY DEF Standing
<1> QED
  BY <1>4, <1>5 DEF Init, B!Init

\* A relief without fire is Bases' Relief, or nothing at all.
LEMMA RelieveRefines ==
  ASSUME Sieges, NEW S \in SUBSET Quads, Relieve(S)
  PROVE  \/ UNCHANGED <<base_under_attack, Threat>>
         \/ Threat = "siege" /\ B!Lifted
<1>1. sched'[BASE_ATTACK] = sched[BASE_ATTACK]
  BY RelieveSlots
<1>2. CASE sched'[BASE_FALLS] = sched[BASE_FALLS] /\ UNCHANGED base_under_attack
  BY <1>1, <1>2 DEF Threat
<1>3. CASE /\ sched[BASE_FALLS] # Never
           /\ sched'[BASE_FALLS] = Never /\ base_under_attack' = NoQuad
  BY <1>1, <1>3 DEF Threat, Sieges, SiegeHasDeadline, B!Lifted
<1> QED
  BY <1>2, <1>3, RelieveSlots

\* A quadrant that burns is Bases' Burn, with the relief it may bring.
LEMMA BurnRefines ==
  ASSUME Sieges, NEW q \in Quads, NEW S \in SUBSET Quads, q \in S,
         Burn(q), Relieve(S)
  PROVE  B!Burn(q)
<1>1. Standing' = Standing \ {q} /\ UNCHANGED bases_lost
  BY DEF Burn, Standing, Sieges, TypeOK
<1>2. base_under_attack' = base_under_attack => base_under_attack # q
  BY RelieveEffect DEF Sieges
<1>3. \/ base_under_attack # q /\ UNCHANGED <<base_under_attack, Threat>>
      \/ Threat = "siege" /\ B!Lifted
  BY <1>2, RelieveRefines
<1> QED
  BY <1>1, <1>3 DEF B!Burn

LEMMA CaptainRefines == ASSUME Sieges, Captain PROVE [B!Next]_(B!vars)
<1>1. CASE \/ \E t \in MoveTimes \cup Waits : Spend(t)
           \/ \E t \in MoveTimes : Impulse(t)
           \/ Dock \/ HailAtOnce \/ HailNobody \/ Rescue \/ EndSalvo \/ GameOver
  <2>1. UNCHANGED BaseView
    BY <1>1 DEF Spend, Impulse, Dock, HailAtOnce, HailNobody, Rescue, EndSalvo,
                GameOver, galaxy, BaseView
  <2> QED
    BY <2>1, ViewDecides
<1>2. CASE \E dest \in Quads, t \in MoveTimes : Arrive(dest, t)
  <2>1. PICK dest \in Quads, t \in MoveTimes : Arrive(dest, t)
    BY <1>2
  <2>2. Relieve({dest}) /\ UNCHANGED <<Standing, bases_lost>>
    BY <2>1 DEF Arrive, galaxy, Standing
  <2>3. CASE UNCHANGED <<base_under_attack, Threat>>
    BY <2>2, <2>3 DEF B!vars
  <2>4. CASE Threat = "siege" /\ B!Lifted
    BY <2>2, <2>4 DEF B!Next, B!Relief
  <2> QED
    BY <2>2, <2>3, <2>4, RelieveRefines
<1>3. CASE \E d \in HailDelays : HailOutOfRange(d)
  <2>1. PICK d \in HailDelays : HailOutOfRange(d)
    BY <1>3
  <2>2. sched \in [Slots -> Dates]
    BY DEF Sieges, TypeOK
  <2>3. UNCHANGED BaseView
    BY <2>1, <2>2, SlotsDiffer DEF HailOutOfRange, Arm, galaxy, BaseView
  <2> QED
    BY <2>3, ViewDecides
<1>4. CASE \E dest \in Quads : Supernova(dest)
  <2>1. PICK dest \in Quads : Supernova(dest)
    BY <1>4
  <2>2. quad \in Quads /\ Burn(quad)
    BY <2>1 DEF Sieges, TypeOK, Supernova
  <2>3. PICK S \in {{quad}, {quad, dest}} : Relieve(S)
    BY <2>1 DEF Supernova
  <2>4. S \in SUBSET Quads /\ quad \in S
    BY <2>2, <2>3
  <2> QED
    BY <2>2, <2>3, <2>4, BurnRefines DEF B!Next
<1>5. CASE NewGame
  BY <1>5, NewGameRefines DEF B!Next
<1> QED
  BY <1>1, <1>2, <1>3, <1>4, <1>5 DEF Captain

LEMMA DrainRefines == ASSUME Sieges, Drain PROVE [B!Next]_(B!vars)
<1>0. sched \in [Slots -> Dates]
  BY DEF Sieges, TypeOK
<1>1. CASE \E d \in FallDelays : FireAttack(d)
  <2>1. PICK d \in FallDelays : FireAttack(d)
    BY <1>1
  <2>2. Firing(BASE_ATTACK) /\ UNCHANGED <<Standing, bases_lost>>
    BY <2>1 DEF FireAttack, Standing
  <2>3. sched[BASE_ATTACK] # Never /\ Threat = "raid"
    BY <2>2, FiringClears, SlotsDiffer DEF Threat
  <2>4. sched[BASE_FALLS] = Never /\ base_under_attack = NoQuad
    BY <2>3 DEF Sieges, SiegeHasDeadline
  <2>5. Targets = Standing
    BY <2>4, NoQuadIsNoQuad DEF Targets, Standing
  <2>6. Cleared(BASE_ATTACK) \in [Slots -> Dates] /\ Cleared(BASE_ATTACK)[BASE_ATTACK] = Never
    BY <2>2, FiringClears, SlotsDiffer
  <2>7. CASE Targets = {}
    <3>1. sched' = Cleared(BASE_ATTACK) /\ UNCHANGED base_under_attack
      BY <2>1, <2>7 DEF FireAttack
    <3>2. sched'[BASE_FALLS] = Never
      BY <3>1, <2>2, <2>4, FiringClears, SlotsDiffer
    <3>3. Threat' = "none"
      BY <3>1, <3>2, <2>6 DEF Threat
    <3> QED
      BY <2>2, <2>3, <2>5, <2>7, <3>1, <3>3 DEF B!Next, B!Dissolve
  <2>8. CASE Targets # {}
    <3>1. /\ base_under_attack' \in Targets
          /\ sched' = [Cleared(BASE_ATTACK) EXCEPT ![BASE_FALLS] = At(d)]
      BY <2>1, <2>8 DEF FireAttack
    <3>2. sched'[BASE_ATTACK] = Never /\ sched'[BASE_FALLS] = At(d)
      BY <3>1, <2>6, SlotsDiffer
    <3>3. At(d) # Never
      BY DelaysAreNat, ArmedHasDate DEF Sieges
    <3>4. Threat' = "siege"
      BY <3>2, <3>3 DEF Threat
    <3> QED
      BY <2>2, <2>3, <2>5, <3>1, <3>4 DEF B!Next, B!Besiege
  <2> QED
    BY <2>7, <2>8
<1>2. CASE \E d \in AttackDelays : FireFall(d)
  <2>1. PICK d \in AttackDelays : FireFall(d)
    BY <1>2
  <2>2. Firing(BASE_FALLS)
    BY <2>1 DEF FireFall
  <2>3. sched[BASE_FALLS] # Never /\ Cleared(BASE_FALLS) \in [Slots -> Dates]
    BY <2>2, FiringClears, SlotsDiffer
  <2>4. base_under_attack # NoQuad /\ sched[BASE_ATTACK] = Never
    BY <2>3 DEF Sieges, SiegeHasDeadline
  <2>5. /\ gal_base' = [gal_base EXCEPT ![base_under_attack] = "none"]
        /\ base_under_attack' = NoQuad
        /\ bases_lost' = IF bases_lost < MaxLost THEN bases_lost + 1 ELSE bases_lost
        /\ sched' = [Cleared(BASE_FALLS) EXCEPT ![BASE_ATTACK] = At(d)]
    BY <2>1, <2>4 DEF FireFall
  <2>6. Standing' = Standing \ {base_under_attack}
    BY <2>5 DEF Standing, Sieges, TypeOK
  <2>7. Threat = "siege"
    BY <2>3, <2>4 DEF Threat
  <2>8. sched'[BASE_ATTACK] = At(d) /\ At(d) # Never
    BY <2>3, <2>5, SlotsDiffer, DelaysAreNat, ArmedHasDate DEF Sieges
  <2>9. Threat' = "raid"
    BY <2>8 DEF Threat
  <2> QED
    BY <2>5, <2>6, <2>7, <2>9 DEF B!Next, B!Fall
<1>3. CASE \/ \E d \in EvacDelays : FireDistress(d)
           \/ FireHail
           \/ \E d \in ReinfAgain : FireReinforce(d)
  <2>1. UNCHANGED BaseView
    BY <1>0, <1>3, SlotsDiffer
       DEF FireDistress, FireHail, FireReinforce, Cleared, BaseView
  <2> QED
    BY <2>1, ViewDecides
<1>4. CASE Drained
  <2>1. UNCHANGED BaseView
    BY <1>4 DEF Drained, galaxy, BaseView
  <2> QED
    BY <2>1, ViewDecides
<1> QED
  BY <1>1, <1>2, <1>3, <1>4 DEF Drain

LEMMA ChanceRefines == ASSUME Sieges, Chance PROVE [B!Next]_(B!vars)
<1>1. CASE RunNova
  <2>1. PICK q \in Starry \ gal_nova : Burn(q) /\ Relieve({q})
    BY <1>1 DEF RunNova
  <2>2. q \in Quads /\ {q} \in SUBSET Quads
    BY ScheduleAssumption
  <2> QED
    BY <2>1, <2>2, BurnRefines DEF B!Next
<1>2. CASE QuietTurn
  <2>1. UNCHANGED BaseView
    BY <1>2 DEF QuietTurn, galaxy, BaseView
  <2> QED
    BY <2>1, ViewDecides
<1> QED
  BY <1>1, <1>2 DEF Chance

\* The schedule's dates implement the promise of Bases: one siege at a time,
\* ended by relief, fall or fire, and only a fall counted.
THEOREM ScheduleImplementsBases == Spec => ImplementsBases
<1>1. Sieges /\ [Next]_vars => [B!Next]_(B!vars)
  <2>1. CASE UNCHANGED vars
    <3>1. UNCHANGED BaseView
      BY <2>1 DEF vars, galaxy, BaseView
    <3> QED
      BY <3>1, ViewDecides
  <2> QED
    BY <2>1, CaptainRefines, DrainRefines, ChanceRefines DEF Next
<1> QED
  BY InitRefines, SiegesAlways, <1>1, PTL DEF Spec, ImplementsBases, B!Spec

-----------------------------------------------------------------------------
(* Nothing is overdue when a command is read.  What the drain has fired and *)
(* what it still owes make four together: every event clears its slot, and *)
(* what it books instead lies in the future.                               *)

Owes(s) == IF s \in Due THEN 1 ELSE 0
Owed == Owes(BASE_ATTACK) + Owes(BASE_FALLS) + Owes(DISTRESS) + Owes(HAIL)
        + Owes(REINFORCE)

Prompt ==
    /\ stardate <= Horizon
    /\ pc # "events" => fired = 0
    /\ pc = "events" => fired + Owed <= 4
    /\ pc \in {"chance", "command"} => Due = {}

LEMMA OwesIsABit == \A s \in Slots : Owes(s) \in 0 .. 1
  BY SMT DEF Owes

\* The two slots of the sieges are never armed together.
LEMMA FourAtMost == ASSUME Sieges PROVE Owed \in 0 .. 4
<1>1. /\ Owes(BASE_ATTACK) \in 0 .. 1 /\ Owes(BASE_FALLS) \in 0 .. 1
      /\ Owes(DISTRESS) \in 0 .. 1 /\ Owes(HAIL) \in 0 .. 1
      /\ Owes(REINFORCE) \in 0 .. 1
  BY OwesIsABit, SlotsDiffer
<1>2. sched[BASE_ATTACK] = Never \/ sched[BASE_FALLS] = Never
  BY DEF Sieges, SiegeHasDeadline
<1>3. \A s \in Slots : sched[s] = Never => s \notin Due
  BY SMT DEF Due
<1>4. Owes(BASE_ATTACK) = 0 \/ Owes(BASE_FALLS) = 0
  BY <1>2, <1>3, SlotsDiffer DEF Owes
<1> QED
  BY <1>1, <1>4, SMT DEF Owed

\* The same of the state a step leads to.
LEMMA FourAtMostNext == (Sieges => Owed \in 0 .. 4)'
<1>1. Sieges => Owed \in 0 .. 4
  BY FourAtMost
<1> QED
  BY <1>1, PTL

\* What is not due is ahead, and the other way round.
LEMMA DueOrAhead ==
  ASSUME Sieges, stardate <= Horizon, NEW s \in Slots
  PROVE  s \notin Due <=> sched[s] > stardate
<1>1. stardate \in Dates /\ sched[s] \in Dates
  BY DEF Sieges, TypeOK
<1> QED
  BY <1>1, HorizonAssumption, SMT DEF Due, Dates

\* A date put off by a delay of the schedule lies in the future.
LEMMA PutOffIsAhead ==
  ASSUME NEW date \in Dates, date <= Horizon, NEW delay \in Nat \ {0}
  PROVE  AtFrom(date, delay) > date
  BY HorizonAssumption, SMT DEF AtFrom, Dates

LEMMA DelaysArePositive ==
  /\ \A d \in FirstDelays \cup DistressDelays \cup ReinfFirst : d \in Nat \ {0}
  /\ \A d \in FallDelays \cup AttackDelays \cup ReinfAgain : d \in Nat \ {0}
  BY DEF Delays

\* A new game has nothing to wait for on its first day.
LEMMA FirstDayIsQuiet ==
  ASSUME NEW sc \in FirstSchedules, NEW s \in Slots
  PROVE  sc[s] > Start
<1>1. PICK a \in FirstDelays, d \in DistressDelays, r \in ReinfFirst :
         sc = FirstSchedule(a, d, r)
  BY DEF FirstSchedules
<1>2. Start \in Dates /\ Start <= Horizon /\ Never > Start
  BY HorizonAssumption, SMT DEF Dates
<1>3. AtFrom(Start, a) > Start /\ AtFrom(Start, d) > Start /\ AtFrom(Start, r) > Start
  BY <1>2, PutOffIsAhead, DelaysArePositive
<1> QED
  BY <1>1, <1>2, <1>3 DEF FirstSchedule

LEMMA InitPrompt == Init => Prompt
<1> SUFFICES ASSUME Init PROVE Prompt
  OBVIOUS
<1>1. Due = {}
  <2>1. \A s \in Slots : sched[s] > Start /\ sched[s] \in Dates
    BY FirstDayIsQuiet, FirstScheduleType DEF Init
  <2>2. stardate = Start
    BY DEF Init
  <2> QED
    BY <2>1, <2>2, SMT DEF Due, Dates
<1>2. stardate <= Horizon
  BY HorizonAssumption, SMT DEF Init
<1> QED
  BY <1>1, <1>2 DEF Init, Prompt

\* A command leaves the count of the drain at zero, and what it leaves due
\* is four events at most.
LEMMA CaptainPrompt == ASSUME Sieges, Sieges', Prompt, Captain PROVE Prompt'
<1>1. CASE NewGame
  <2>1. \A s \in Slots : sched'[s] > Start /\ sched'[s] \in Dates
    BY <1>1, FirstDayIsQuiet, FirstScheduleType DEF NewGame
  <2>2. stardate' = Start
    BY <1>1 DEF NewGame
  <2>3. Due' = {}
    BY <2>1, <2>2, SMT DEF Due, Dates
  <2>4. stardate' <= Horizon
    BY <2>2, HorizonAssumption
  <2> QED
    BY <1>1, <2>3, <2>4 DEF NewGame, Prompt
<1>2. CASE GameOver
  BY <1>2, SMT DEF GameOver, Prompt, clock
<1>3. CASE /\ Captain /\ ~NewGame /\ ~GameOver
  <2>1. pc' \in {"events", "salvo"}
    BY <1>3 DEF Captain, Spend, Impulse, Arrive, Dock, HailAtOnce, HailNobody,
                HailOutOfRange, Rescue, Supernova, EndSalvo
  <2>2. fired' = 0
    BY <1>3 DEF Captain, Command, Spend, Impulse, Arrive, Dock, HailAtOnce,
                HailNobody, HailOutOfRange, Rescue, Supernova, EndSalvo, Prompt
  <2>3. stardate' <= Horizon
    <3>1. ASSUME NEW t \in Nat, Advance(t) PROVE stardate' <= Horizon
      <4>1. stardate \in Dates /\ stardate + t <= Horizon
        BY <3>1 DEF Sieges, TypeOK, Advance
      <4>2. stardate' = (stardate + t) % (Never + 1)
        BY <3>1 DEF Advance
      <4>3. (stardate + t) % (Never + 1) = stardate + t
        BY <4>1, HorizonAssumption, SMT DEF Dates
      <4> QED
        BY <4>1, <4>2, <4>3
    <3>2. CASE \/ \E t \in MoveTimes \cup Waits : Spend(t)
               \/ \E t \in MoveTimes : Impulse(t)
               \/ \E dest \in Quads, t \in MoveTimes : Arrive(dest, t)
               \/ Dock
      <4>1. \E t \in Nat : Advance(t)
        BY <3>2, DelaysAreNat DEF Spend, Impulse, Arrive, Dock
      <4> QED
        BY <4>1, <3>1
    <3>3. CASE \/ HailAtOnce \/ HailNobody \/ Rescue \/ EndSalvo
               \/ \E d \in HailDelays : HailOutOfRange(d)
               \/ \E dest \in Quads : Supernova(dest)
      BY <3>3 DEF HailAtOnce, HailNobody, Rescue, EndSalvo, HailOutOfRange,
                  Supernova, clock, Prompt
    <3> QED
      BY <1>3, <3>2, <3>3 DEF Captain
  <2>4. Owed' \in 0 .. 4
    BY FourAtMostNext
  <2>5. fired' + Owed' <= 4
    <3>1. \A o \in 0 .. 4 : 0 + o <= 4
      BY SMT
    <3> QED
      BY <2>2, <2>4, <3>1, Zenon
  <2> QED
    BY <2>1, <2>2, <2>3, <2>5 DEF Prompt
<1> QED
  BY <1>1, <1>2, <1>3

\* What an event leaves due is what was due but itself: one event less.
LEMMA OneLess ==
  ASSUME NEW s \in Slots, s \in Due, Due' \subseteq Due \ {s}
  PROVE  Owed' + 1 <= Owed
<1>1. \A r \in Slots : Owes(r) \in 0 .. 1 /\ Owes(r)' \in 0 .. 1
  BY SMT DEF Owes
<1>2. \A r \in Slots : r \notin Due => Owes(r)' = 0
  BY DEF Owes
<1>3. \A r \in Slots : r \in Due => Owes(r) = 1
  BY DEF Owes
<1>4. Owes(s)' = 0 /\ Owes(s) = 1
  BY <1>3 DEF Owes
<1>5. \A r \in Slots : Owes(r)' <= Owes(r)
  BY <1>1, <1>2, <1>3, SMT
<1>6. s \in {BASE_ATTACK, BASE_FALLS, DISTRESS, HAIL, REINFORCE}
  BY SMT DEF Slots, BASE_ATTACK, BASE_FALLS, DISTRESS, HAIL, REINFORCE
<1> HIDE DEF Owes
<1> QED
  BY <1>1, <1>4, <1>5, <1>6, SlotsDiffer, SMT DEF Owed

\* Whichever slot fires, the others keep their dates, and the slot itself and
\* the one it may book are left in the future.
LEMMA FiringIsOneLess ==
  ASSUME Sieges, Sieges', Prompt, NEW s \in Slots, Firing(s),
         \A r \in Slots \ {s} : sched'[r] = sched[r] \/ sched'[r] > stardate,
         sched'[s] > stardate
  PROVE  Prompt' /\ Due' \subseteq Due \ {s} /\ s \in Due
<1>1. stardate <= Horizon /\ stardate' = stardate /\ pc = "events" /\ pc' = "events"
  BY DEF Prompt, Firing, clock
<1>2. \A r \in Slots : r \notin Due <=> sched[r] > stardate
  BY <1>1, DueOrAhead
<1>3. \A r \in Slots : sched'[r] > stardate => r \notin Due'
  <2>1. \A r \in Slots : sched'[r] \in Dates
    BY DEF Sieges, TypeOK
  <2>2. stardate \in Dates
    BY DEF Sieges, TypeOK
  <2>3. \A a, b \in Dates : a > b => ~(a <= b)
    BY SMT DEF Dates
  <2> QED
    BY <1>1, <2>1, <2>2, <2>3 DEF Due
<1>4. s \in Due
  BY DEF Firing, Earliest
<1>5. Due' \subseteq Due \ {s}
  BY <1>2, <1>3 DEF Due
<1>6. Owed' + 1 <= Owed
  BY <1>4, <1>5, OneLess
<1>7. fired' = fired + 1 /\ fired + Owed <= 4 /\ fired \in Nat
  BY <1>1, SMT DEF Firing, Prompt, Sieges, TypeOK
<1>8. fired' + Owed' <= 4
  <2>1. Owed \in 0 .. 4 /\ Owed' \in 0 .. 4
    BY FourAtMost, FourAtMostNext
  <2>2. \A f \in Nat, a, b \in 0 .. 4 : f + a <= 4 /\ b + 1 <= a => f + 1 + b <= 4
    BY SMT
  <2> QED
    BY <1>6, <1>7, <2>1, <2>2
<1> QED
  BY <1>1, <1>4, <1>5, <1>8 DEF Prompt

\* Slot s fires, and is left in the future with whatever it books.
FiresOnce(s) ==
    /\ Firing(s) /\ sched'[s] > stardate
    /\ \A r \in Slots \ {s} : sched'[r] = sched[r] \/ sched'[r] > stardate

\* So does every event of the drain.
LEMMA DrainFires ==
  ASSUME Sieges, Prompt, Drain, ~Drained
  PROVE  \E s \in Slots : FiresOnce(s)
<1>1. stardate <= Horizon /\ stardate \in Dates /\ Never > stardate
  <2>1. stardate \in Dates /\ stardate <= Horizon
    BY DEF Prompt, Sieges, TypeOK
  <2> QED
    BY <2>1, HorizonAssumption, SMT DEF Dates
<1>2. \A d \in FallDelays \cup AttackDelays \cup ReinfAgain : At(d) > stardate
  BY <1>1, PutOffIsAhead, DelaysArePositive DEF At
<1>3. sched \in [Slots -> Dates]
  BY DEF Sieges, TypeOK
<1>4. CASE \E d \in FallDelays : FireAttack(d)
  <2>1. PICK d \in FallDelays : FireAttack(d)
    BY <1>4
  <2>2. Firing(BASE_ATTACK)
    BY <2>1 DEF FireAttack
  <2>3. \/ sched' = Cleared(BASE_ATTACK)
        \/ sched' = [Cleared(BASE_ATTACK) EXCEPT ![BASE_FALLS] = At(d)]
    BY <2>1 DEF FireAttack
  <2>4. /\ sched'[BASE_ATTACK] > stardate
        /\ \A r \in Slots \ {BASE_ATTACK} : sched'[r] = sched[r] \/ sched'[r] > stardate
    BY <1>1, <1>2, <2>2, <2>3, FiringClears, SlotsDiffer
  <2> QED
    BY <2>2, <2>4, SlotsDiffer DEF FiresOnce
<1>5. CASE \E d \in AttackDelays : FireFall(d)
  <2>1. PICK d \in AttackDelays : FireFall(d)
    BY <1>5
  <2>2. Firing(BASE_FALLS)
    BY <2>1 DEF FireFall
  <2>3. \/ sched' = Cleared(BASE_FALLS)
        \/ sched' = [Cleared(BASE_FALLS) EXCEPT ![BASE_ATTACK] = At(d)]
    BY <2>1 DEF FireFall
  <2>4. /\ sched'[BASE_FALLS] > stardate
        /\ \A r \in Slots \ {BASE_FALLS} : sched'[r] = sched[r] \/ sched'[r] > stardate
    BY <1>1, <1>2, <2>2, <2>3, FiringClears, SlotsDiffer
  <2> QED
    BY <2>2, <2>4, SlotsDiffer DEF FiresOnce
<1>6. CASE FireHail \/ \E d \in EvacDelays : FireDistress(d)
  <2>1. PICK s \in {HAIL, DISTRESS} : Firing(s) /\ sched' = Cleared(s)
    BY <1>6 DEF FireHail, FireDistress
  <2>2. /\ s \in Slots /\ sched'[s] > stardate
        /\ \A r \in Slots \ {s} : sched'[r] = sched[r]
    BY <1>1, <2>1, FiringClears, SlotsDiffer
  <2> QED
    BY <2>1, <2>2 DEF FiresOnce
<1>7. CASE \E d \in ReinfAgain : FireReinforce(d)
  <2>1. PICK d \in ReinfAgain : FireReinforce(d)
    BY <1>7
  <2>2. /\ Firing(REINFORCE)
        /\ sched' = [Cleared(REINFORCE) EXCEPT ![REINFORCE] = At(d)]
    BY <2>1 DEF FireReinforce
  <2>3. /\ sched'[REINFORCE] > stardate
        /\ \A r \in Slots \ {REINFORCE} : sched'[r] = sched[r]
    BY <1>2, <2>2, FiringClears, SlotsDiffer
  <2> QED
    BY <2>2, <2>3, SlotsDiffer DEF FiresOnce
<1> QED
  BY <1>4, <1>5, <1>6, <1>7 DEF Drain

\* Every event of the drain leaves one event less; the drain ends when none
\* is left, four being fewer than it may fire.
LEMMA DrainEnds == ASSUME Sieges, Prompt, Drained PROVE Due = {}
<1>1. fired <= 4
  <2>1. fired + Owed <= 4 /\ fired \in Nat /\ Owed \in 0 .. 4
    BY FourAtMost, SMT DEF Drained, Prompt, Sieges, TypeOK
  <2>2. \A f \in Nat, a \in 0 .. 4 : f + a <= 4 => f <= 4
    BY SMT
  <2> QED
    BY <2>1, <2>2
<1> QED
  BY <1>1, HorizonAssumption, SMT DEF Drained, Sieges, TypeOK

LEMMA DrainPrompt == ASSUME Sieges, Sieges', Prompt, Drain PROVE Prompt'
<1>1. CASE Drained
  <2>1. Due = {}
    BY <1>1, DrainEnds
  <2>2. Due' = {} /\ stardate' <= Horizon
    BY <1>1, <2>1 DEF Drained, Due, clock, Prompt
  <2> QED
    BY <1>1, <2>2 DEF Drained, Prompt
<1>2. CASE ~Drained
  BY <1>2, DrainFires, FiringIsOneLess DEF FiresOnce
<1> QED
  BY <1>1, <1>2

\* A nova only takes dates away.
LEMMA ChancePrompt == ASSUME Sieges, Sieges', Prompt, Chance PROVE Prompt'
<1>1. pc = "chance" /\ pc' = "command" /\ UNCHANGED <<fired, stardate>>
  BY DEF Chance, RunNova, QuietTurn, clock
<1>2. Due' \subseteq Due
  <2>1. CASE RunNova
    <3>1. PICK q \in Starry \ gal_nova : Relieve({q})
      BY <2>1 DEF RunNova
    <3>2. {q} \in SUBSET Quads
      BY ScheduleAssumption
    <3>3. \A s \in Slots : sched'[s] = sched[s] \/ sched'[s] = Never
      BY <3>1, <3>2, RelieveEffect DEF Sieges
    <3>4. ~(Never < Never)
      BY SMT
    <3> QED
      BY <1>1, <3>3, <3>4 DEF Due
  <2>2. CASE QuietTurn
    BY <1>1, <2>2 DEF QuietTurn, Due
  <2> QED
    BY <2>1, <2>2 DEF Chance
<1> QED
  BY <1>1, <1>2 DEF Prompt

LEMMA PromptAlways == Spec => [](Sieges /\ Prompt)
<1>1. Init => Sieges /\ Prompt
  BY InitSieges, InitPrompt
<1>2. Sieges /\ Prompt /\ [Next]_vars => (Sieges /\ Prompt)'
  <2> SUFFICES ASSUME Sieges, Prompt, [Next]_vars PROVE Sieges' /\ Prompt'
    OBVIOUS
  <2>1. Sieges'
    BY SiegesStep
  <2>2. CASE UNCHANGED vars
    BY <2>1, <2>2 DEF vars, Prompt, Owed, Owes, Due
  <2> QED
    BY <2>1, <2>2, CaptainPrompt, DrainPrompt, ChancePrompt DEF Next
<1> QED
  BY <1>1, <1>2, PTL DEF Spec

\* In a game that ends short of the last dates, nothing is overdue when the
\* captain reads the next command, and no drain fires more than four events.
THEOREM NothingIsOverdue == Spec => []NothingOverdue
<1>1. Sieges /\ Prompt => NothingOverdue
  <2> SUFFICES ASSUME Sieges, Prompt PROVE NothingOverdue
    OBVIOUS
  <2>1. pc \in {"chance", "command"} => \A s \in Slots : sched[s] > stardate
    BY DueOrAhead DEF Prompt
  <2>2. fired <= 4
    <3>1. fired \in Nat /\ Owed \in 0 .. 4
      BY FourAtMost, SMT DEF Sieges, TypeOK
    <3>2. \A f \in Nat, a \in 0 .. 4 : f + a <= 4 => f <= 4
      BY SMT
    <3>3. fired = 0 => fired <= 4
      BY SMT
    <3> QED
      BY <3>1, <3>2, <3>3 DEF Prompt
  <2> QED
    BY <2>1, <2>2 DEF NothingOverdue
<1> QED
  BY PromptAlways, <1>1, PTL

\* A drain that finds a siege overdue does not end before the base is gone, and each
\* of its events brings that nearer: in a game that ends short of the last dates.
THEOREM OverdueSiegesNear == Spec => OverdueSiegeNears
<1> DEFINE Overdue == pc = "events" /\ base_under_attack # NoQuad /\ sched[BASE_FALLS] <= stardate
           Fallen == gal_base' = [gal_base EXCEPT ![base_under_attack] = "none"]
           Nearer == /\ pc' = "events" /\ base_under_attack' = base_under_attack
                     /\ sched'[BASE_FALLS] = sched[BASE_FALLS]
                     /\ Due' \subseteq Due /\ Due' # Due
<1>1. ASSUME Sieges, Prompt, Sieges', Prompt', Next, Overdue PROVE Fallen \/ Nearer
  <2>1. sched[BASE_FALLS] # Never /\ sched[BASE_ATTACK] = Never /\ BASE_FALLS \in Due
    <3>1. sched[BASE_FALLS] # Never /\ sched[BASE_ATTACK] = Never
      BY <1>1 DEF Sieges, SiegeHasDeadline
    <3>2. sched[BASE_FALLS] \in Dates
      BY <1>1, SlotsDiffer DEF Sieges, TypeOK
    <3>3. sched[BASE_FALLS] < Never
      BY <3>1, <3>2, SMT DEF Dates
    <3> QED
      BY <1>1, <3>1, <3>3, SlotsDiffer DEF Due
  <2>2. Drain
    BY <1>1 DEF Next, Captain, Command, Spend, Impulse, Arrive, Dock, HailAtOnce, HailNobody,
                HailOutOfRange, Rescue, Supernova, EndSalvo, GameOver, NewGame,
                Chance, RunNova, QuietTurn
  <2>3. ~Drained
    BY <1>1, <2>1, DrainEnds
  <2>4. PICK s \in Slots : FiresOnce(s)
    BY <1>1, <2>2, <2>3, DrainFires
  <2>5. pc' = "events" /\ Due' \subseteq Due \ {s} /\ s \in Due
    BY <1>1, <2>4, FiringIsOneLess DEF FiresOnce, Firing
  <2>6. ~\E d \in FallDelays : FireAttack(d)
    BY <1>1, <2>1, FiringClears, SlotsDiffer DEF FireAttack
  <2>7. CASE \E d \in AttackDelays : FireFall(d)
    BY <1>1, <2>7 DEF FireFall
  <2>8. ASSUME UNCHANGED base_under_attack,
               NEW x \in Slots \ {BASE_FALLS}, \A r \in Slots \ {x} : sched'[r] = sched[r]
        PROVE  Nearer
    BY <2>5, <2>8, SlotsDiffer
  <2>9. CASE FireHail \/ \E d \in EvacDelays : FireDistress(d)
    <3>1. PICK x \in {HAIL, DISTRESS} : Firing(x) /\ sched' = Cleared(x) /\ UNCHANGED base_under_attack
      BY <2>9 DEF FireHail, FireDistress
    <3>2. x \in Slots \ {BASE_FALLS} /\ \A r \in Slots \ {x} : sched'[r] = sched[r]
      BY <1>1, <3>1, FiringClears, SlotsDiffer
    <3> QED
      BY <2>8, <3>1, <3>2
  <2>10. CASE \E d \in ReinfAgain : FireReinforce(d)
    <3>1. PICK d \in ReinfAgain : FireReinforce(d)
      BY <2>10
    <3>2. /\ Firing(REINFORCE) /\ UNCHANGED base_under_attack
          /\ sched' = [Cleared(REINFORCE) EXCEPT ![REINFORCE] = At(d)]
      BY <3>1 DEF FireReinforce
    <3>3. \A r \in Slots \ {REINFORCE} : sched'[r] = sched[r]
      BY <1>1, <3>2, FiringClears, SlotsDiffer
    <3> QED
      BY <2>8, <3>2, <3>3, SlotsDiffer
  <2> QED
    BY <2>2, <2>3, <2>6, <2>7, <2>9, <2>10 DEF Drain
<1> DEFINE Step == Overdue => \/ Fallen
                              \/ Nearer
<1>2. Sieges /\ Prompt /\ [Next]_vars /\ (Sieges /\ Prompt)' => [Step]_vars
  BY <1>1
<1>3. Spec => [][Step]_vars
  BY <1>2, PromptAlways, PTL DEF Spec
<1> QED
  BY <1>3 DEF OverdueSiegeNears

=============================================================================
