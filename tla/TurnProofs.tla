----------------------------- MODULE TurnProofs -----------------------------
(***************************************************************************)
(* What module Turn promises whatever the galaxy, the crew and the level:  *)
(* the buffer is never overrun and never crowds the enemy out, a bolt is   *)
(* of this turn and this quadrant, the dead are counted once, and nobody   *)
(* dies of hits that this turn did not bring.                              *)
(***************************************************************************)
EXTENDS Turn, TLAPS

USE TurnAssumption DEF TurnAssumption

-----------------------------------------------------------------------------
(* The inductive invariant, part by part *)

\* The entries the buffer may hold when a routine of the galaxy begins.
RoomForGalaxy ==
    /\ pc = "life"     => n = 0
    /\ pc = "schedule" => n <= 1
    /\ pc = "boarders" => n <= MaxDue + 1
    /\ pc = "nova"     => n <= MaxDue + 2
    /\ pc = "pod"      => n <= MaxDue + 3
    /\ pc = "mutants"  => n <= MaxDue + 4
    /\ pc = "wear"     => n <= MaxDue + 5
    /\ pc = "spy"      => n <= MaxDue + 6

\* Life support that has run out is news only until the turn's first routine.
NewsIsFresh == pc # "life" => ~life_gone

\* No order is given to a ship that is lost.
CommandAfloat == pc = "command" => ~Lost

\* The tally of the enemy's turn counts nothing but the hits that landed.
TallyIsFresh == pc \in {"move", "fire", "damage"} => turn_hits <= landed

TFlags  == Flags /\ NewsIsFresh
TCounts == /\ Counts
           /\ RoomForGalaxy
           /\ CommandAfloat
           /\ BoltIsFresh
           /\ TallyIsFresh
TInv    == TFlags /\ TCounts

USE DEF buffer, place, fate, guests, bolts, tally

LEMMA InitInvariant == Init => TInv
<1> SUFFICES ASSUME Init PROVE TInv
  OBVIOUS
<1>1. TFlags
  BY DEF Init, TFlags, Flags, NewsIsFresh
<1>2. TCounts
  BY DEF Init, TCounts, Counts, RoomForGalaxy, CommandAfloat, Lost, BoltIsFresh,
         TallyIsFresh, Stages, Causes
<1> QED
  BY <1>1, <1>2 DEF TInv

-----------------------------------------------------------------------------
(* The orders *)

LEMMA CaptainFlags ==
    ASSUME TInv, Captain
    PROVE  TFlags'
<1> USE DEF TInv, TFlags, Flags, NewsIsFresh
<1>1. CASE NoTurn
  BY <1>1 DEF NoTurn, Command
<1>2. ASSUME NEW o \in {"plain", "fired"}, Stay(o) PROVE TFlags'
  BY <1>2 DEF Stay, Ask
<1>3. CASE MoveRefused
  BY <1>3 DEF MoveRefused, Ask
<1>4. CASE Move
  BY <1>4 DEF Move, Ask, TimePasses
<1>5. ASSUME NEW s \in BOOLEAN, Dock(s) PROVE TFlags'
  BY <1>5 DEF Dock, Ask
<1>6. CASE Fix
  BY <1>6 DEF Fix, TimePasses
<1>7. CASE Land
  BY <1>7 DEF Land, Ask, TimePasses
<1>8. CASE Ray
  BY <1>8 DEF Ray, Ask
<1>9. CASE RaiseBoltShield
  BY <1>9 DEF RaiseBoltShield, Ask
<1>10. CASE Supernova
  BY <1>10 DEF Supernova
<1>11. CASE EndSalvo
  BY <1>11 DEF EndSalvo, Ask
<1>12. CASE SelfDestruct
  BY <1>12 DEF SelfDestruct, Command
<1>13. CASE Quit
  BY <1>13 DEF Quit, Command
<1>14. CASE NewGame
  BY <1>14 DEF NewGame
<1>15. CASE Restore
  BY <1>15 DEF Restore
<1> QED
  BY <1>1, <1>2, <1>3, <1>4, <1>5, <1>6, <1>7, <1>8, <1>9, <1>10, <1>11,
     <1>12, <1>13, <1>14, <1>15 DEF Captain

LEMMA CaptainCounts ==
    ASSUME TInv, Captain
    PROVE  TCounts'
<1> USE DEF TInv, TCounts, Counts, RoomForGalaxy, CommandAfloat, Lost,
            BoltIsFresh, TallyIsFresh, Stages, Causes, Command
<1>1. CASE NoTurn
  BY <1>1 DEF NoTurn
<1>2. ASSUME NEW o \in {"plain", "fired"}, Stay(o) PROVE TCounts'
  BY <1>2 DEF Stay, Ask
<1>3. CASE MoveRefused
  BY <1>3 DEF MoveRefused, Ask
<1>4. CASE Move
  BY <1>4 DEF Move, Ask, TimePasses
<1>5. ASSUME NEW s \in BOOLEAN, Dock(s) PROVE TCounts'
  BY <1>5 DEF Dock, Ask
<1>6. CASE Fix
  BY <1>6 DEF Fix, TimePasses
<1>7. CASE Land
  BY <1>7 DEF Land, Ask, TimePasses, SomeDie, Least
<1>8. CASE Ray
  BY <1>8 DEF Ray, Ask
<1>9. CASE RaiseBoltShield
  BY <1>9 DEF RaiseBoltShield, Ask
<1>10. CASE Supernova
  BY <1>10 DEF Supernova, Least
<1>11. CASE EndSalvo
  BY <1>11 DEF EndSalvo, Ask
<1>12. CASE SelfDestruct
  BY <1>12 DEF SelfDestruct
<1>13. CASE Quit
  BY <1>13 DEF Quit
<1>14. CASE NewGame
  BY <1>14 DEF NewGame
<1>15. CASE Restore
  BY <1>15 DEF Restore
<1> QED
  BY <1>1, <1>2, <1>3, <1>4, <1>5, <1>6, <1>7, <1>8, <1>9, <1>10, <1>11,
     <1>12, <1>13, <1>14, <1>15 DEF Captain

-----------------------------------------------------------------------------
(* The galaxy's events *)

\* A guarded report adds what it has to say, or less.
LEMMA ReportBound ==
    ASSUME n \in 0 .. MaxEntries, NEW k \in Nat, Report(k)
    PROVE  n' \in 0 .. MaxEntries /\ n' <= n + k
  BY DEF Report, Least

LEMMA GalaxyFlags ==
    ASSUME TInv, Galaxy
    PROVE  TFlags'
<1> USE DEF TInv, TFlags, Flags, NewsIsFresh
<1>1. CASE LifeGone
  BY <1>1 DEF LifeGone
<1>2. CASE RunSchedule
  BY <1>2 DEF RunSchedule
<1>3. CASE RunBoarders
  BY <1>3 DEF RunBoarders
<1>4. CASE RunNova
  BY <1>4 DEF RunNova
<1>5. CASE RunPod
  BY <1>5 DEF RunPod
<1>6. CASE RunMutants
  BY <1>6 DEF RunMutants
<1>7. CASE RunWear
  BY <1>7 DEF RunWear
<1>8. CASE RunSpy
  BY <1>8 DEF RunSpy
<1> QED
  BY <1>1, <1>2, <1>3, <1>4, <1>5, <1>6, <1>7, <1>8 DEF Galaxy

LEMMA GalaxyCounts ==
    ASSUME TInv, Galaxy
    PROVE  TCounts'
<1> USE DEF TInv, TCounts, Counts, RoomForGalaxy, CommandAfloat, Lost,
            BoltIsFresh, TallyIsFresh, Stages, Causes
<1>1. CASE LifeGone
  BY <1>1, ReportBound DEF LifeGone
<1>2. CASE RunSchedule
  BY <1>2, ReportBound DEF RunSchedule
<1>3. CASE RunBoarders
  BY <1>3, ReportBound DEF RunBoarders
<1>4. CASE RunNova
  BY <1>4, ReportBound DEF RunNova
<1>5. CASE RunPod
  BY <1>5, ReportBound DEF RunPod
<1>6. CASE RunMutants
  BY <1>6, ReportBound DEF RunMutants
<1>7. CASE RunWear
  BY <1>7, ReportBound DEF RunWear
<1>8. CASE RunSpy
  BY <1>8, ReportBound DEF RunSpy
<1> QED
  BY <1>1, <1>2, <1>3, <1>4, <1>5, <1>6, <1>7, <1>8 DEF Galaxy

-----------------------------------------------------------------------------
(* The enemy's turn *)

LEMMA EnemyFlags ==
    ASSUME TInv, Enemy
    PROVE  TFlags'
<1> USE DEF TInv, TFlags, Flags, NewsIsFresh
<1>1. CASE Gate
  BY <1>1 DEF Gate
<1>2. CASE RunBolt
  BY <1>2 DEF RunBolt
<1>3. CASE EnemiesMove
  BY <1>3 DEF EnemiesMove
<1>4. CASE FireBoltOnly
  BY <1>4 DEF FireBoltOnly, Firing
<1>5. CASE FireOne
  BY <1>5 DEF FireOne
<1>6. CASE FireDone
  BY <1>6 DEF FireDone
<1>7. CASE CombatDamage
  BY <1>7 DEF CombatDamage
<1> QED
  BY <1>1, <1>2, <1>3, <1>4, <1>5, <1>6, <1>7 DEF Enemy

LEMMA EnemyCounts ==
    ASSUME TInv, Enemy
    PROVE  TCounts'
<1> USE DEF TInv, TCounts, Counts, RoomForGalaxy, CommandAfloat, Lost,
            BoltIsFresh, TallyIsFresh, Stages, Causes
<1>1. CASE Gate
  BY <1>1 DEF Gate
<1>2. CASE RunBolt
  BY <1>2, ReportBound DEF RunBolt
<1>3. CASE EnemiesMove
  BY <1>3, ReportBound DEF EnemiesMove
<1>4. CASE FireBoltOnly
  BY <1>4 DEF FireBoltOnly, Firing, Launch, RoomAfter
<1>5. CASE FireOne
  BY <1>5 DEF FireOne, Firing, Launch, RoomAfter, Least
<1>6. CASE FireDone
  BY <1>6 DEF FireDone
<1>7. CASE CombatDamage
  BY <1>7, ReportBound DEF CombatDamage, SomeDie, Least
<1> QED
  BY <1>1, <1>2, <1>3, <1>4, <1>5, <1>6, <1>7 DEF Enemy

LEMMA NextInvariant == TInv /\ [Next]_vars => TInv'
<1> SUFFICES ASSUME TInv, [Next]_vars PROVE TInv'
  OBVIOUS
<1>1. CASE Captain
  BY <1>1, CaptainFlags, CaptainCounts DEF TInv
<1>2. CASE Galaxy
  BY <1>2, GalaxyFlags, GalaxyCounts DEF TInv
<1>3. CASE Enemy
  BY <1>3, EnemyFlags, EnemyCounts DEF TInv
<1>4. ASSUME GoOn \/ GameOver \/ UNCHANGED vars
      PROVE  TInv'
  <2>1. TFlags'
    BY <1>4 DEF TInv, TFlags, Flags, NewsIsFresh, GoOn, GameOver, TurnOver, vars
  <2>2. TCounts'
    BY <1>4 DEF TInv, TCounts, Counts, RoomForGalaxy, CommandAfloat, Lost,
                BoltIsFresh, TallyIsFresh, Stages, Causes, GoOn, GameOver,
                TurnOver, vars
  <2> QED
    BY <2>1, <2>2 DEF TInv
<1> QED
  BY <1>1, <1>2, <1>3, <1>4 DEF Next

LEMMA Invariant == Spec => []TInv
  BY InitInvariant, NextInvariant, PTL DEF Spec

-----------------------------------------------------------------------------
(* What follows from it *)

\* Every variable of the turn keeps its type for any crew, buffer and galaxy;
\* above all, nothing is written past the end of run_turn's buffer.
THEOREM TypeCorrect == Spec => []TypeOK
<1>1. TInv => TypeOK
  BY DEF TInv, TFlags, TCounts, TypeOK
<1> QED
  BY <1>1, Invariant, PTL

\* A bolt in flight after run_bolt is of this turn and this quadrant
\* (enemy_fire's launch, however the ship has moved in between).
THEOREM BoltsAreFresh == Spec => []BoltIsFresh
<1>1. TInv => BoltIsFresh
  BY DEF TInv, TCounts
<1> QED
  BY <1>1, Invariant, PTL

\* Life support that ran out inside an order is reported before the game can
\* end of it (trek_run_events).
THEOREM LossesAreTold == Spec => []LossIsTold
<1>1. TInv => LossIsTold
  BY DEF TInv, TFlags, NewsIsFresh, LossIsTold
<1> QED
  BY <1>1, Invariant, PTL

\* However much came due, the enemy finds room in the buffer after the spies
\* (run_turn's test, for any number of due events and any buffer with seven
\* entries to spare).
THEOREM EnemyNeverCrowdedOut == Spec => EnemyHasRoom
<1>1. TInv /\ [Next]_vars
        => [pc = "spy" /\ pc' # pc /\ order # "time" => pc' = "gate"]_vars
  <2> SUFFICES ASSUME TInv, Next, pc = "spy", pc' # pc, order # "time"
               PROVE  pc' = "gate"
    OBVIOUS
  <2>1. n \in 0 .. MaxEntries /\ n <= MaxDue + 6
    BY DEF TInv, TCounts, Counts, RoomForGalaxy
  <2>2. RunSpy
    BY DEF Next, Captain, Galaxy, Enemy, NoTurn, Stay, MoveRefused, Move, Dock,
           Fix, Land, Ray, RaiseBoltShield, Supernova, EndSalvo, SelfDestruct,
           Quit, NewGame, Restore, Command, LifeGone, RunSchedule, RunBoarders,
           RunNova, RunPod, RunMutants, RunWear, Gate, RunBolt, EnemiesMove,
           FireBoltOnly, FireOne, FireDone, Firing, CombatDamage, GoOn, GameOver,
           TurnOver
  <2>3. PICK k \in {0, 1} : Report(k)
    BY <2>2 DEF RunSpy
  <2>4. n' <= MaxDue + 7
    BY <2>1, <2>3, ReportBound
  <2>5. n' \in Int /\ n' < MaxEntries
    BY <2>1, <2>3, <2>4, ReportBound
  <2> QED
    BY <2>2, <2>5 DEF RunSpy
<1> QED
  BY <1>1, Invariant, PTL DEF Spec, EnemyHasRoom

\* The dead are counted once: no order, event, shot or damage round adds to the
\* casualties of a ship that is already lost.
THEOREM DeadAreFinal == Spec => CasualtiesFinal
<1>1. TInv /\ [Next]_vars => [Lost /\ Lost' => casualties' = casualties]_vars
  <2> SUFFICES ASSUME TInv, Next, Lost, Lost' PROVE casualties' = casualties
    OBVIOUS
  <2>1. pc # "command"
    BY DEF TInv, TCounts, CommandAfloat
  <2>2. CASE Captain
    BY <2>1, <2>2 DEF Captain, NoTurn, Stay, MoveRefused, Move, Dock, Fix, Land,
          Ray, RaiseBoltShield, Supernova, EndSalvo, SelfDestruct, Quit,
          NewGame, Restore, Command, Lost
  <2>3. CASE Galaxy
    BY <2>3 DEF Galaxy, LifeGone, RunSchedule, RunBoarders, RunNova, RunPod,
          RunMutants, RunWear, RunSpy
  <2>4. CASE Enemy
    BY <2>4 DEF Enemy, Gate, RunBolt, EnemiesMove, FireBoltOnly, FireOne,
          FireDone, Firing, CombatDamage
  <2>5. CASE GoOn \/ GameOver
    BY <2>5 DEF GoOn, GameOver, TurnOver
  <2> QED
    BY <2>2, <2>3, <2>4, <2>5 DEF Next
<1> QED
  BY <1>1, Invariant, PTL DEF Spec, CasualtiesFinal

\* Nobody dies in the damage rounds of a turn whose own hits were too few
\* (trek_combat_damage, against a tally that outlives turns and games).
THEOREM NoLifeLostLightly == Spec => NoLivesLostLightly
<1>1. TInv /\ [Next]_vars
        => [pc = "damage" /\ casualties' > casualties => landed > DeadlyHits]_vars
  <2> SUFFICES ASSUME TInv, Next, pc = "damage", casualties' > casualties
               PROVE  landed > DeadlyHits
    OBVIOUS
  <2>1. turn_hits <= landed /\ turn_hits \in Nat /\ landed \in Nat
        /\ casualties \in 0 .. Crew
    BY DEF TInv, TCounts, Counts, TallyIsFresh
  <2>2. CombatDamage
    BY DEF Next, Captain, Galaxy, Enemy, NoTurn, Stay, MoveRefused, Move, Dock,
           Fix, Land, Ray, RaiseBoltShield, Supernova, EndSalvo, SelfDestruct,
           Quit, NewGame, Restore, Command, LifeGone, RunSchedule, RunBoarders,
           RunNova, RunPod, RunMutants, RunWear, RunSpy, Gate, RunBolt,
           EnemiesMove, FireBoltOnly, FireOne, FireDone, Firing, GoOn, GameOver,
           TurnOver
  <2>3. turn_hits > DeadlyHits
    BY <2>1, <2>2 DEF CombatDamage
  <2> QED
    BY <2>1, <2>3
<1> QED
  BY <1>1, Invariant, PTL DEF Spec, NoLivesLostLightly

=============================================================================
