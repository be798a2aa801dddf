-------------------------------- MODULE Turn --------------------------------
(***************************************************************************)
(* One order and everything it brings on, as c128/src/main.c runs it: the  *)
(* order, run_turn with the galaxy's events (trek_run_events), the enemy's *)
(* turn (trek_enemy_turn), the combat damage, and the question whether the *)
(* game is over.  All of it reports into one buffer of MaxEntries events.  *)
(*                                                                         *)
(* The schedule and the fleet are modules Schedule and Fleet; here an event*)
(* is the room it takes, and a hit is one unit of turn_hits.  What a roll, *)
(* a shield or a range decides is chosen freely.                           *)
(***************************************************************************)
EXTENDS Integers

CONSTANTS
    Quads,          \* the quadrants the ship may be in
    NoBolt,         \* "no bolt in flight": bolt_cell = QUAD_CELLS
    MaxEntries,     \* the size of run_turn's buffer, 12
    MaxDue,         \* the most events one drain of the schedule reports
    Ships,          \* the most Mongols in one quadrant
    Crew,           \* CREW_COMPLEMENT
    RoundsPer,      \* DMG_ROUNDS_PER, in units
    DeadlyHits,     \* DMG_CASUALTY_HIT_MIN, in units
    Bolts,          \* does this level fire plasma bolts (BOLT_MIN_LEVEL)
    MaxStarHits     \* BOUND on what the stars of one salvo add to turn_hits

ASSUME TurnAssumption ==
    /\ NoBolt \notin Quads
    /\ MaxEntries \in Nat /\ MaxDue \in Nat /\ MaxDue + 7 < MaxEntries
    /\ Ships \in Nat /\ Crew \in Nat \ {0}
    /\ RoundsPer \in Nat \ {0} /\ DeadlyHits \in Nat
    /\ Bolts \in BOOLEAN /\ MaxStarHits \in Nat

VARIABLES
    pc,                     \* the routine that runs next
    restored_free_turn,
    order,                  \* run_turn's arguments: "fired", "plain", "time"
    n,                      \* entries in the buffer
    aiming,                 \* enemies the fire loop has still to visit
    quad, docked,           \* docked: at a StarBase
    moved,
    lost_how, life_gone, casualties,
    boarders, mutants,
    bolt,                   \* the quadrant of the bolt in flight (bolt_quad)
    plasma_shield,
    turn_hits,
    landed                  \* HISTORY: the hits of this enemy turn

buffer == <<order, n, aiming>>
place  == <<quad, docked>>
fate   == <<lost_how, life_gone, casualties>>
guests == <<boarders, mutants>>
bolts  == <<bolt, plasma_shield>>
tally  == <<turn_hits, landed>>
vars   == <<pc, restored_free_turn, buffer, place, moved, fate, guests,
            bolts, tally>>

\* ship.lost and ship.lost_how are always set together.
Lost == lost_how # "none"

Least(a, b) == IF a < b THEN a ELSE b

\* Some die; BOUND: never, short of the ship's loss, all of them.
SomeDie == casualties' = Least(casualties + 1, Crew - 1)

\* Every report is guarded by *n < max.
Report(k) == n' = Least(n + k, MaxEntries)

-----------------------------------------------------------------------------
\* trek_new_game.
Init ==
    /\ pc = "command"
    /\ order = "plain" /\ n = 0 /\ aiming = 0
    /\ turn_hits = 0 /\ landed = 0
    /\ restored_free_turn = FALSE
    /\ quad \in Quads /\ docked = FALSE
    /\ moved = FALSE
    /\ lost_how = "none" /\ life_gone = FALSE /\ casualties = 0
    /\ boarders = FALSE /\ mutants = FALSE
    /\ bolt = NoBolt /\ plasma_shield = FALSE

\* What was in flight or on board is not in the new galaxy; but the tally is
\* in neither the save file nor trek_new_game.
NewGame ==
    /\ pc = "over" /\ pc' = "command"
    /\ restored_free_turn' = FALSE
    /\ quad' \in Quads /\ docked' = FALSE
    /\ moved' = FALSE
    /\ lost_how' = "none" /\ life_gone' = FALSE /\ casualties' = 0
    /\ boarders' = FALSE /\ mutants' = FALSE
    /\ bolt' = NoBolt /\ plasma_shield' = FALSE
    /\ UNCHANGED <<buffer, tally>>

\* A saved game: the ship is afloat, anything else may be as it was.
Restore ==
    /\ pc = "over" /\ pc' = "command"
    /\ restored_free_turn' = TRUE
    /\ quad' \in Quads /\ docked' \in BOOLEAN
    /\ moved' \in BOOLEAN
    /\ lost_how' = "none" /\ life_gone' = FALSE /\ casualties' \in 0 .. (Crew - 1)
    /\ boarders' \in BOOLEAN /\ mutants' \in BOOLEAN
    /\ bolt' \in Quads \cup {NoBolt} /\ plasma_shield' \in BOOLEAN
    /\ UNCHANGED <<buffer, tally>>

-----------------------------------------------------------------------------
(* The orders *)

Command == pc = "command"

\* enemy_turn: the first turn of a restored game is run without the enemy.
Ask(o) ==
    /\ pc' = "life" /\ n' = 0
    /\ order' = IF restored_free_turn THEN "time" ELSE o
    /\ restored_free_turn' = FALSE
    /\ UNCHANGED aiming

\* trek_advance_time, as far as this module sees it: life support may run out.
TimePasses ==
    \/ UNCHANGED <<lost_how, life_gone>>
    \/ ~Lost /\ lost_how' = "life" /\ life_gone' = TRUE

\* The reports, the settings, a declined FIX: no turn.
NoTurn ==
    /\ Command /\ pc' = "check"
    /\ UNCHANGED <<restored_free_turn, buffer, place, moved, fate, guests,
                   bolts, tally>>

\* An order that leaves the ship where it is; L and T are "fired" even when
\* they were refused.
Stay(o) ==
    /\ Command /\ Ask(o)
    /\ UNCHANGED <<place, moved, fate, guests, bolts, tally>>

\* A MOVE that is refused, or stopped on its first step: moved is set first.
MoveRefused ==
    /\ Command /\ Ask("plain")
    /\ moved' = TRUE
    /\ UNCHANGED <<place, fate, guests, bolts, tally>>

\* trek_move_impulse and trek_move_warp; a tractor beam or a black hole may
\* choose the quadrant, and the hole may keep the ship.
Move ==
    /\ Command /\ Ask("plain")
    /\ moved' = TRUE
    /\ docked' = FALSE /\ quad' \in Quads
    /\ \/ TimePasses /\ UNCHANGED casualties
       \/ /\ lost_how' = "hole" /\ life_gone' \in BOOLEAN
          /\ casualties' = Crew
    /\ UNCHANGED <<guests, bolts, tally>>

\* trek_dock: one tenth of a stardate goes by once the ship is fast.
Dock(starbase) ==
    /\ Command /\ Ask("plain")
    /\ ~docked /\ docked' = starbase
    /\ UNCHANGED <<quad, moved, fate, guests, bolts, tally>>

\* Slip: the wait is spent, and nobody runs the events it brought on.
FixSilently ==
    /\ Command
    /\ TimePasses
    /\ pc' = "check"
    /\ UNCHANGED <<restored_free_turn, buffer, casualties, place, moved,
                   guests, bolts, tally>>

\* FIX, and a wait: the events of the time, and nobody fires.
Fix ==
    /\ Command
    /\ TimePasses
    /\ pc' = "life" /\ n' = 0 /\ order' = "time"
    /\ UNCHANGED <<restored_free_turn, aiming, casualties, place, moved,
                   guests, bolts, tally>>

\* trek_land: the shuttle takes time, and the party may be attacked.
Land ==
    /\ Command /\ Ask("plain")
    /\ TimePasses
    /\ UNCHANGED casualties \/ SomeDie
    /\ UNCHANGED <<place, moved, guests, bolts, tally>>

\* trek_fire_ray: roll 2 breeds mutants, rolls 4 and 5 lose the ship.
Ray ==
    /\ Command /\ Ask("plain")
    /\ \/ mutants' = TRUE /\ UNCHANGED lost_how
       \/ lost_how' = "ray" /\ UNCHANGED mutants
    /\ UNCHANGED <<life_gone, casualties, boarders, place, moved, bolts, tally>>

\* USE, with the captured shield.
RaiseBoltShield ==
    /\ Command /\ Ask("plain")
    /\ plasma_shield' = TRUE
    /\ UNCHANGED <<bolt, place, moved, fate, guests, tally>>

\* A torpedo sets off a star: the ship is thrown, or lost; with its shields
\* down it takes the blow on the tally of a turn not yet begun.
Supernova ==
    /\ pc \in {"command", "salvo"} /\ pc' = "salvo"
    /\ turn_hits' \in {turn_hits, Least(turn_hits + 1, MaxStarHits)}
    /\ moved' = TRUE
    /\ \/ quad' \in Quads \ {quad} /\ docked' = FALSE
          /\ UNCHANGED lost_how
       \/ lost_how' = "nova" /\ UNCHANGED place
    /\ UNCHANGED <<restored_free_turn, buffer, life_gone, casualties, guests,
                   bolts, landed>>

EndSalvo ==
    /\ pc = "salvo" /\ Ask("fired")
    /\ UNCHANGED <<place, moved, fate, guests, bolts, tally>>

SelfDestruct ==
    /\ Command /\ pc' = "check"
    /\ lost_how' = "self" /\ casualties' = Crew
    /\ UNCHANGED <<restored_free_turn, buffer, life_gone, place, moved,
                   guests, bolts, tally>>

Quit ==
    /\ Command /\ pc' = "over"
    /\ UNCHANGED <<restored_free_turn, buffer, place, moved, fate, guests,
                   bolts, tally>>

-----------------------------------------------------------------------------
(* trek_run_events *)

LifeGone ==
    /\ pc = "life" /\ pc' = "schedule"
    /\ IF life_gone THEN Report(1) ELSE UNCHANGED n
    /\ life_gone' = FALSE
    /\ UNCHANGED <<restored_free_turn, order, aiming, lost_how, casualties,
                   place, moved, guests, bolts, tally>>

\* run_events; module Schedule shows it fires at most four.
RunSchedule ==
    /\ pc = "schedule" /\ pc' = "boarders"
    /\ \E k \in 0 .. MaxDue : Report(k)
    /\ UNCHANGED <<restored_free_turn, order, aiming, place, moved, fate,
                   guests, bolts, tally>>

\* Slip: a party that leaves makes room for the next in the same breath.
RunBoardersTwice ==
    /\ pc = "boarders" /\ pc' = "nova"
    /\ \/ boarders /\ Report(2) /\ UNCHANGED boarders
       \/ boarders' = ~boarders /\ Report(1)
       \/ UNCHANGED <<boarders, n>>
    /\ UNCHANGED <<restored_free_turn, order, aiming, mutants, place, moved,
                   fate, bolts, tally>>

\* run_boarders: they leave, or come aboard, or neither.
RunBoarders ==
    /\ pc = "boarders" /\ pc' = "nova"
    /\ \/ boarders' = ~boarders /\ Report(1)
       \/ UNCHANGED <<boarders, n>>
    /\ UNCHANGED <<restored_free_turn, order, aiming, mutants, place, moved,
                   fate, bolts, tally>>

RunNova ==
    /\ pc = "nova" /\ pc' = "pod"
    /\ \E k \in {0, 1} : Report(k)
    /\ UNCHANGED <<restored_free_turn, order, aiming, place, moved, fate,
                   guests, bolts, tally>>

\* run_pod: a hit that empties the shields is the end, whatever went before.
RunPod ==
    /\ pc = "pod" /\ pc' = "mutants"
    /\ \/ UNCHANGED <<n, lost_how>>
       \/ Report(1) /\ lost_how' \in {lost_how, "pod"}
    /\ UNCHANGED <<restored_free_turn, order, aiming, life_gone, casualties,
                   place, moved, guests, bolts, tally>>

RunMutants ==
    /\ pc = "mutants" /\ pc' = "wear"
    /\ \/ ~mutants /\ UNCHANGED <<mutants, n>>
       \/ mutants /\ mutants' = FALSE /\ UNCHANGED n
       \/ mutants /\ Report(1) /\ UNCHANGED mutants
    /\ UNCHANGED <<restored_free_turn, order, aiming, boarders, place, moved,
                   fate, bolts, tally>>

RunWear ==
    /\ pc = "wear" /\ pc' = "spy"
    /\ \E k \in {0, 1} : Report(k)
    /\ UNCHANGED <<restored_free_turn, order, aiming, place, moved, fate,
                   guests, bolts, tally>>

\* The last of the events; then the enemy, if it may act and there is room.
RunSpy ==
    /\ pc = "spy"
    /\ \E k \in {0, 1} : Report(k)
    /\ pc' = IF order # "time" /\ n' < MaxEntries THEN "gate" ELSE "check"
    /\ UNCHANGED <<restored_free_turn, order, aiming, place, moved, fate,
                   guests, bolts, tally>>

-----------------------------------------------------------------------------
(* trek_enemy_turn *)

\* A ship that moved may get away with it; either way the move is spent.
Gate ==
    /\ pc = "gate"
    /\ pc' \in {"bolt"} \cup {s \in {"check"} : moved}
    /\ moved' = FALSE
    /\ UNCHANGED <<restored_free_turn, buffer, place, fate, guests, bolts,
                   tally>>

\* Slip: a bolt aimed at another quadrant waits there for the ship.
RunBoltWaits ==
    /\ pc = "bolt" /\ pc' = "move"
    /\ bolt' = IF bolt = quad THEN NoBolt ELSE bolt
    /\ \E k \in 0 .. (IF bolt = quad /\ ~plasma_shield THEN 1 ELSE 0) : Report(k)
    /\ turn_hits' = 0
    /\ UNCHANGED <<restored_free_turn, order, aiming, landed, plasma_shield,
                   place, moved, fate, guests>>

\* Slip: the tally goes on from what the stars did.
RunBoltKeepsTally ==
    /\ pc = "bolt" /\ pc' = "move"
    /\ bolt' = NoBolt
    /\ \E k \in 0 .. (IF bolt = quad /\ ~plasma_shield THEN 1 ELSE 0) : Report(k)
    /\ UNCHANGED <<restored_free_turn, order, aiming, tally, plasma_shield,
                   place, moved, fate, guests>>

\* run_bolt, and the tally begins anew.
RunBolt ==
    /\ pc = "bolt" /\ pc' = "move"
    /\ bolt' = NoBolt
    /\ \E k \in 0 .. (IF bolt = quad /\ ~plasma_shield THEN 1 ELSE 0) : Report(k)
    /\ turn_hits' = 0
    /\ UNCHANGED <<restored_free_turn, order, aiming, landed, plasma_shield,
                   place, moved, fate, guests>>

\* enemies_move, only when the player fired: each Commander takes a step.
EnemiesMove ==
    /\ pc = "move" /\ pc' = "fire"
    /\ aiming' \in 0 .. Ships
    /\ \E k \in {c \in 0 .. aiming' : order = "fired" \/ c = 0} : Report(k)
    /\ UNCHANGED <<restored_free_turn, order, place, moved, fate, guests,
                   bolts, tally>>

\* Slip: the wreck is fired on.
FiringAtWreck == pc = "fire" /\ aiming > 0 /\ n < MaxEntries

\* The loop's test for the next enemy.
Firing == pc = "fire" /\ aiming > 0 /\ n < MaxEntries /\ ~Lost

\* The second look at the buffer, after the entry of a bolt.
RoomAfter(b) == n + b < MaxEntries

Launch == Bolts /\ bolt = NoBolt /\ bolt' = quad

\* The bolt took the last of the room: no shot.
FireBoltOnly ==
    /\ Firing
    /\ Launch
    /\ ~RoomAfter(1) /\ n' = n + 1
    /\ pc' = "damage" /\ aiming' = 0
    /\ UNCHANGED <<restored_free_turn, order, plasma_shield, place, moved,
                   fate, guests, tally>>

\* Out of range, or stopped by the StarBase's shields, or a hit: trek_take_hit.
FireOne ==
    /\ Firing
    /\ \E b \in {0, 1} :
        /\ \/ b = 0 /\ UNCHANGED bolt
           \/ b = 1 /\ Launch
        /\ RoomAfter(b)
        /\ \/ n' = n + b /\ UNCHANGED <<tally, fate>>
           \/ docked /\ n' = n + b + 1 /\ UNCHANGED <<tally, fate>>
           \/ /\ ~docked /\ n' = n + b + 1
              /\ turn_hits' = turn_hits + 1 /\ landed' = landed + 1
              /\ UNCHANGED fate
           \/ /\ ~docked /\ n' = Least(n + b + 2, MaxEntries)
              /\ turn_hits' = turn_hits + 1 /\ landed' = landed + 1
              /\ lost_how' = "enemy" /\ casualties' = Crew
              /\ UNCHANGED life_gone
    /\ aiming' = aiming - 1
    /\ UNCHANGED <<pc, restored_free_turn, order, plasma_shield, place, moved,
                   guests>>

FireDone ==
    /\ pc = "fire" /\ (aiming = 0 \/ n >= MaxEntries \/ Lost)
    /\ pc' = "damage" /\ aiming' = 0
    /\ UNCHANGED <<restored_free_turn, order, n, place, moved, fate, guests,
                   bolts, tally>>

Rounds == (turn_hits + RoundsPer \div 2) \div RoundsPer + 1

\* trek_combat_damage, unless the ship is lost: in every round a system may
\* be wrecked, and the computer takes the chart with it.
CombatDamage ==
    /\ pc = "damage" /\ pc' = "check"
    /\ \/ Lost /\ UNCHANGED <<n, casualties, turn_hits>>
       \/ /\ ~Lost
          /\ \E w \in 0 .. (IF turn_hits > 0 THEN Rounds ELSE 0) :
              /\ \E e \in 0 .. w : Report(w + e)
              /\ \/ UNCHANGED casualties
                 \/ w > 0 /\ turn_hits > DeadlyHits /\ SomeDie
          /\ turn_hits' = 0
    /\ UNCHANGED <<restored_free_turn, order, aiming, lost_how, life_gone,
                   landed, place, moved, guests, bolts>>

-----------------------------------------------------------------------------
\* run_turn's locals are gone when it returns.
TurnOver ==
    /\ pc = "check"
    /\ order' = "plain" /\ n' = 0 /\ landed' = 0
    /\ UNCHANGED <<restored_free_turn, aiming, place, moved, fate, guests,
                   bolts, turn_hits>>

\* trek_game_state, asked once an order.
GoOn == TurnOver /\ ~Lost /\ pc' = "command"

\* Lost, or the last Mongol is gone.
GameOver == TurnOver /\ pc' = "over"

Captain ==
    \/ NoTurn \/ (\E o \in {"plain", "fired"} : Stay(o)) \/ MoveRefused \/ Move
    \/ (\E s \in BOOLEAN : Dock(s)) \/ Fix \/ Land \/ Ray \/ RaiseBoltShield
    \/ Supernova \/ EndSalvo \/ SelfDestruct \/ Quit \/ NewGame \/ Restore

Galaxy ==
    \/ LifeGone \/ RunSchedule \/ RunBoarders \/ RunNova \/ RunPod
    \/ RunMutants \/ RunWear \/ RunSpy

Enemy ==
    \/ Gate \/ RunBolt \/ EnemiesMove \/ FireBoltOnly \/ FireOne \/ FireDone
    \/ CombatDamage

Next == Captain \/ Galaxy \/ Enemy \/ GoOn \/ GameOver

Spec == Init /\ [][Next]_vars

-----------------------------------------------------------------------------
(* Properties *)

Stages == {"command", "salvo", "life", "schedule", "boarders", "nova", "pod",
           "mutants", "wear", "spy", "gate", "bolt", "move", "fire", "damage",
           "check", "over"}
Causes == {"none", "enemy", "life", "pod", "hole", "nova", "ray", "self"}

Flags ==
    /\ restored_free_turn \in BOOLEAN
    /\ docked \in BOOLEAN
    /\ moved \in BOOLEAN
    /\ life_gone \in BOOLEAN
    /\ boarders \in BOOLEAN /\ mutants \in BOOLEAN
    /\ plasma_shield \in BOOLEAN

Counts ==
    /\ pc \in Stages
    /\ order \in {"fired", "plain", "time"}
    /\ n \in 0 .. MaxEntries
    /\ aiming \in 0 .. Ships
    /\ quad \in Quads
    /\ lost_how \in Causes
    /\ casualties \in 0 .. Crew
    /\ bolt \in Quads \cup {NoBolt}
    /\ turn_hits \in Nat /\ landed \in Nat

\* Every variable holds what it may; above all, no routine of the turn writes
\* past the end of run_turn's buffer.
TypeOK == Flags /\ Counts

\* The galaxy never crowds the enemy out: whatever came due in one turn, the
\* buffer still has room when trek_enemy_turn's turn comes, so run_turn's
\* "n < 12" costs no Mongol his shot.
EnemyHasRoom ==
    [][pc = "spy" /\ pc' # pc /\ order # "time" => pc' = "gate"]_vars

\* A bolt never outlives the enemy turn it was due in: once run_bolt has had
\* its say, what is in flight was launched in this turn, at the ship's own
\* quadrant - however often the ship left and came back in between.
BoltIsFresh == pc \in {"move", "fire", "damage"} => bolt \in {NoBolt, quad}

\* "no lives are lost on a turn whose hits never passed 500": the fire of this
\* very turn; a star's blow taken before it, or hits of an earlier turn left
\* in the tally by a restored or a lost game, do not count towards it.
NoLivesLostLightly ==
    [][pc = "damage" /\ casualties' > casualties => landed > DeadlyHits]_vars

\* The dead are counted once: no routine that runs after the loss of the ship
\* touches the casualties on the score sheet.
CasualtiesFinal == [][Lost /\ Lost' => casualties' = casualties]_vars

\* Life support that ran out, in a trip or a wait, is reported before the game
\* ends of it.
LossIsTold == pc \in {"command", "check", "over"} => ~life_gone

=============================================================================
