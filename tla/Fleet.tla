-------------------------------- MODULE Fleet --------------------------------
(***************************************************************************)
(* The Mongol fleet (core/trek.c): what the chart says of every quadrant,  *)
(* what stands in the sectors of the ship's own, and the count the mission *)
(* is won by.  Every way a ship of the fleet comes and goes is here: fire, *)
(* the plasma bolt, the death ray, the death pod, both kinds of supernova  *)
(* and reinforcements.                                                     *)
(*                                                                         *)
(* A sector is abstracted to how many Commanders and how many others it    *)
(* holds, and hit points to whether a shot kills.                          *)
(***************************************************************************)
EXTENDS Integers, FiniteSets, FiniteSetsExt

CONSTANTS
    Dim,            \* GAL_DIM
    PodColumn,      \* POD_QUAD_COLUMN, from 0
    PodMaxShips,    \* POD_MAX_SHIPS
    ReinfColumn,    \* REINF_COLUMN
    Forces,         \* REINF_MIN .. REINF_MIN + REINF_OF_N - 1
    Reinforced,     \* does this level book reinforcements (REINF_LEVEL)
    Charts,         \* [ships, led] of the galaxies a game may start with
    Starry,         \* the quadrants with a star in them
    MaxBrought      \* BOUND on the ships a game has seen

Cells == Dim * Dim
Quads == 0 .. (Cells - 1)
Row(q) == q \div Dim
Col(q) == q % Dim

ASSUME FleetAssumption ==
    /\ Dim \in Nat \ {0}
    /\ Charts \subseteq [ships : [Quads -> Nat], led : [Quads -> {0, 1}]]
    /\ Starry \subseteq Quads
    /\ Forces \subseteq Nat \ {0}
    /\ Reinforced \in BOOLEAN

\* What a chart's fleet adds up to, and what the mission then asks for.
Strength(ships) == MapThenSumSet(LAMBDA q : ships[q], Quads)

ASSUME ChartsAssumption ==
    /\ MaxBrought \in Nat
    /\ \A c \in Charts : Strength(c.ships) \in 0 .. MaxBrought

VARIABLES
    pc,             \* "command", "firing", "events", "nova", "pod", "check", "over"
    gal_enemies, gal_commander, gal_nova,
    quad,
    commanders, others,     \* SEC_COMMAND and the other enemies in the sectors
    pod,            \* a SEC_POD stands in the sectors
    pod_alive,
    enemies_left, killed, killed_cmd, lost

chart  == <<gal_enemies, gal_commander, gal_nova>>
sector == <<commanders, others, pod>>
sheet  == <<enemies_left, killed, killed_cmd>>
vars   == <<pc, chart, quad, sector, pod_alive, sheet, lost>>

Least(a, b) == IF a < b THEN a ELSE b

\* The counts are unsigned: every one stops at zero.
Less(a, b) == IF a > b THEN a - b ELSE 0

Afloat == Strength(gal_enemies)

-----------------------------------------------------------------------------
\* Slip: the quadrant is filled with its ships, and then its Commander.
FillOverfull(q, ships) ==
    /\ quad' = q
    /\ commanders' = Least(gal_commander[q], ships)
    /\ others' = ships
    /\ UNCHANGED pod

\* trek_enter_quadrant: the sectors are rolled afresh from the chart; the
\* first gal_commander[q] ships are Commanders.
Fill(q, ships) ==
    /\ quad' = q
    /\ commanders' = Least(gal_commander[q], ships)
    /\ others' = ships - commanders'
    /\ pod' \in {FALSE} \cup
                {b \in {TRUE} : Col(q) = PodColumn /\ ships < PodMaxShips}

\* The galaxy of trek_new_game; the ship starts away from the enemy.
NewGalaxy ==
    \E c \in Charts :
        /\ gal_enemies' = c.ships
        /\ gal_commander' = c.led
        /\ enemies_left' = Strength(c.ships)
        /\ \E q \in Quads : c.ships[q] = 0 /\ quad' = q
                            /\ pod' \in {FALSE} \cup {b \in {TRUE} : Col(q) = PodColumn}
        /\ gal_nova' = {} /\ commanders' = 0 /\ others' = 0
        /\ pod_alive' = TRUE /\ killed' = 0 /\ killed_cmd' = 0 /\ lost' = FALSE

Init ==
    /\ pc = "command"
    /\ \E c \in Charts :
        /\ gal_enemies = c.ships
        /\ gal_commander = c.led
        /\ enemies_left = Strength(c.ships)
        /\ \E q \in Quads : c.ships[q] = 0 /\ quad = q
                            /\ pod \in {FALSE} \cup {b \in {TRUE} : Col(q) = PodColumn}
    /\ gal_nova = {} /\ commanders = 0 /\ others = 0
    /\ pod_alive = TRUE /\ killed = 0 /\ killed_cmd = 0 /\ lost = FALSE

NewGame == pc = "over" /\ pc' = "command" /\ NewGalaxy

-----------------------------------------------------------------------------
(* The commands *)

Command == pc = "command"
Firing  == pc \in {"command", "firing"}

\* A warp (to any quadrant, burnt or not), a tractor beam, a black hole.
Arrive(q) ==
    /\ Command /\ pc' = "events"
    /\ Fill(q, gal_enemies[q])
    /\ UNCHANGED <<chart, pod_alive, sheet, lost>>

\* Any order that touches no Mongol.  A black hole may lose the ship;
\* self-destruction does, and like a report it takes no turn.
Other(fatal) ==
    /\ Command /\ pc' \in {"events", "check"}
    /\ lost' = fatal
    /\ UNCHANGED <<chart, quad, sector, pod_alive, sheet>>

\* Slip: the scoreboard and the mission count, but not the chart.
KillUncharted(c, o) ==
    /\ commanders' = commanders - c /\ others' = others - o
    /\ killed_cmd' = killed_cmd + c /\ killed' = killed + o
    /\ enemies_left' = Less(enemies_left, c + o)
    /\ UNCHANGED gal_enemies

\* kill_enemy, for c Commanders and o others.
Kill(c, o) ==
    /\ commanders' = commanders - c /\ others' = others - o
    /\ killed_cmd' = killed_cmd + c /\ killed' = killed + o
    /\ gal_enemies' = [gal_enemies EXCEPT ![quad] = Less(@, c + o)]
    /\ enemies_left' = Less(enemies_left, c + o)

\* trek_fire_laser or trek_fire_torpedo brings one ship down; a volley or a
\* salvo goes on with the next.
Shoot ==
    /\ Firing /\ pc' = "firing"
    /\ \/ commanders > 0 /\ Kill(1, 0)
       \/ others > 0 /\ Kill(0, 1)
    /\ UNCHANGED <<gal_commander, gal_nova, quad, pod, pod_alive, lost>>

\* Nine hundred points of laser fire: nothing on the sheet.
ShootPod ==
    /\ Firing /\ pc' = "firing"
    /\ pod
    /\ pod' = FALSE /\ pod_alive' = FALSE
    /\ UNCHANGED <<chart, quad, commanders, others, sheet, lost>>

\* trek_plasma_bolt: every enemy in the quadrant may be in its reach.
PlasmaBolt ==
    /\ Command /\ pc' = "events"
    /\ \E c \in 0 .. commanders, o \in 0 .. others : Kill(c, o)
    /\ UNCHANGED <<gal_commander, gal_nova, quad, pod, pod_alive, lost>>

\* trek_fire_ray, roll 0: the sectors are cleared and the mission credited,
\* but the chart is not told.
RayWorks ==
    /\ Command /\ pc' = "events"
    /\ commanders + others > 0
    /\ commanders' = 0 /\ others' = 0
    /\ enemies_left' = Less(enemies_left, commanders + others)
    /\ UNCHANGED <<chart, quad, pod, pod_alive, killed, killed_cmd, lost>>

\* Rolls 4 and 5.
RayFatal ==
    /\ Command /\ pc' = "events"
    /\ commanders + others > 0
    /\ lost' = TRUE
    /\ UNCHANGED <<chart, quad, sector, pod_alive, sheet>>

Thrown == {q \in Quads :
              \/ Col(q) = Col(quad) /\ Row(q) \in {Row(quad) - 1, Row(quad) + 1}
              \/ Row(q) = Row(quad) /\ Col(q) = Col(quad) + 1}

\* star_supernova: the chart of this quadrant is wiped, and the ship is in
\* the next one or lost.  The sectors are cleared before the ship moves.
Supernova(dest) ==
    /\ Firing /\ pc' = "firing"
    /\ quad \in Starry /\ (lost \/ quad \notin gal_nova)
    /\ dest \in Thrown
    /\ enemies_left' = Less(enemies_left, gal_enemies[quad])
    /\ gal_enemies' = [gal_enemies EXCEPT ![quad] = 0]
    /\ gal_nova' = gal_nova \cup {quad}
    /\ IF dest \in gal_nova'
       THEN /\ lost' = TRUE
            /\ commanders' = IF gal_enemies[quad] > 0 THEN 0 ELSE commanders
            /\ others' = IF gal_enemies[quad] > 0 THEN 0 ELSE others
            /\ UNCHANGED <<quad, pod>>
       ELSE Fill(dest, gal_enemies[dest]) /\ UNCHANGED lost
    /\ UNCHANGED <<gal_commander, pod_alive, killed, killed_cmd>>

EndVolley ==
    /\ pc = "firing" /\ pc' = "events"
    /\ UNCHANGED <<chart, quad, sector, pod_alive, sheet, lost>>

-----------------------------------------------------------------------------
(* The turn: trek_run_events, then the loop's question whether it is over *)

\* Slip: reinforcements settle on a burnt quadrant.
BerthInAshes == {q \in Quads : Col(q) = ReinfColumn /\ gal_enemies[q] = 0}

\* The first quadrant of the column, from the top, with nobody in it and no
\* burnt star; none if there is none.
Berth == {q \in Quads :
            /\ Col(q) = ReinfColumn /\ gal_enemies[q] = 0 /\ q \notin gal_nova
            /\ \A r \in Quads : Col(r) = ReinfColumn /\ Row(r) < Row(q)
                                  => gal_enemies[r] > 0 \/ r \in gal_nova}

Reinforce(n) ==
    /\ pc = "events" /\ pc' = "nova"
    /\ Reinforced
    /\ Afloat + killed + killed_cmd + n <= MaxBrought
    /\ \E q \in Berth : gal_enemies' = [gal_enemies EXCEPT ![q] = n]
    /\ enemies_left' = enemies_left + n
    /\ UNCHANGED <<gal_commander, gal_nova, quad, sector, pod_alive, killed,
                   killed_cmd, lost>>

NobodyComes ==
    /\ pc = "events" /\ pc' = "nova"
    /\ UNCHANGED <<chart, quad, sector, pod_alive, sheet, lost>>

\* run_nova, in a row the ship is not in.
RunNova ==
    /\ pc = "nova" /\ pc' = "pod"
    /\ \E q \in Starry \ gal_nova :
        /\ Row(q) # Row(quad)
        /\ enemies_left' = Less(enemies_left, gal_enemies[q])
        /\ gal_enemies' = [gal_enemies EXCEPT ![q] = 0]
        /\ gal_nova' = gal_nova \cup {q}
    /\ UNCHANGED <<gal_commander, quad, sector, pod_alive, killed, killed_cmd, lost>>

NoNova ==
    /\ pc = "nova" /\ pc' = "pod"
    /\ UNCHANGED <<chart, quad, sector, pod_alive, sheet, lost>>

\* run_pod: any enemy too weak for the hit is gone from the sectors, and from
\* nowhere else.  Empty shields, or the enemy's fire after it, lose the ship.
RunPod(fatal) ==
    /\ pc = "pod" /\ pc' = "check"
    /\ pod_alive
    /\ commanders' \in 0 .. commanders /\ others' \in 0 .. others
    /\ lost' = (lost \/ fatal)
    /\ UNCHANGED <<chart, quad, pod, pod_alive, sheet>>

NoPod(fatal) ==
    /\ pc = "pod" /\ pc' = "check"
    /\ lost' = (lost \/ fatal)
    /\ UNCHANGED <<chart, quad, sector, pod_alive, sheet>>

\* Q, answered with a yes.
Quit ==
    /\ Command /\ pc' = "over"
    /\ UNCHANGED <<chart, quad, sector, pod_alive, sheet, lost>>

\* trek_game_state, asked once a command.
GoOn ==
    /\ pc = "check" /\ ~lost /\ enemies_left > 0 /\ pc' = "command"
    /\ UNCHANGED <<chart, quad, sector, pod_alive, sheet, lost>>

GameOver ==
    /\ pc = "check" /\ (lost \/ enemies_left = 0) /\ pc' = "over"
    /\ UNCHANGED <<chart, quad, sector, pod_alive, sheet, lost>>

-----------------------------------------------------------------------------
Captain ==
    \/ \E q \in Quads : Arrive(q) \/ Supernova(q)
    \/ \E fatal \in BOOLEAN : Other(fatal)
    \/ Shoot \/ ShootPod \/ PlasmaBolt \/ RayWorks \/ RayFatal \/ EndVolley
    \/ Quit \/ NewGame

Turn ==
    \/ (\E n \in Forces : Reinforce(n)) \/ NobodyComes
    \/ RunNova \/ NoNova
    \/ \E fatal \in BOOLEAN : RunPod(fatal) \/ NoPod(fatal)
    \/ GoOn \/ GameOver

Next == Captain \/ Turn

Spec == Init /\ [][Next]_vars

-----------------------------------------------------------------------------
(* Properties *)

\* Every count the chart, the sectors and the score sheet keep is one: no
\* ray, star or gun takes it below zero.
TypeOK ==
    /\ pc \in {"command", "firing", "events", "nova", "pod", "check", "over"}
    /\ gal_enemies \in [Quads -> Nat]
    /\ gal_commander \in [Quads -> {0, 1}]
    /\ gal_nova \in SUBSET Quads
    /\ quad \in Quads
    /\ commanders \in Nat /\ others \in Nat
    /\ pod \in BOOLEAN /\ pod_alive \in BOOLEAN
    /\ enemies_left \in Nat /\ killed \in Nat /\ killed_cmd \in Nat
    /\ lost \in BOOLEAN

\* No ship is fought that the chart does not count: the sectors of the ship's
\* quadrant never hold more Mongols than gal_enemies says, whatever the ray,
\* the pod and the reinforcements did to either in between; so kill_enemy's
\* guarded decrement of the chart always has something to take.
SectorWithinChart == commanders + others <= gal_enemies[quad]

\* A burnt quadrant stays empty: no reinforcement, refill or new fleet ever
\* stands where a star has gone up.
AshesAreEmpty == \A q \in gal_nova : gal_enemies[q] = 0

\* The fleet of this module behaves as module Muster promises: every ship
\* that leaves the chart was scored or burnt, and nothing is scored twice.
M == INSTANCE Muster WITH
        Strengths <- Forces,
        MaxFleet  <- MaxBrought,
        afloat    <- Afloat,
        scored    <- killed + killed_cmd,
        owed      <- enemies_left

ImplementsMuster == M!Spec

=============================================================================
