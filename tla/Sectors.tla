------------------------------- MODULE Sectors -------------------------------
(***************************************************************************)
(* The map of the ship's quadrant (core/trek.c): how it is laid out on     *)
(* arrival, the line an impulse move or a warp walks across it, black      *)
(* holes and the tractor beam, the Commander who closes in, docking, and   *)
(* what fire, novae and new games do to the cells and to the chart they    *)
(* were drawn from.                                                        *)
(*                                                                         *)
(* Pools of energy and the clock are module Clock's: a refusal for want of *)
(* energy is an Other.  The march of a torpedo is abstracted to the cell   *)
(* it ends in, hit points to a few.                                        *)
(***************************************************************************)
EXTENDS Integers, Sequences, FiniteSets, SequencesExt

CONSTANTS
    GAL_DIM, QUAD_DIM,
    Stars, Ships,   \* of every quadrant, when a game starts
    Led,            \* the quadrants with a Commander
    Bases, Worlds,  \* the quadrants with a base, with a planet
    PodMaxShips,    \* POD_MAX_SHIPS
    MaxHp,          \* the hit points of every enemy
    MaxThings,      \* BOUND: what a quadrant holds, at most
    Spots,          \* BOUND: the cells objects are placed in, one more than that
    Berths          \* BOUND: the cells a ship arrives in from elsewhere

Coords(n) == (0 .. n - 1) \X (0 .. n - 1)
Quads == Coords(GAL_DIM)
Cells == Coords(QUAD_DIM)

ASSUME SectorsAssumption ==
    /\ GAL_DIM \in Nat \ {0, 1} /\ QUAD_DIM \in Nat \ {0, 1}
    /\ MaxHp \in Nat \ {0} /\ PodMaxShips \in Nat /\ MaxThings \in Nat
    /\ Stars \in [Quads -> Nat] /\ Ships \in [Quads -> Nat]
    /\ Led \cup Bases \cup Worlds \subseteq Quads
    /\ Spots \cup Berths \subseteq Cells
    /\ Cardinality(Spots) > MaxThings
    \* An empty cell is always left: 64 cells, and fewer things.
    /\ \A q \in Quads : Stars[q] + Ships[q] + Cardinality({q} \cap Bases)
                        + Cardinality({q} \cap Worlds) + 1
                        + (IF q[2] = GAL_DIM - 1 /\ Ships[q] < PodMaxShips THEN 1 ELSE 0)
                          <= MaxThings

VARIABLES
    pc,         \* "command", "lasers", "tubes", "events", "pod", "enemy", "over"
    fired,      \* "no", "yes", "thrown": the enemy closes in, may, or not
    quad, cell, \* ship.quad_y/x and sec_y/x
    sector,     \* what stands in every cell
    enemy_hp,
    docked,
    lost,       \* to a black hole, a supernova or the death ray
    gal         \* the chart: gal_stars, gal_star_gone, gal_enemies, gal_base, gal_nova

ship == <<quad, cell, docked, lost>>
map  == <<sector, enemy_hp>>
vars == <<pc, fired, ship, map, gal>>

Hostile == {"commander", "enemy"}       \* SEC_IS_ENEMY
Contents == Hostile \cup {"empty", "ship", "star", "nova", "base", "planet", "pod", "hole"}

Less(a, b) == IF a > b THEN a - b ELSE 0
Away(a, b) == IF a > b THEN a - b ELSE b - a
Adjacent(c, d) == \A k \in 1 .. 2 : Away(c[k], d[k]) <= 1
Standing(things) == {c \in Cells : sector[c] \in things}

-----------------------------------------------------------------------------
(* trek_enter_quadrant *)

If(thing, cond) == IF cond THEN <<thing>> ELSE <<>>

\* Slip: one star too few has gone.
ThingsOneFewerGone(g, q) ==
    [i \in 1 .. g.stars[q] |-> IF i < g.star_gone[q] THEN "nova" ELSE "star"]
    \o If("base", q \in g.base)
    \o [i \in 1 .. g.enemies[q] |-> IF i = 1 /\ q \in Led THEN "commander" ELSE "enemy"]
    \o If("planet", q \in Worlds)

\* What chart g puts into quadrant q: of its stars, those destroyed are
\* drawn first; of its ships, the Commander.
Things(g, q) ==
    [i \in 1 .. g.stars[q] |-> IF i <= g.star_gone[q] THEN "nova" ELSE "star"]
    \o If("base", q \in g.base)
    \o [i \in 1 .. g.enemies[q] |-> IF i = 1 /\ q \in Led THEN "commander" ELSE "enemy"]
    \o If("planet", q \in Worlds)

\* Then perhaps the pod, in the last column, and perhaps a black hole.
Extras(g, q) ==
    {pod \o hole :
        pod \in {<<>>, If("pod", q[2] = GAL_DIM - 1 /\ g.enemies[q] < PodMaxShips)},
        hole \in {<<>>, <<"hole">>}}

Laid(things, at, c) ==
    [d \in Cells |->
        IF d = c THEN "ship"
        ELSE LET ks == {k \in DOMAIN things : at[k] = d}
             IN  IF ks = {} THEN "empty" ELSE things[CHOOSE k \in ks : TRUE]]

\* Room[c]: the orders in which the free cells may be drawn with the ship in c.
Room == [c \in Cells |->
            SetToSeqs(CHOOSE s \in SUBSET (Spots \ {c}) : Cardinality(s) = MaxThings)]

\* The ship takes its cell first, everything else a free one.
Layouts(g, q, c) ==
    {Laid(Things(g, q) \o x, at, c) : x \in Extras(g, q),
                               at \in Room[c]}

Armed(m) == [c \in Cells |-> IF m[c] \in Hostile \cup {"pod"} THEN MaxHp ELSE 0]

Enter(q, c) ==
    /\ quad' = q /\ cell' = c
    /\ sector' \in Layouts(gal, q, c)
    /\ enemy_hp' = Armed(sector')
    /\ docked' = FALSE

NewGalaxy == [stars |-> Stars, star_gone |-> [q \in Quads |-> 0],
              enemies |-> Ships, base |-> Bases, nova |-> {}]

Init ==
    /\ pc = "command" /\ fired = "no"
    /\ gal = NewGalaxy
    /\ lost = FALSE /\ docked = FALSE
    /\ quad \in {q \in Quads : Ships[q] = 0} /\ cell \in Berths
    /\ sector \in Layouts(gal, quad, cell)
    /\ enemy_hp = Armed(sector)

\* trek_new_game clears gal_star_gone after it has laid out the first
\* quadrant: that one is drawn with the stars of the game before.
NewGame ==
    /\ pc = "over" /\ pc' = "command" /\ fired' = "no"
    /\ gal' = NewGalaxy
    /\ lost' = FALSE /\ docked' = FALSE
    /\ \E q \in {r \in Quads : Ships[r] = 0}, c \in Berths :
        /\ quad' = q /\ cell' = c
        /\ sector' \in Layouts([NewGalaxy EXCEPT !.star_gone = gal.star_gone], q, c)
    /\ enemy_hp' = Armed(sector')

-----------------------------------------------------------------------------
(* walk_path *)

Command == pc = "command"

\* One accumulator of the walk after i steps: it starts at seed, gains so
\* much a step, and at the modulus gives up a cell of offset.
Offsets(n, seed, gain, modulus) ==
    LET t[i \in 0 .. n] ==
            IF i = 0 THEN [acc |-> seed, off |-> 0]
            ELSE LET acc == t[i - 1].acc + gain
                 IN  IF acc >= modulus THEN [acc |-> acc - modulus, off |-> t[i - 1].off + 1]
                                       ELSE [acc |-> acc, off |-> t[i - 1].off]
    IN  t

Absolute(q, c) == [k \in 1 .. 2 |-> QUAD_DIM * q[k] + c[k]]
Local(a) == <<a[1] % QUAD_DIM, a[2] % QUAD_DIM>>
Here(a) == \A k \in 1 .. 2 : a[k] \div QUAD_DIM = quad[k]

\* Slip: the rounding accumulators start at nothing.
RoundedTruncated(n, a) == Offsets(n, 0, 2 * a, 2 * n)

Rounded(n, a)   == Offsets(n, n, 2 * a, 2 * n)
Truncated(n, a) == Offsets(n, 0, a, n)

Leg(from, to) == [k \in 1 .. 2 |-> Away(from[k], to[k])]
Steps(leg) == IF leg[1] > leg[2] THEN leg[1] ELSE leg[2]

\* From the ship toward the absolute cell `to`: it ends there, or leaves the
\* quadrant on the way ("clear"); in front of an object ("blocked"), in a
\* black hole ("hole").  at is the cell reached, billed the displacement.
Walk(to) ==
    LET from == Absolute(quad, cell)
        leg  == Leg(from, to)
        n    == Steps(leg)
        r    == [k \in 1 .. 2 |-> Rounded(n, leg[k])]
        t    == [k \in 1 .. 2 |-> Truncated(n, leg[k])]
        At(i) == [k \in 1 .. 2 |-> IF to[k] >= from[k] THEN from[k] + r[k][i].off
                                                       ELSE from[k] - r[k][i].off]
        \* The floor of the position: going down, a fraction costs one more.
        Billed(i) == [k \in 1 .. 2 |->
                        t[k][i].off + IF to[k] < from[k] /\ t[k][i].acc # 0 THEN 1 ELSE 0]
        ends == {i \in 1 .. n : ~Here(At(i)) \/ sector[Local(At(i))] # "empty"}
        end  == CHOOSE i \in ends : \A j \in ends : i <= j
    IN  IF ends = {} THEN [how |-> "clear", at |-> to, billed |-> leg]
        ELSE IF ~Here(At(end)) THEN [how |-> "clear", at |-> At(end - 1), billed |-> leg]
        ELSE IF sector[Local(At(end))] = "hole"
        THEN [how |-> "hole", at |-> At(end), billed |-> Billed(end - 1)]
        ELSE [how |-> "blocked", at |-> At(end - 1), billed |-> Billed(end - 1)]

\* The ship in cell d of its quadrant, by way of walk w.  A move stopped on
\* its first step does not cast off.
Shifted(d) == [sector EXCEPT ![cell] = "empty", ![d] = "ship"]
CastOff(w) == docked /\ w.billed = <<0, 0>>

Arrives(w) ==
    /\ cell' = Local(w.at)
    /\ sector' = Shifted(Local(w.at))
    /\ docked' = CastOff(w)
    /\ UNCHANGED <<quad, lost, enemy_hp>>

\* enter_black_hole: the ship is in the hole's cell, and is lost or thrown.
\* A hundred draws may all be of burnt quadrants, so any may come up.
Swallowed(w) ==
    \/ /\ cell' = Local(w.at)
       /\ sector' = Shifted(Local(w.at))
       /\ docked' = CastOff(w) /\ lost' = TRUE
       /\ UNCHANGED <<quad, enemy_hp>>
    \/ /\ \E q \in Quads, c \in Berths : Enter(q, c)
       /\ UNCHANGED lost

Stopped(w) == IF w.how = "hole" THEN Swallowed(w) ELSE Arrives(w)

\* trek_move_impulse, not refused.
Impulse(c) ==
    /\ Command /\ pc' = "events" /\ fired' = "no"
    /\ c # cell
    /\ Stopped(Walk(Absolute(quad, c)))
    /\ UNCHANGED <<gal>>

\* The quadrants in the rectangle of the trip that hold a Commander.
Tractors(q) ==
    {r \in Quads : /\ gal.enemies[r] > 0 /\ r \in Led
                   /\ \A k \in 1 .. 2 : Away(quad[k], r[k]) + Away(r[k], q[k])
                                          = Away(quad[k], q[k])}

\* trek_move_warp, not refused: to the cell asked for, there or, drawn by a
\* Commander it passes, in his quadrant.
Warp(q, c) ==
    /\ Command /\ pc' = "events" /\ fired' = "no"
    /\ q # quad
    /\ LET w == Walk(Absolute(q, c))
       IN  IF w.how = "clear"
           THEN /\ \E dest \in {q} \cup Tractors(q) : Enter(dest, c)
                /\ UNCHANGED lost
           ELSE Stopped(w)
    /\ UNCHANGED <<gal>>

-----------------------------------------------------------------------------
(* The other orders *)

\* A turn that changes no cell: a refusal, a report, a wait.
Other ==
    /\ Command /\ pc' = "events" /\ fired' = "no"
    /\ UNCHANGED <<ship, map, gal>>

\* trek_dock: beside the base on the map, if the chart still has it.
Dock ==
    /\ Command /\ pc' = "events" /\ fired' = "no"
    /\ ~docked /\ quad \in gal.base
    /\ \E b \in Standing({"base"}) : Adjacent(b, cell)
    /\ docked' = TRUE
    /\ UNCHANGED <<quad, cell, lost, map, gal>>

\* trek_fire_laser, trek_fire_torpedo: only a laser touches the pod, and only
\* an enemy's end is the chart's business.
Hit(c, dmg) ==
    /\ \/ Command /\ pc' \in {"lasers", "tubes"}
       \/ pc \in {"lasers", "tubes"} /\ pc' = pc
    /\ sector[c] \in Hostile \cup {t \in {"pod"} : pc' = "lasers"}
    /\ fired' = IF Command THEN "yes" ELSE fired
    /\ IF dmg < enemy_hp[c]
       THEN /\ enemy_hp' = [enemy_hp EXCEPT ![c] = @ - dmg]
            /\ UNCHANGED <<sector, gal>>
       ELSE /\ enemy_hp' = [enemy_hp EXCEPT ![c] = 0]
            /\ sector' = [sector EXCEPT ![c] = "empty"]
            /\ gal' = IF sector[c] = "pod" THEN gal
                      ELSE [gal EXCEPT !.enemies[quad] = Less(@, 1)]
    /\ UNCHANGED ship

Tubes ==
    /\ \/ Command
       \/ pc = "tubes"
    /\ pc' = "tubes"

\* The torpedo destroys a star, and the quadrant remembers.
StarGone(c) ==
    /\ Tubes /\ sector[c] = "star"
    /\ fired' = IF Command THEN "yes" ELSE fired
    /\ sector' = [sector EXCEPT ![c] = "nova"]
    /\ gal' = [gal EXCEPT !.star_gone[quad] = IF @ < gal.stars[quad] THEN @ + 1 ELSE @]
    /\ UNCHANGED <<ship, enemy_hp>>

\* Where star_supernova throws the ship: the star's sector row against the
\* ship's quadrant row.
Thrown(c) ==
    CASE c[1] < quad[1] /\ quad[1] < GAL_DIM - 1 -> <<quad[1] + 1, quad[2]>>
      [] ~(c[1] < quad[1] /\ quad[1] < GAL_DIM - 1) /\ c[1] > quad[1] /\ quad[1] > 0
            -> <<quad[1] - 1, quad[2]>>
      [] OTHER ->
            IF c[2] < quad[2] /\ quad[2] < GAL_DIM - 1 THEN <<quad[1], quad[2] + 1>>
            ELSE IF quad[1] < GAL_DIM - 1 THEN <<quad[1] + 1, quad[2]>>
            ELSE <<quad[1] - 1, quad[2]>>

Burn(g, q) ==
    [g EXCEPT !.enemies[q] = 0, !.stars[q] = 0,
              !.base = @ \ {q}, !.nova = @ \cup {q}]

Without(things) ==
    /\ sector'   = [c \in Cells |-> IF sector[c] \in things THEN "empty" ELSE sector[c]]
    /\ enemy_hp' = [c \in Cells |-> IF sector[c] \in things THEN 0 ELSE enemy_hp[c]]

\* star_supernova: the chart of the quadrant is wiped, the ship thrown into
\* the next, or lost if that one has burnt.
Supernova(c) ==
    /\ Tubes /\ sector[c] = "star"
    /\ fired' = "thrown"
    /\ gal' = Burn(gal, quad)
    /\ IF Thrown(c) \in gal'.nova
       THEN /\ lost' = TRUE
            /\ Without(IF gal.enemies[quad] > 0 THEN Hostile ELSE {})
            /\ UNCHANGED <<quad, cell, docked>>
       ELSE Enter(Thrown(c), cell) /\ UNCHANGED lost

\* The volley is over; it may have touched nothing.
EndVolley ==
    /\ pc \in {"command", "lasers", "tubes"} /\ pc' = "events"
    /\ fired' = IF Command THEN "yes" ELSE fired
    /\ UNCHANGED <<ship, map, gal>>

\* Every enemy takes what dmg says; one it is enough for is gone.
Blow(dmg) ==
    /\ sector' = [c \in Cells |-> IF sector[c] \in Hostile /\ dmg[c] >= enemy_hp[c]
                                  THEN "empty" ELSE sector[c]]
    /\ enemy_hp' = [c \in Cells |-> IF sector[c] \in Hostile
                                    THEN Less(enemy_hp[c], dmg[c]) ELSE enemy_hp[c]]

\* trek_plasma_bolt.
PlasmaBolt ==
    /\ Command /\ pc' = "events" /\ fired' = "no"
    /\ \E hit \in [Standing(Hostile) -> 1 .. MaxHp] :
        LET dmg == [c \in Cells |-> IF c \in DOMAIN hit THEN hit[c] ELSE 0]
        IN  /\ Blow(dmg)
            /\ gal' = [gal EXCEPT !.enemies[quad] =
                        Less(@, Cardinality({c \in DOMAIN hit : hit[c] >= enemy_hp[c]}))]
    /\ UNCHANGED <<ship>>

\* trek_fire_ray: roll 0, roll 3, rolls 4 and 5; the others are an Other.
RayWorks ==
    /\ Command /\ pc' = "events" /\ fired' = "no"
    /\ Standing(Hostile) # {}
    /\ Without(Hostile)
    /\ UNCHANGED <<ship, gal>>

RayHoles ==
    /\ Command /\ pc' = "events" /\ fired' = "no"
    /\ Standing(Hostile) # {}
    /\ \E holes \in SUBSET (Standing({"empty"}) \cap Spots) :
        sector' = [c \in Cells |-> IF c \in holes THEN "hole" ELSE sector[c]]
    /\ UNCHANGED <<ship, enemy_hp, gal>>

RayFatal ==
    /\ Command /\ pc' = "events" /\ fired' = "no"
    /\ Standing(Hostile) # {}
    /\ lost' = TRUE
    /\ UNCHANGED <<quad, cell, docked, map, gal>>

-----------------------------------------------------------------------------
(* The turn *)

\* SCHED_BASE_FALLS: any base, the one the ship is docked at included; the
\* map is not told.
BaseFalls(q) ==
    /\ pc = "events" /\ q \in gal.base
    /\ gal' = [gal EXCEPT !.base = @ \ {q}]
    /\ UNCHANGED <<pc, fired, ship, map>>

\* run_nova, in a row the ship is not in.
RunNova(q) ==
    /\ pc = "events" /\ pc' = "pod"
    /\ q[1] # quad[1] /\ gal.stars[q] > 0 /\ q \notin gal.nova
    /\ gal' = Burn(gal, q)
    /\ UNCHANGED <<fired, ship, map>>

NoNova ==
    /\ pc = "events" /\ pc' = "pod"
    /\ UNCHANGED <<fired, ship, map, gal>>

\* run_pod, as long as pod_alive (module Fleet) lets it: one blow to every
\* enemy, and none to the chart.  A blow that loses the ship shows in AfterTurn.
RunPod(hit) ==
    /\ pc = "pod" /\ pc' = "enemy"
    /\ Blow([c \in Cells |-> hit])
    /\ UNCHANGED <<fired, ship, gal>>

NoPod ==
    /\ pc = "pod" /\ pc' = "enemy"
    /\ UNCHANGED <<fired, ship, map, gal>>

Toward(a, b) == IF b > a THEN a + 1 ELSE IF b < a THEN a - 1 ELSE a

\* enemy_step: where a Commander in cell c goes; nowhere if it is taken.
Pursuit(c) == <<Toward(c[1], cell[1]), Toward(c[2], cell[2])>>

\* Slip: the hit points stay behind.
CloseInUnarmed(c) ==
    sector' = [sector EXCEPT ![c] = "empty", ![Pursuit(c)] = "commander"]
    /\ UNCHANGED enemy_hp

CloseIn(c) ==
    sector' = [sector EXCEPT ![c] = "empty", ![Pursuit(c)] = "commander"]
    /\ enemy_hp' = [enemy_hp EXCEPT ![c] = 0, ![Pursuit(c)] = enemy_hp[c]]

\* The loop asks whether the game is over: it is when the ship is lost, and
\* may be for what this module does not know: empty shields, an enemy's fire,
\* a mission done, a captain who quits.
AfterTurn == pc' \in IF lost THEN {"over"} ELSE {"command", "over"}

\* enemies_move: a quadrant has at most one Commander.
EnemiesMove ==
    /\ pc = "enemy" /\ fired # "no"
    /\ \/ \E c \in Standing({"commander"}) :
            sector[Pursuit(c)] = "empty" /\ CloseIn(c)
       \/ /\ \A c \in Standing({"commander"}) : sector[Pursuit(c)] # "empty"
          /\ UNCHANGED map
    /\ AfterTurn /\ fired' = "no"
    /\ UNCHANGED <<ship, gal>>

\* Nobody moves unless fired at, and nobody acts at all on two turns in five
\* after the ship was thrown.  No game is restored here, nor its free turn given.
EnemiesStay ==
    /\ pc = "enemy" /\ fired # "yes"
    /\ AfterTurn /\ fired' = "no"
    /\ UNCHANGED <<ship, map, gal>>

-----------------------------------------------------------------------------
Orders ==
    \/ \E c \in Cells :
        \/ Impulse(c) \/ StarGone(c) \/ Supernova(c)
        \/ \E dmg \in 1 .. MaxHp : Hit(c, dmg)
    \/ \E q \in Quads, c \in Berths : Warp(q, c)
    \/ Other \/ Dock \/ PlasmaBolt \/ RayWorks \/ RayHoles \/ RayFatal \/ EndVolley
    \/ NewGame

Turn ==
    \/ \E q \in Quads : BaseFalls(q) \/ RunNova(q)
    \/ NoNova \/ NoPod \/ EnemiesMove \/ EnemiesStay
    \/ \E hit \in 1 .. MaxHp : RunPod(hit)

Next == Orders \/ Turn

Spec == Init /\ [][Next]_vars

-----------------------------------------------------------------------------
(* Properties *)

\* Every cell holds what SEC_* names, hit points and counts never go below
\* zero, and a quadrant remembers no more losses than it had stars.
TypeOK ==
    /\ pc \in {"command", "lasers", "tubes", "events", "pod", "enemy", "over"}
    /\ fired \in {"no", "yes", "thrown"}
    /\ quad \in Quads /\ cell \in Cells
    /\ sector \in [Cells -> Contents]
    /\ enemy_hp \in [Cells -> 0 .. MaxHp]
    /\ {docked, lost} \subseteq BOOLEAN
    /\ gal.stars \in [Quads -> Nat] /\ gal.star_gone \in [Quads -> Nat]
    /\ gal.enemies \in [Quads -> Nat]
    /\ gal.base \cup gal.nova \subseteq Quads
    /\ \A q \in Quads : gal.star_gone[q] <= Stars[q]

\* The three accounts of the sector agree, whatever moved, died or was
\* thrown: the map shows the ship in the one cell the ship believes it is in;
\* hit points stand where an enemy or the pod does and nowhere else ("rebuilt
\* with it"); a docked ship is beside a base that is on the map.
SectorsAgree ==
    /\ Standing({"ship"}) = {cell}
    /\ \A c \in Cells : enemy_hp[c] > 0 <=> sector[c] \in Hostile \cup {"pod"}
    /\ docked /\ ~lost => \E b \in Standing({"base"}) : Adjacent(b, cell)

\* Nothing is flown over, stepped on or conjured up: as long as the quadrant
\* stands, the map has every star of the chart, whole or destroyed, at least
\* the destroyed ones as destroyed, its base and its planet, and no more
\* enemies than the chart counts.
SectorsAsCharted ==
    quad \notin gal.nova =>
        /\ Cardinality(Standing({"star", "nova"})) = gal.stars[quad]
        /\ Cardinality(Standing({"nova"})) >= gal.star_gone[quad]
        /\ quad \in gal.base => Cardinality(Standing({"base"})) = 1
        /\ quad \in Worlds => Cardinality(Standing({"planet"})) = 1
        /\ Cardinality(Standing(Hostile)) <= gal.enemies[quad]

\* The line as its comment defines it, without an accumulator: the i-th cell
\* is round(i * leg / n) along each axis, and what is billed is the floor of
\* the position, i * leg / n rounded down going up and up going down.
RoundedAt(i, leg, n) == (2 * leg * i + n) \div (2 * n)
FlooredAt(i, up, leg, n) == (leg * i + IF up THEN 0 ELSE n - 1) \div n

\* Where the ship is, what a trip to an absolute cell covers, and its i-th cell.
Origin == Absolute(quad, cell)
LegTo(to) == Leg(Origin, to)
StepsTo(to) == Steps(LegTo(to))
On(to, i) ==
    LET from == Origin
        leg  == Leg(from, to)
        n    == Steps(leg)
    IN  [k \in 1 .. 2 |-> IF to[k] >= from[k] THEN from[k] + RoundedAt(i, leg[k], n)
                                              ELSE from[k] - RoundedAt(i, leg[k], n)]
Cost(to, i) ==
    LET leg == LegTo(to)
        n   == Steps(leg)
    IN  [k \in 1 .. 2 |-> FlooredAt(i, to[k] >= Origin[k], leg[k], n)]
FreeAt(to, i) == LET a == On(to, i) IN Here(a) /\ sector[Local(a)] = "empty"
Absolutes == {Absolute(q, c) : q \in Quads, c \in Cells}

\* Every move that can be asked for ends at the first thing in its way, in
\* front of it or, a black hole, in it; or goes all the way.  It is billed
\* for what it covered, never for more than was asked: the pools pay without
\* a second look (trek.c:1594).
MovesOnTheLine ==
    Command => \A to \in Absolutes \ {Origin} :
        LET w == Walk(to)
            n == StepsTo(to)
        IN  /\ \A k \in 1 .. 2 : w.billed[k] <= LegTo(to)[k]
            /\ w.how = "clear" =>
                \E i \in 1 .. n : /\ \A j \in 1 .. i - 1 : FreeAt(to, j)
                                  /\ ~Here(On(to, i)) \/ (i = n /\ FreeAt(to, n) /\ w.at = to)
            /\ w.how # "clear" =>
                \E i \in 1 .. n : /\ \A j \in 1 .. i - 1 : FreeAt(to, j)
                                  /\ Here(On(to, i)) /\ ~FreeAt(to, i)
                                  /\ w.billed = Cost(to, i - 1)
                                  /\ (w.how = "hole") = (sector[Local(On(to, i))] = "hole")
                                  /\ w.at = On(to, IF w.how = "hole" THEN i ELSE i - 1)

=============================================================================
