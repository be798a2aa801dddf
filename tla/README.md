# 8x8 Trek in TLA+

A model of the game under `core/`, of the C128's `main.c` and `ui.c` as far as
they keep state, of two of the storage layers under them, and of the one sound
driver that runs beside it from an interrupt: what is scheduled,
what is on the chart and in the sectors, what one order brings on, what time
does to the ship, what a world gives and to whom, what the console shows and
remembers, what a session leaves on the disk, and what a speaker plays. The specifications are checked
with TLC on small instances; the theorems are proved with TLAPS for every value
of the constants.

The game runs in one thread. But for that interrupt, what makes it hard is not
concurrency but order:
one order sets off a dozen routines (`trek_run_events`, `trek_enemy_turn`,
`trek_combat_damage`), each of them reads and writes state the others keep
copies of, each can lose the ship, and all of them report into one buffer of
twelve entries. Under it is a disk that may fail at every call, and around it a
window of memory in which one overlay at a time is live. The bugs such a
program has are states that need ten legal orders to reach; the unit tests set a
state up by hand and call one routine.

## 1. The system

### Components

| component | state | operations |
|---|---|---|
| **Scheduled events** (`core/trek.c`) | `sched[5]`, `base_under_attack`, `hail_quad`, `gal_base`, `bases_lost`, `planet_evac_end` | `trek_schedule`, `run_events`, `trek_hail`, `trek_dock`, `trek_enter_quadrant` (relief), `run_nova`, `star_supernova`, `trek_land` (rescue) |
| **Fleet and chart** (`core/trek.c`) | `gal_enemies`, `gal_commander`, `gal_nova`, the enemies in the sectors, `enemies_left`, `ship.killed`, `ship.killed_cmd` | the fill, `kill_enemy`, lasers, torpedoes, plasma bolt, death ray, death pod, both supernovae, reinforcements |
| **Navigation and sectors** (`core/trek.c`) | `sector[64]`, `enemy_hp[64]`, `ship.quad`, `ship.sec`, `ship.docked`, `gal_stars`, `gal_star_gone`, `gal_base` | `trek_enter_quadrant`, `walk_path`, `trek_move_impulse`, `trek_move_warp` with its tractor beam, `enter_black_hole`, `enemies_move`, `trek_dock`, everything that takes a thing off the map |
| **Turn pipeline** (`core/trek.c`, `c128/src/main.c`) | the event buffer of `run_turn`, `ship.moved`, `ship.lost`, `lost_how`, `casualties`, the bolt in flight, `turn_hits`, `restored_free_turn`, boarders, mutants | the order, `trek_run_events`, `trek_enemy_turn`, `trek_take_hit`, `trek_combat_damage`, `trek_game_state` |
| **Ship's clock** (`core/trek.c`) | `stardate`, `time_frac`, `energy`, `laser_heat`, `sys[]`, `repair_focus`, `life_reserve`, `docked` | `trek_advance_time`, `advance_hundredths`, the moves, `trek_dock`, FIX, `trek_life_replenish`, `trek_use_energium`, `trek_turn_end` |
| **Planets and inventory** (`core/planet.c`) | the worlds and their flags, `ship.orbiting`, the settlement and its deadline, the items, three pools of energy | ORBIT, LAND, its seven ends, the captured supplies, USE, ENERGY, MAX, the burning of a quadrant |
| **Console and panels** (`c128/src/ui.c`) | the message ring, the boxes over it and their colours, the scroll of MSGS | `ui_message`, `ui_message_col`, `ui_ack`, `ui_clear_messages`, `ui_messages_view` |
| **Command loop** (`c128/src/main.c`) | what `main` has still to do, the game in memory | title, setup, every order, the end of a game, Play again? |
| **Overlay loader** (`c128/src/overlay.c`) | which overlay is in the window | `ovl_load` and every call into the window |
| **C128 disk seam** (`c128/src/storage.c`) | logical files 2 and 15, `streaming`, the status waiting on the command channel | `plat_read_all`, `plat_write_all`, `plat_open`, `plat_read`, `plat_close` |
| **Save and restore** (`core/serial.c`, `ui.c`) | the save record on the disk | `ui_save_game`, `save_read`, `trek_state_load` |
| **Scoring, Hall of Fame** (`core/hof.c`, `ui.c`) | the table of records in its file | `hof_parse`, `hof_offer`, `ui_hall_of_fame` |
| **CoCo 3 filesystem** (`coco3/src/coco3storage.c`) | granule table (twice: disk and memory), directory, one sector buffer, one stream | the same five operations, and the string pool's raw reads |
| **CoCo 3 sound** (`coco3gime/src/gimesnd.c`) | the divisor, count-down, level and hold the handler reads, the GIME's timer, two streams of notes | `snd_tick_irq`, `snd_init`, `snd_music`, `snd_effect`, `snd_beep`, `snd_toggle`, `snd_poll`, and `disk_quiet` before every sector |
| **String pool** | the pool's granule | raw reads under an open stream |
| **Combat arithmetic** | shields, hit points | laser and torpedo damage by range, shield absorption, damage rounds |
| C128 devices, the other ports, build tools | no state of the game | - |

### How they interact

`main.c` reads an order, pages in the overlay it lives in, calls one routine of
the core, and calls `run_turn` when that routine took a turn. `run_turn` hands
one buffer of twelve events to `trek_run_events`, which drains the schedule and
then lets boarders, a nova, the pod, mutants, wear and spies have their chance;
then, if room is left and the order was not FIX, to `trek_enemy_turn`; and
`trek_combat_damage` turns the hits of that turn into wrecked systems and dead
crew. Then `trek_game_state` is asked whether it is over. The order itself may
have moved the clock (`trek_advance_time`), so that several dates are overdue
when the drain begins, or entered another quadrant (`trek_enter_quadrant`),
which relieves a siege there and draws the sectors anew from the chart. Events
are told on the panel, some of them by routines of yet another overlay. SAVE,
the restore at setup and the hall of fame go through the storage seam
(`core/storage.h`), which each machine implements for itself. Most machines have a
sound chip that holds a note by itself; the card-less CoCo 3 has one DAC, and a timer's
interrupt that toggles it under whatever else is running, the disk driver included.

Nearly everything is shared state: the schedule's dates point into the chart
(`base_under_attack`, `hail_quad`); the sectors are a copy of one cell of the
chart; `enemy_hp` is parallel to the sectors; `enemies_left` is a running total of the
chart; `docked` and `orbiting` are claims about where the ship is; a
bolt in flight is a claim about the ship's quadrant; a box of the panel is an
index into the ring; the granule table in memory is a copy of the one on the
disk.

### What is hard, and what makes each part correct

* **Schedule.** Dates overtake each other: a fall and the next attack in one
  drain, a hail while an answer is pending, an arrival one tenth before a fall,
  a star that burns under a siege. *Correct when* the mark of a siege, the date of
  the fall and the base stand and fall together; an announced date is never
  moved; the drain empties what is due, in a handful of events.
* **Fleet.** Three copies of one number, changed by nine routines, each of
  them changing a different subset. *Correct when* no ship is fought that is not
  on the chart, nothing is scored twice, nothing stands in ashes.
* **Sectors.** The map, the hit points beside it, the ship's idea of where it is
  and the chart all say where things are. *Correct when* they agree after any move,
  any fight and any new game, and when a move goes exactly as far as it can.
* **Turn.** Seven ways to lose the ship, at seven places of the pipeline, and
  state left over from an earlier turn, or an earlier game. *Correct when* the
  buffer has room for the enemy, a bolt hits only where it was aimed and only
  once, the dead are counted once and for the right cause, and a loss is told.
* **Clock.** The order of casting off, paying and arriving; fractions carried from
  one move to the next; integers of the width the compiler gives. *Correct when* no
  time is lost, no energy confiscated, and life support kills only when it should.
* **Planets.** A landing trusts an orbit that was entered turns ago, and ends in one of
  seven ways. *Correct when* the orbit is real, a world gives once, the
  settlers are saved once and in time, and no report names a loss that did not happen.
* **Console.** Indices into a ring that wraps under them. *Correct when* the record
  is the latest messages in order, and a box shows its own.
* **Disks.** A drive may fail at every call and the power may go between any two. *Correct
  when* what was reported written is on the disk, what is restored is what was
  saved, one file's misfortune is not another's, and records are never lost while
  the disk works.
* **Overlays.** Resident code that calls into a window another overlay has since taken.
  *Correct when* no call finds the wrong overlay there.
* **Sound.** A handler that reads what the game is just writing, a disk that freezes the DAC,
  and two streams with one voice. *Correct when* the handler sees whole notes only, a load is one
  silence, the voice is whose turn it is, and a beep ends.

The complete list of hazards, each at its line, is in `PROJECT.json`.

## 2. Modules

| module | what it is |
|---|---|
| `Bases` | abstract: what the galaxy promises about its bases, without a clock |
| `Schedule` | the five slots, their drain, and every order that arms, cancels or outruns a date; **implements `Bases`** |
| `Muster` | abstract: what becomes of the fleet, without quadrants |
| `Fleet` | chart, sectors and the mission's count; **implements `Muster`** |
| `Sectors` | the map of one quadrant, cell by cell, and the moves across it |
| `Turn` | one order through all the routines of a turn, over several games |
| `Clock` | `trek_advance_time` and the orders that spend time |
| `Evacuation` | abstract: the settlers are called for once, saved once, in time, or burn |
| `Planets` | orbit, landing, items, energy dialogs; **implements `Evacuation`** |
| `Journal` | abstract: a record of the latest messages and a queue of boxes |
| `Console` | the ring, the panel and MSGS; **implements `Journal`** |
| `Cabinet` | abstract: files that are replaced whole, until a replacement is cut short |
| `Granules` | the CoCo 3's filesystem, sector by sector; **implements `Cabinet`** |
| `Drive` | the C128's disk seam, call by call, over a drive that may fail |
| `Session` | title to Play again?, with the overlays' window; **extends `Drive`**, whose routines it starts and waits for |
| `Speaker` | the CoCo 3's voice, its interrupt and the disk driver's hold, statement by statement |
| `ScheduleProofs`, `FleetProofs`, `SectorsProofs`, `TurnProofs`, `ClockProofs`, `PlanetsProofs`, `SessionProofs` | theorems about the module of that name |
| `DeviceProofs` | theorems about `Console`, `Granules` and `Speaker` |
| `MC*` | the small instances |

`Schedule`, `Fleet`, `Sectors`, `Turn`, `Clock` and `Planets` are views of the same
turn: each keeps the whole of the state its own properties are about, and has an
action for every routine that touches that state, whatever component the routine
is in. What one module shows is what another assumes: `Schedule` shows that
a drain fires at most four events, and `Turn` is run with `MaxDue` = 4; `Fleet` has the pod's
life and the count of the mission, and `Sectors` lets the pod strike whenever it
may. `Session` treats a turn as one step of the game, and puts it between the
overlays and the disk.

Definitions keep the names of the code (`Relieve` and the like name an idea that
the code repeats in place). Definitions marked "Slip" or "mutant" are mistakes a maintainer
could make at that spot; they are not part of the model, and each shows that one
property would notice.

### Schedule

A turn is `pc`: *command* -> (*salvo*) -> *events* -> *chance* -> *command*. One action
per order, one per slot that fires (`FireAttack`, `FireFall`, `FireDistress`,
`FireHail`, `FireReinforce`), `Drained` when `run_events` leaves its loop, then
`RunNova` or `QuietTurn`. `Earliest` is the selection of `run_events`: smallest
date, lowest slot on a tie. `AtFrom` is the saturating sum of `trek_schedule`.
`fired` is the loop's guard of sixteen. Boarders, who come before the nova, and the
pod, mutants, wear and spies, who follow it, touch nothing of this module. Relief is part of arriving
(`trek_enter_quadrant`), of a nova and of a supernova, never an action of its own. Note the
torpedo that sets off a star: the quadrant burns, the ship is thrown next door,
relieves that quadrant too, and the salvo goes on from there.

`HailNobody` follows the code: with nobody in the box `hail_quad` is forgotten
and the date stays. `Rescue` compares with `planet_evac_end` alone.

### Fleet

A sector is the number of Commanders and of other enemies in it; placing and hit
points are in `Sectors`, so that a shot brings down *some* enemy, and a
volley any number. `Fill` is the fill of `trek_enter_quadrant`: the sectors from
the chart, the first `gal_commander[q]` ships Commanders. `RayWorks` and `RunPod`
are the two routines that clear sectors without telling the chart, `RayWorks` the
one that credits the mission for it.

### Sectors

`sector` is a function from cells to what `SEC_*` says is in them, `enemy_hp` the
array beside it. `Enter` is the layout of `trek_enter_quadrant`: `Things` in the order of
its loops (stars, the first `gal_star_gone` of them already novae; the base; the
ships; the planet), then perhaps a pod and a black hole (`Extras`), each in a
free cell. `Spots` bounds the free cells that are drawn, and `Berths` those a ship
arrives in.

`Walk` is `walk_path`: `Offsets` is one of its integer accumulators, `Rounded` and
`Truncated` its two seeds. A walk ends *clear* (it reached the cell asked for, or
left the quadrant), *blocked* in front of an object, or in a *hole*, and is billed
what the code bills. `Impulse` and `Warp` are the two moves where they are not
refused; a refusal, like every order that changes no cell, is `Other`. A warp
arrives where it was sent or, drawn by a Commander it passes, in his quadrant
(`Tractors`); a hole loses the ship or throws it anywhere. `CastOff` keeps the dock
of a move stopped on its first step, as `trek_move_impulse` does.

A volley is `pc` *lasers* or *tubes* and any number of `Hit`, `StarGone`, `Supernova`,
then `EndVolley`; the march of a torpedo is abstracted to the cell it ends in.
`fired` is what the enemy's turn is told: nobody closes in unless fired at, and a
ship thrown by a star may get away. `CloseIn` moves the one Commander a quadrant
can have, with his hit points. `NewGame` is `trek_new_game` in its order: the first
quadrant is laid out *before* `gal_star_gone` is cleared.

### Turn

`pc` walks through the routines in the order of `trek_run_events` and
`trek_enemy_turn`. The buffer is its fill count `n`; every unguarded write of
the code is an unguarded sum here, every guarded one a `Report`, so `TypeOK`
shows that no write goes past the end. A hit is one unit; the ranges that decide
between hits, misses and stopped shots are free choices. `Restore` starts from
any state a save file can hold, with `turn_hits` as the last game left it,
because it is in neither the file nor `trek_new_game`. The history variable
`landed` records what the comments speak of and the code does not
keep: the hits of this very turn.

### Clock

`Advance` and `Drain` are `trek_advance_time`, in its order: cool, top up,
repair (focus first), then life support by its state *after* the repairs. The rates,
the four limits and the 16-bit product (`Gain`, with `Word` the width of `int`)
are those of the code. `Hop` casts off before it pays, `Warp` pays before it arrives,
as the code does; a warp stopped on its first step takes no time and is billed for no distance (`STANDING_BILL`). `Suffer` stands for everything that damages a system.
`charged` is history: the hundredths the orders asked for.

### Planets

A world is its quadrant, its cell, its find and its flags. An order sets `turn`, and
`RunTurn` is the part of the turn that touches a world: the call for help, a star
that burns a quadrant (`QuadrantLost`, `planet_quadrant_lost`). Landings
are one action per end of `trek_land`: rescue, crystal, nothing, captured supplies
(handed out by `main.c` after it has returned), and the ways to fail. `EnergiumAllowed`
is the gate of USE; `Divert` and `MaxEnergy` are the two energy dialogs, clipping
where the code clips and reporting what the code reports. `given` is history: the
worlds that have given what they had. A lost game stops here; the next one is a
new `Init`.

### Console

A message is its number. `Message` is `ui_message_col` with `log_append`, `Ack` is
`ui_ack`, `ClearMessages` what a new game does. `Fetch` and `Line` are `log_fetch` and
`msgv_draw`: what MSGS shows on each of its lines. The boxes keep ring *slots*,
as in the code, so a box that outlives its message's place in the ring shows the
message that took the place. `Journal` says so (`Displaced`).

### Granules

The disk (`dfat`, `dir`, `data`) and the copy of the table in memory (`fat`, once
`ready`). `plat_write_all` is begun in one action, which frees the old chain and claims
the new one in memory (`Allocated`), and then takes one action per sector it writes:
data, table, directory entry. Each may fail, and between any two the power
may go. A sector of data is `<<write, k>>`: which write put it there, and which sector
of it. `secbuf` is what the shared buffer holds; the stream keeps the position, the
bytes left and the last sector's count as `plat_open` and `plat_read` do, and
`RawSector` is the string pool's fetch, past the buffer. `saved` and `torn` are
history: the last write of each name that reached the directory, and the names
whose replacement was cut short.

### Drive and Session

`Drive` has one action per call to the drive in `storage.c`, twice: the call that
works and the call that fails. What it assumes of the drive is what the comments of
`storage.c` say was measured: one status waits on the command channel until it is
read; opening a file for reading answers afresh, opening one for writing leaves an
answer waiting (198-206); closing 15 closes every file; a scratched file is gone at
once, and one open for writing is not whole until it is closed. A scratch that never reaches the drive,
or that the drive refuses, leaves the old file, and the open that follows is then refused too: the KERNAL has a file
that the drive does not listen to (`data` is *refused*). A read may be
cut short without an error, or come back with a bad last byte.

`Session` keeps `script`: the loads and calls `main` has still to make before it
waits for an order again. `Commands` gives each order its overlay, its function
and what it costs, `TurnScripts` what a turn may page in (at most two rare events are
told in a turn), `EvalScript` the end of a game. A call is made whatever is in the
window: that the right overlay is there is `WindowIsLive`, not a guard. An overlay
that does not load, or comes from another build, halts the machine. SAVE, the restore and the hall of fame start a
routine of `Drive` and go on with its answer. The captain may save over any name
but `BRIEF.TXT`, the hall of fame's included. `PowerOff` comes at any moment.

### Speaker

`code` is what the running routine has still to do. A statement that writes what the
handler reads (`voice_off`, `voice_note`, `disk_quiet`) is an entry of its own, and `Irq`,
which is `snd_tick_irq`, may come between any two; the rest of a routine (`Poll`, `BeepWait`,
`TuneLoaded`) is one entry. The streams, which the handler never touches, change with the
statement that decides them. `music_tick` is the code's: the music's half, then the effect's.
`Readings` is what a disk can make of MUSIC.DAT: `far_read` fetches every byte on its own, and one it
does not get is a zero, so a track may be lost or cut short beside a whole one, and a pitch lost under a
duration that was read; `Losses` says which bytes go. A zero where a duration should be ends the track (`Ended`),
be it the file's own or a lost one. Every order
of calls is allowed, and a `Disk` call stands for a string, an overlay, a page or a save. The
interrupt may also fall inside a sector: whether DSKCON lets it is told in two ways by the
comments (`coco3storage.c:120` and 258), and the hold makes it harmless. A frame comes or does not come, and
brings at most one tick, 304 thousandths at 60 Hz.

## 3. Runs

| run | what it shows | states |
|---|---|---|
| `schedule` | sieges, hails, reinforcements, distress and supernovae interleaved with every order, with the refinement of `Bases` and the liveness of the drain | 248,187 |
| `fleet` | every way an enemy comes and goes, with the refinement of `Muster` | 564,491 |
| `sectors` | every layout of a small galaxy under moves, fights, holes, beams, novae and new games | 577,016 |
| `turn` | one order and all it brings on, over several games and a restore | 967,408 |
| `clock` | four turns of mixed moves, docks, waits, volleys, crystals and damage | 3,741,707 |
| `planets` | two worlds, settlers and a deadline under flight, fire, landings and every item, with the refinement of `Evacuation` | 1,530,544 |
| `console` | messages, acknowledgements, MSGS and new games round the ring, with the refinement of `Journal` | 63,790 |
| `granules` | two files written, replaced and streamed on a failing disk, with the refinement of `Cabinet` | 378,203 |
| `session` | whole evenings: briefing, restore, every order, SAVE, evaluation, hall of fame, Play again?, with faults and resets | 2,456,567 |
| `speaker` | tunes, effects, beeps, polls, SND and sectors over one DAC, with an interrupt between any two statements | 518,785 |
| `converter`, `garbage` | two disagreements between the code and its own comments and tests; see section 6 | - |

### What the properties say

* `SiegeHasDeadline` - `base_under_attack` and `sched[EV_BASE_FALLS]` are set and
  cleared in six places. If one of them forgets one half, a base falls that was
  never attacked, or a siege goes on for ever.
* `PromiseKept` - the message "they can last until ..." has been printed; nothing
  moves that date afterwards.
* `HailHasDate`, `NothingOverdue` - the answer promised has a date; the drain leaves
  nothing overdue, and fires at most four slots, which is the `MaxDue` that module
  `Turn` builds on.
* `ImplementsBases` - all of it together, against `Bases`: a base stands until
  the enemy or a star takes it, one siege at a time, only a fall is counted, only a
  fall brings the next raid.
* `OverdueSiegeDecided` - the drain comes round to the siege it finds overdue, and decides it.
  `OverdueSiegeNears`, of each of its steps: an attack books the fall, a fall the next attack, reinforcements book
  themselves, and all of them share one bounded loop; yet every event takes the base or leaves the same siege with less before it.
* `SectorWithinChart`, `AshesAreEmpty`, `ImplementsMuster` - the three copies of the
  fleet. They may *differ* (the ray and the pod see to that), but only in the
  direction in which nothing is counted below zero and nothing is scored twice.
* `SectorsAgree` - the map shows the ship once, where the ship believes it is; hit points
  stand under an enemy or the pod and nowhere else; a docked ship is beside a base on the
  map. Every move, beam, hole, blow and pursuit writes two of the three.
* `SectorsAsCharted` - as long as the quadrant stands, the map has its stars, its base,
  its planet and no more enemies than the chart: nothing was flown over or forgotten by a
  layout, whatever happened since.
* `MovesOnTheLine` - checked in every reachable map for every cell a captain could ask
  for: the accumulators of `walk_path` give the line that its comment gives by
  division, it ends at the first thing in its way, and the bill never exceeds what was
  asked, which the unclamped `ship.impulse - cost` relies on.
* `EnemyHasRoom`, `BoltIsFresh`, `NoLivesLostLightly`, `CasualtiesFinal`, `LossIsTold` -
  see the comments in `Turn`. `BoltIsFresh` is the one that is hard to see: a
  bolt can be in flight while enemy turns are skipped, the ship leaves and comes back, and a
  game is restored; it is still gone by the time anyone fires again.
* `TimeConserved`, `FocusStarves`, `LifeLossJustified` -
  `time_frac` is one byte that three routines share; the focus gets all the time; and
  nobody dies of life support that the very same call has repaired.
* `OrbitIsReal` - `trek_land` does not look where the ship is, because whatever moves a
  ship takes it out of orbit.
* `OneGiftPerWorld` - a crystal, supplies or a rescue comes only of a world that has
  given nothing before; the supplies are handed out by another routine after the
  landing has returned.
* `TellsNoMoreThanItTakes` - the pools may stand above their maxima, and the dialogs clip;
  what they say was lost is never more than what was.
* `ImplementsEvacuation` - the settlers' flags, the deadline, "never" and the score,
  against `Evacuation`.
* `RecordIsTheLatest`, `ImplementsJournal` - the ring wraps, a new game begins in the middle
  of it, and acknowledging takes nothing out of the record.
* `FilesAreWhole` - until a replacement has been cut short, every file reads back whole as it
  was last written, through the table in memory and through the one on the disk, at
  every step of a write of another. `PoolSurvives` holds even after that.
  `StreamIsItsFile`: the screen fetches strings from the disk while a stream is
  open, and the stream never hears of it. `ImplementsCabinet`: seen from outside, a
  write replaces a file at once. `WriteEnds`: it ends.
  `WriteRunsDown`: after exactly the sectors of its file, the table and the entry, though the loop that follows
  the chain has no bound but the chain, and blanks may have been claimed from a torn disk.
* `WindowIsLive` - no call of `main` finds another overlay in the window, and no
  overlay is paged in while the disk seam has a file open.
* `OkIsOnDisk` - `STOR_OK` means the whole new content is there; and a drive that never
  failed is never said to have.
* `RestoredIsSaved` - a game in memory after a restore is the one the named file
  records (but for the one byte no check covers), and no new galaxy is made over it.
* `RecordsAreTheBest` - on a disk that has not failed the hall of fame holds at each
  rank the best scores ever offered there, over games, resets and restores.
* `NoteIsWhole` - `voice_note` rewrites divisor, count-down and timer one by one while the last
  note still interrupts; the handler decrements before it tests, so a zero would run 255
  periods, and a timer armed at zero wedged the machine.
* `HeldIsSilent` - from the first sector to the next poll the DAC stays low, even if a beep or a
  new tune starts a note meanwhile: the order of the two statements of `disk_quiet` matters.
* `SpeakerIsOwned` - between calls the voice is the effect's while one lasts, else the
  music's, else nobody's.
* `CallsReturn` - every call ends, a beep on a dead frame source included.
  `CallsRunDown`: by its own statements, none of which starts it over, and the interrupt only waits.

### Bounds

* **Schedule.** 2 x 2 quadrants hold two bases, one settlement, two stars, and
  quadrants in the ship's row and out of it, so every relation the code tests
  occurs. `Never` = 20, `Start` = 1, `Horizon` = 9 stop the clock after about
  four turns; with delays of 1 or 2 a siege, its fall, the next attack and the
  fall of that one fit in, and so do several slots due at once. (`Horizon` is in
  `Advance`'s guard and nowhere else: when it is reached time stands still, the
  turns go on.) `MaxEvents` = 16 and `MaxLost` = 255 are the code's. The level is 5, where
  everything is scheduled.
* **Fleet.** At most three ships to a quadrant, forces of two, `MaxBrought` = 7:
  two reinforcements on a small galaxy, or one on a large one. The pod's column and the
  reinforcements' differ. Two charts, one with a led force of three.
* **Sectors.** 2 x 2 quadrants of 3 x 3 cells: one with a star, one with a Commander, one
  with a star and a base, one with a planet; pod and hole may join in. Four `Spots`, of which three are
  drawn from (`MaxThings` = 3), in every order, and one `Berth`, so that objects lie in
  and beside the ship's lines; after that the ship may go anywhere. `MaxHp` = 2 tells a hit
  from a kill. Lines of up to five cells have every slope with a half in it.
* **Turn.** The buffer has its real size, `MaxDue` = 4 is shown by `NothingOverdue`. Two
  enemies fill what the galaxy leaves of the buffer at its worst (7 + 4 + 1 of 12), so the loop's
  tests both ways occur. `Crew` = 2, `DeadlyHits` = 1, `RoundsPer` = 2 keep the
  proportions; `MaxStarHits` = 1 stands for any number of blows from stars.
* **Clock.** The energy and heat constants are the code's. A move of 115 hundredths leaves half a tenth
  behind, two of them make a carry; a wait of 17 tenths is the shortest whose
  product leaves 16 bits at full repair. `Horizon` = 29 tenths outlasts the
  reserve of 20. The two bills are 4,500 of the 5,000 units, which cannot be paid twice, and
  the 1,000 that a warp going nowhere costs at most. Four turns suffice for: hit, move, dock or wait, leave.
* **Planets.** Two worlds in two quadrants, in two galaxies that between them have every
  find and an energium world that is or is not the settled one; three cells, two of
  them neighbours; a call on the first date, on the second or never, a deadline and one date after
  the first call's (`MaxDate` = 1). The
  banks hold one unit and a crystal brings two, so a pool stands above its maximum.
* **Console.** A ring of four before a panel of three, a window of three lines, which
  cuts an entry in half, and seven messages: the ring goes round, and a box outlives
  its place.
* **Granules.** Four granules of two sectors of two bytes, the pool in one of them, three
  directory entries, two files of four or five bytes: a file that ends on a granule and one that takes
  two granules, a disk that is full, and four writes, the fourth of which may meet what
  a failed one left behind. (`garbage` needs three.)
* **Session.** Two ranks, two scores, one turn to a game, three games offered to
  the hall of fame: enough for a record to be pushed to second place and for the
  other rank to be left alone. Three files, one of them the hall of fame.

* **Speaker.** Two tunes and two effects of one to three notes, with a rest and with pitches that the
  timer holds whole, halved and divided by four (divisors 1, 2 and 4; a lower
  note would only count further). Nine readings of them: whole, with nothing, and with the first bytes of either
  sector missing, where the second sector begins in the title's last note. Three frames to a beep and four polls to the guard, so the guard can trip
  after any number of frames.

### Fairness

`Schedule`, `Granules` and `Speaker` state it. In `Schedule`: weak fairness of the drain and of the
chance events, since a turn is one call of `run_turn`, which returns because every loop in it is
bounded. In `Granules`: weak fairness of the write under way, one call of
`plat_write_all` whose every loop is bounded by the length of the file; a drive that
does not answer is a failed sector. In `Speaker`: weak fairness of the mainline, which the handler
interrupts but cannot hold up, being a few instructions at the shortest period of 700
counts; frames are not fair. Nothing waits for anybody. The orders are not
fair: the captain may stop typing.

### Deadlock

Checked in every run but `planets`, whose games end without a next one. Elsewhere
a game that is over can be followed by a new one, and a machine that is off can be
switched on.

## 4. Theorems

For every galaxy, every set of delays and dates, every fleet, layout and move, every crew
and buffer, every wound, trip and width of `int`, every ring, panel, disk, tune and list of
scores:

| theorem | says |
|---|---|
| `ScheduleProofs!TypeCorrect` | Every variable of the schedule keeps its type, for any galaxy, delays and dates. |
| `ScheduleProofs!SiegesAreSound` | `SiegeHasDeadline`: The mark of a siege, the date of the fall and the base itself stand and fall together, whoever acts. |
| `ScheduleProofs!HailsAreSound` | `HailHasDate`: A base that owes an answer has a date for it. |
| `ScheduleProofs!DeadlinesArePromises` | `PromiseKept`: The date a siege was announced with is met or cancelled, never moved. |
| `ScheduleProofs!ScheduleImplementsBases` | `ImplementsBases`: The schedule refines the abstract life of a base: raid, siege, relief or fall. |
| `ScheduleProofs!NothingIsOverdue` | `NothingOverdue`: In a game that ends short of the last dates nothing is overdue when a command is read, and no drain fires more than four events. |
| `ScheduleProofs!OverdueSiegesNear` | `OverdueSiegeNears`: Each event of a drain that finds a siege overdue takes the base, or leaves the same siege with fewer events due beside it, for any delays: the drain cannot pass it by or run round it for ever. |
| `FleetProofs!TypeCorrect` | The counts of the score sheet never go below zero, whatever ray, stars and guns take. |
| `FleetProofs!SectorsAreCharted` | `SectorWithinChart`: The sectors never hold more Mongols than the chart counts, for any galaxy and fleet. |
| `FleetProofs!AshesStayEmpty` | `AshesAreEmpty`: No ship ever stands in a burnt quadrant. |
| `FleetProofs!FleetImplementsMuster` | `ImplementsMuster`: Chart, sectors, ray and reinforcements refine a muster of one number: the strength summed over the chart changes by exactly the ships that came or went, and enemies_left is what is left of it, for a galaxy of any size. |
| `TurnProofs!TypeCorrect` | Every variable of a turn keeps its type, and no routine writes past the end of the buffer, for any crew, fleet and buffer with seven entries to spare. |
| `TurnProofs!EnemyNeverCrowdedOut` | `EnemyHasRoom`: However much comes due in one turn, the enemy finds room in the buffer. |
| `TurnProofs!BoltsAreFresh` | `BoltIsFresh`: A bolt in flight once run_bolt is done is of this turn and this quadrant, whatever was in flight before. |
| `TurnProofs!LossesAreTold` | `LossIsTold`: Life support that runs out inside an order is reported before the game ends of it. |
| `TurnProofs!DeadAreFinal` | `CasualtiesFinal`: Nothing that runs after the loss of the ship changes the casualties. |
| `TurnProofs!NoLifeLostLightly` | `NoLivesLostLightly`: The damage rounds kill only in a turn whose own hits were enough. |
| `ClockProofs!TypeCorrect` | Every gauge stays on its scale, for any wounds, strains, trips and width of int. |
| `ClockProofs!NoTimeIsLost` | `TimeConserved`: The hundredths charged are on the clock and in the carry, to the last one. |
| `ClockProofs!EnergyIsKept` | A wait never takes energy away, wrapped product or not. |
| `ClockProofs!FocusGetsAll` | `FocusStarves`: While the repair focus stands no other system is repaired. |
| `ClockProofs!LifeLossesJustified` | `LifeLossJustified`: Life support kills only a crew whose system is out after the repairs, undocked, on an empty reserve. |
| `PlanetsProofs!TypeCorrect` | Every count stays in its byte and the main banks below what one crystal adds to the gate, for any worlds, gains and losses. |
| `PlanetsProofs!OrbitsAreReal` | `OrbitIsReal`: A ship in orbit is beside its world, in its quadrant, however it has been moved since. |
| `PlanetsProofs!WorldsGiveOnce` | `OneGiftPerWorld`: Whatever a world had is given once, to however many landings. |
| `PlanetsProofs!TellsTheTruth` | `TellsNoMoreThanItTakes`: No command reports more energy lost than it destroyed. |
| `PlanetsProofs!PlanetsImplementEvacuation` | `ImplementsEvacuation`: The flags, the deadline and the score refine the abstract fate of the settlers. |
| `DeviceProofs!ConsoleTyped` | The ring, the boxes and the scroll of MSGS stay in range, for rings, panels and windows of any size. |
| `DeviceProofs!TheRecordIsTheLatest` | `RecordIsTheLatest`: MSGS shows the latest messages, in order and none twice, for a ring of any length. |
| `DeviceProofs!ConsoleImplementsJournal` | `ImplementsJournal`: The ring and the panel refine a record of the latest messages and a queue of boxes. |
| `DeviceProofs!TypeCorrect` | Table, directory, buffer and stream keep their types: every link put in the table is a byte the table can hold, for any geometry. |
| `DeviceProofs!ThePoolSurvives` | `PoolSurvives`: No chain of a file reaches the string pool's granule, so no fault frees, takes or overwrites it, on a disk of any size. |
| `DeviceProofs!TheFilesAreWhole` | `FilesAreWhole`: Until a replacement is cut short every file named on the disk is whole: its chain holds what was saved, first sector to last, and its length is the entry's, on a disk of any size and for files of any length. |
| `DeviceProofs!TheStreamIsItsFile` | `StreamIsItsFile`: What the open stream gives is its own file, sector after sector, however many raw reads of the pool went through the same buffer in between. |
| `DeviceProofs!GranulesImplementCabinet` | `ImplementsCabinet`: Table, directory, chains and the write's seven steps refine a cabinet of named files: a save replaces one whole content or leaves it alone, and a read brings one back. |
| `DeviceProofs!WritesRunDown` | `WriteRunsDown`: A write follows the chain it has claimed for exactly the sectors of its file, then the table, then the entry, for files and disks of any size and whatever old chains have been torn. |
| `DeviceProofs!SpeakerNotes` | `NoteIsWhole`: Whenever the handler may run, between any two stores of a note, a beep, a poll or a load, the divisor, its count-down and the timer are of one note and the timer is not zero, for tracks of any number and length, read with any of their bytes missing, and any frame source. |
| `DeviceProofs!SpeakerHeld` | `HeldIsSilent`: From the first sector until the game polls again the DAC rests low or the next statement stores it, whatever interrupts fall and whatever tracks are played. |
| `DeviceProofs!SpeakerOwned` | `SpeakerIsOwned`: Between calls the voice plays what the two streams say, whatever beeps, toggles, loads and ends of tracks came in between, for tracks of any number and length of which any bytes may be missing. |
| `DeviceProofs!TheCallsRunDown` | `CallsRunDown`: Every statement of a call brings it nearer its end and no interrupt takes it back, for tracks of any number and length, frames and guard: a beep over a dead frame source included. |
| `SectorsProofs!SectorsTyped` | Every cell holds what SEC_* names, no hit point or count goes below zero and no quadrant remembers more losses than it had stars, in a galaxy of any size. |
| `SectorsProofs!TheSectorsAgree` | `SectorsAgree`: Whatever moved, died, closed in or was thrown: one ship on the map, in the ship's cell; hit points under every enemy and the pod and nowhere else; a docked ship beside a base. |
| `SectorsProofs!TheSectorsAreCharted` | `SectorsAsCharted`: While the quadrant stands the map has every star of the chart, its base and its planet, and no more enemies than the chart counts, over all layouts and all room to draw in. |
| `SectorsProofs!MovesKeepTheLine` | `MovesOnTheLine`: A move asked to any cell of a galaxy of any size follows the rounded line to the first thing in its way and is billed the floor of what it covered: what the two accumulators compute step by step is that closed form. |
| `SessionProofs!TypeCorrect` | The session and the drive keep their types: what a restore puts in memory is a game, whatever file was named. |
| `SessionProofs!WindowsAreLive` | `WindowIsLive`: No function of an overlay is entered while another is in the window, and no overlay is paged in over an open file. |
| `SessionProofs!OksAreOnDisk` | `OkIsOnDisk`: STOR_OK is said only of a write that stands whole on the disk, and an error only of a disk that failed. |
| `SessionProofs!RestoresAreFaithful` | `RestoredIsSaved`: A game that was restored is the one that was saved under that name, and nothing makes a galaxy over it, whatever the drive did. |
| `SessionProofs!TheRecordsAreTheBest` | `RecordsAreTheBest`: On a disk that never failed the hall of fame's file holds at each rank the two best scores ever offered there, for any ranks and scores, in whichever order they came and whatever resets and restores lay between. |

**Assumptions.** One `...Assumption` in each module that declares constants, and
TLC evaluates them in every run: sizes are naturals, the clock starts before
`Never`, delays are at least one tenth, a granule's number and its sector count fit the
byte of the table, a game's record is a game, a note is two bytes of which the first is not zero. Three say more than that.
`HorizonAssumption`: a game ends short of the last dates of sixteen bits, where nothing
can be put off any more. `ChartsAssumption`: a galaxy starts with no more ships
than the mission's counter can be brought to. `ClockAssumption` ends the clock before the
date wraps; in the program it starts at 35,000 tenths and would wrap after
30,535 more.

**Arguments.**

`Schedule`. `TypeOK` is inductive by itself. `SiegeHasDeadline`
is not: that a base fires no second attack during a siege needs the third part
(not both dates at once), that the fall finds a base needs the second, and
each needs the type of the slots. The inductive invariant is

    Sieges == TypeOK /\ SiegeHasDeadline /\ HailHasDate

`PromiseKept` is a step property under `Sieges`: the only step that writes a
date into the fall's slot is `FireAttack`, whose own slot was armed, and then, by the
third part, the fall's was not. The refinement maps each order to a stutter,
`Relief` or `Burn`, the drain to `Besiege`, `Dissolve`, `Fall` or a stutter, and
`NewGame` to itself; `ViewDecides` shows once that a step which leaves the chart, the mark and
the two slots alone is a stutter. `NothingOverdue` needs to count what a drain still owes:
a slot that fires is cleared, and what it books, itself or another, lies after the date the drain
runs to. `Prompt` says that what has fired and what is owed add up to
four at most, `Owed` counting an armed attack and an armed fall as one at a time.
`OverdueSiegeNears` rests on the same lemma (`FiringIsOneLess`): each event leaves
one less due. What it adds is that none of them touches the siege but the fall, which decides it: the
attack's slot is empty, by the third part of `SiegeHasDeadline`.

`Fleet`. `FInv` is the type of chart and sectors with `SectorWithinChart` and
`AshesAreEmpty`. The counts of the score sheet follow from it separately (`SheetOK`): every
guarded subtraction of the code is one that cannot pass zero.

The refinement maps the galaxy to one number, its strength: the chart summed over the
quadrants by a fold that takes them in an order of its own choosing. That the order does not matter is
induction over the number of quadrants. The library's induction theorem cannot be used here, its minimal element can:
`AnyFirst` supposes a set whose sum depends on the quadrant taken first, takes a smallest such set and removes
a quadrant from it; `SumsExist` and `SameSums` go the same way. `StrengthChanges` then says that a chart changed in one
quadrant changes the strength by just that much, and each step of `Muster` has a lemma:
`KillStep`, `BurnStep`, `RayStep`, `ReinforceStep`, `NewGameStep`.

`Sectors`. `SectorsInv` joins four things to the types. `Charted`: the chart itself is
one, with no quadrant that has lost more stars than it had. `Mapped`: one ship on the map, in the ship's cell, and hit points where
there is something to hit. `Moored`: a docked ship has a base beside her. `Faithful`: the map has
what the chart says of the quadrant, unless that has burnt. A layout is counted from the
sequence it places (`ThingsAre`, `LaidIs`, `LayoutIs`); afterwards only *loose* things move,
and `FaithfulKept` covers every such step, so that only a star gone, a supernova and a layout
need more. Docking is the delicate part: `Moored` holds of a base that has fallen
because the map keeps it, and of a move stopped on its first step because she has not moved.

`MovesOnTheLine` compares the walk's integer accumulators with a closed form. `OffsetsIs` says
what an accumulator holds after *k* steps, by the least *k* at which it would not;
`RoundedIs` and `FlooredIs` turn its two seeds into the nearest cell and the floor, `WalkIs`
finds the first thing in the way, `CostIs` the bill.

`Turn`. `TInv` adds to the types what each routine may rely on when it begins:
how many entries the buffer can hold at each stage (`RoomForGalaxy`), that
`life_gone` is true only until the turn's first routine (`NewsIsFresh`), that no
order is given to a lost ship (`CommandAfloat`), and that the tally counts no hit
that did not land in this turn (`TallyIsFresh`). Without `CommandAfloat`
`CasualtiesFinal` is not inductive: a landing party of a lost ship would add to
the dead. Flags and counts are proved separately, since the provers do
not mix Boolean variables and arithmetic well.

`Clock`. `CInv` is `TypeOK` with `TimeConserved`. The work is in the lemmas: a
top-up only adds (`TopUpAdds`, for any product, wrapped or not), no repair passes
a hundred (`RepairedType`), tenths and carry add up (`CarryExact`), an unfinished
focus leaves no time (`FocusTakesAll`), a drain kills only on an empty reserve
(`DrainKills`). `EnergyIsKept` is proved and not run: TLC's instance says nothing that
`TopUpAdds` does not.

`Planets`. Three parts join the types: that a date is given only by a call that has been
spent (`CalledOnce`); that a world which has given is marked `PF_TAKEN`, and keeps the
settlers' flag only when it is too late for them (`Spent1`); and that the settlers' flag stands on the
last energium world exactly until they are off or it burns (`SettlersAtHome`). The
second gives `OneGiftPerWorld`, the third the refinement. Each action changes two or
three of the nine parts; the steps that touch no world are one lemma.

`Console`. `RingInv` says what each entry of the ring holds on either side of the head,
and that a ring which has not gone round is filled from its start, which is why
`ui_clear_messages` must forget the head as well as the count. `PanelInv`
keeps the boxes inside what has been filled. The refinement is then a matter of the
boxes' slots: the one slot a new message overwrites is the one `Displaced` speaks of.

`Granules`. `Apart(t)`: in table `t` no link and no blank leads to the pool's granule.
It holds of the table on the disk and of the one in memory, is kept by
freeing a chain, because a chain that starts elsewhere is closed under links that
never lead there, and by `Allocated`, which takes blanks only. With it
`PoolSurvives` needs nothing of what files hold, and so survives the faults that
`FilesAreWhole` does not.

`FilesInv` is for the rest, and stands while no replacement has been cut short. No name has two entries;
every entry's chain is whole; and the write under way has a set of granules which it alone
has (`Clear`), linked in ascending order (`Claimed`) and written as far as it has come
(`Progress`). What would be induction along a chain is not needed, since every sector
says which one of its write it is: `FileOn` asks of each granule only that its sectors follow from its first, that the
next granule's first follows from its last, and that the last granule ends the file. The last write of a file makes its entry, and the same set of granules
becomes the chain of a whole file. `ContentsAreSaved` reads a chain back, and with it each step is one of `Cabinet`.
`StreamInv` holds the open stream to one entry (`Playing`): its granule is of that chain, the
buffer holds the sector it is in the middle of, and the bytes given are those of the sectors
fetched, less what is left of the last.

`WritesRunDown` needs none of `FilesInv` and stands on a torn disk too. `Chained`: the granules claimed and not yet
written are linked in the table in memory, the last of them says how many sectors it holds, and
the sectors they hold are those the file has left (`SectorsAre` does the division by granules and by
sectors once). No old chain enters into it, because blanks alone are claimed.

`Speaker`. The interrupt may fall between any two statements, so the invariant says of each
point of each routine what the registers hold there. `Phase` has the routines one by one: a
`voice_note` at its *k*-th statement has stored the first *k* - 1 (`Struck`), a `voice_off`
likewise (`Silenced`), and a routine that is through has left the voice on the note the streams
owe (`Owed`). `Whole` is what the handler needs whenever it may run: from the statement that
silences to the one that sounds again, a note may be half stored; at no other time.
`Held` says that the hold comes before the DAC is set low, by the very next statement, which is
why a tick between the two does no harm. The divisor's and timer's ranges (`DivisorInRange`,
`CountsInRange`) are arithmetic over every pitch a tune can ask for.
Of MUSIC.DAT the proofs use that the buffer holds bytes, and pitches of some track or none (`TuneRead`):
`ReadingsAreTunes` gets that from any tracks and any bytes lost.
For `CallsRunDown` the measure is the length of what is left to run and of what its last
statement will yet bring (`More`): a load's next sectors, a poll's note, a beep's wait with its guard
and its silence. `LastOne` says that only the last statement of a call brings more, and
`LeftTail` and `LeftOf` count what a statement leaves and what it adds.

`Session`. `ScriptInv`: in the script every call comes after the load of its own
window or after a call into it (`Linked`), and if a call is next, its window is
in. Every script the program makes is `Linked`, and so is one put before another
when it does not begin with a call (`Good`). `DriveInv` adds to the types who owns the two logical files at
each point of each routine (`ChannelsOwned`), and that on a drive that has not failed
the status read after a write is its own (`StatusIsOwn`). `GalaxyInv` has the rest of a
restore: only setup's own script makes a galaxy, and only of a game not yet begun (`NoNewGame`,
`Fresh`), and what a read has in hand is the file's own but for a lost tail and one
bad last byte (`ReadIsFile`). What `Restored` makes of it is then a game that was saved, or none.

`HallInv` is for the hall of fame. On a disk that has not failed, and that no other write
has spoiled, the file holds at each rank the two best scores offered (`Best`), or the write
under way has them in hand; and a read ends with what the disk holds. `OfferKeepsBest` is the step:
whatever two rows stood there, a third score kept in its place leaves the two best of all. The best is said
with the scores at or above each one (`Taken`, `Again` for a score offered twice), not by
sorting and not by counting, so no list of offers needs induction.

**Proved but not run.** `TypeOK` of every module but
`Speaker`, which states none: its invariants say more of the same variables. `EnergyNeverConfiscated`.
`OverdueSiegeNears` and `CallsRunDown`, whose runs check what follows from them, `OverdueSiegeDecided` and
`CallsReturn`; added to the cfg of `schedule` and of `speaker` they pass there too.

**Only model-checked.** `OverdueSiegeDecided`, `WriteEnds` and `CallsReturn`. Each has its safety half proved
(`OverdueSiegesNear`, `WritesRunDown`, `TheCallsRunDown`: a step brings the end nearer, in a measure that
cannot go below zero); what is out of the prover's reach is that fairness then takes those steps
until the end, which needs ENABLED and an induction over the measure. Every invariant, every action property and every refinement that a
passing run checks is also a theorem. What a fold or a recursive function of the models
computes is proved for that function by a least counterexample, where a theorem needs it
(`OffsetsIs`, `SameSums`).

## 5. Not modelled, and why

* **Combat arithmetic.** The shield, laser, range and damage formulae are integer
  expressions over their arguments; they keep no state, and the suite runs them over their range. The
  models choose their results freely, so nothing here depends on them.
* **The torpedo's march.** Its jitter is one-sided and its holes swap it about; that it ends
  between two holes is only probable. `Sectors` has the cell it ends in.
* **Devices and drawing.** Video and keyboards of sixteen machines, the sound chips of all but
  the CoCo 3 (`Speaker`), and the part of `ui.c` that draws the screen from the game's state, keep nothing of their own.
* **Other ports.** The same core under other storage and overlay layers. Most call a
  file system through one open, one read or write and one close; the two layers that keep
  state of their own across calls, the C128's and the CoCo 3's, are modelled.
* **The codec's layout** (`serial.c`): which byte holds which field. What it leaves out
  is in `Turn!Restore`, what a bad byte does in `Session!Restored`.
* **Parsing** of the command line and of FIX's number, and all wording.
* **Build tools and tests.** Outside the program. Rules 1 to 3 of `overlay.h` are about
  the link map, which `tools/overlay_check.py` verifies on the image; rule 4 is `WindowIsLive`.

## 6. Disagreements found

Each of these runs checks one sentence of the repository, and TLC shows a game in
which the code does otherwise.

* `converter` - *"at full repair it is 400 per stardate"* (`core/test/test_trek.c:847`).
  On a machine with 16-bit `int` the product wraps from 17 tenths on.
* `garbage` - *"a file only becomes findable once its bytes are already on the disk"*
  (`coco3/src/coco3storage.c:523`). A replacement reuses the granules of the file it
  replaces, so one that fails after its first sector leaves the old entry pointing at half of the
  new file.

Others were read in the code while it was modelled, and are not runs. The
models do what the code does.

* *"Destroyed stars per quadrant"* (`core/trek.h:579`). `trek_new_game` lays out the
  first quadrant (`trek.c:427`) before it clears `gal_star_gone` (441): a second
  game in a session may begin among stars that nobody in it has destroyed.
* A refused MOVE sets `ship.moved` (`trek.c:1561`) and may cost the enemy a turn;
  `trek.h:1024` says *"Stand still and the enemy always acts"*.
* `ui_ack` moves the boxes up and leaves `slot_colour` (`ui.c:1183`), so a colour passes to the
  next message; `test_panels.c:1044` says it travels with its own.
* The comment over `walk_path` (`trek.c:1369`) rounds the *position*, halves away from
  zero, and `MEASURED.md:3452` has a move from 4-4 to 6-3 blocked at 5-4. The code
  rounds the *offset*: going up or left a half goes to the farther cell, that move
  tests 5-3, and passes a star at 5-4.
* *"At levels 1 and 2 the slot stays at never and the +200 rescue cannot happen"*
  (`trek.c:455`). Never is later than every date, so the settlers can be taken off at once
  (`planet.c:190`); and a rescue by shuttle returns before the trip is charged.
* *"Everything that has to happen when an enemy dies, in one place"* (`trek.c:1878`). The
  death ray (697) clears sectors and mission and leaves the chart. With no target it
  runs a turn, which `trek.h:2284` says it does not.
* *"As with any loss of the ship"* (`trek.c:2838`). Four of the seven losses leave the
  casualties alone (597, 702, 1119, 2664); and a second cause overwrites `lost_how` (1119).
* *"Any movement breaks the dock"* (`trek.h:2319`). A warp out of a dock is paid for in the
  dock (`trek.c:1801`), and a move stopped on its first step keeps it.
* A base may fall with the ship docked at it (`trek.c:967`): the map and `ship.docked` keep
  it until the ship leaves. `gal_star_gone` is not cleared when a quadrant burns.
* *"`lost` receives the amount destroyed"* (`trek.h:857`). A pool above its maximum is
  clipped as well, and that part is not reported (`trek.c:1268`).
* `enemy_hp` is said to be *"non-zero only where sector[] holds an enemy"* (`trek.h:511`); the pod has
  hit points and is not `SEC_IS_ENEMY`.
* FIX multiplies a whole part of up to 59,999 by ten in 16 bits (`main.c:1227`).
* A hall of fame that cannot be read counts as an empty one and is written back so
  (`ui.c:2564`); a READST fault is taken for the end of a file (`storage.c:251`).
* On the card-less CoCo 3 the beep is *"the sound it makes when the ship declines an order"*
  (`sid.h:31-32`). The hold is lifted only by `snd_poll`: a refusal that has just fetched its words
  (`main.c:1937`) or paged in an overlay (1907) beeps for 250 ms under the hold, in silence.
* *"Both streams keep time"* (`gimesnd.c:314`). The end of an effect zeroes `note_left`, so the
  note the music was holding, or had taken in that same tick, is cut short.
* `enemies_move` writes the cell it moves to into its loop variable (`trek.c:2310`); with one
  Commander to a quadrant nothing comes of it.

## 7. Plan

Done, the most important first: `Schedule` with `Bases`, `Fleet` with `Muster`,
`Turn`, `Clock`; `Planets` with `Evacuation`, `Console` with `Journal`, `Granules` with
`Cabinet`, `Drive` and `Session`; `Sectors`; `Speaker`; proofs of every safety property and refinement
the runs check, and of the measures behind the three liveness properties.

Left:

1. `gimemem.c`, the strings' two-way cache of sectors, as a module between `Granules` and `Speaker`.
2. The combat formulae as operators, checked over their ranges against a definition in
   rationals; FIX's number.
3. The storage layers of the other ports against `Cabinet`, where they keep any state.
