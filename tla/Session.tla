------------------------------ MODULE Session ------------------------------
(***************************************************************************)
(* The C128's main cycle: title, setup, the command loop, the evaluation,  *)
(* the hall of fame and "Play again?" (c128/src/main.c), with what it      *)
(* keeps on the disk (ui.c, core/hof.c, core/serial.c) and the one window  *)
(* its overlays share (overlay.c, core/overlay.h).                         *)
(*                                                                         *)
(* `script' is what main() has still to do before it next waits for an     *)
(* order: page a window in, or call a function, which runs correctly only  *)
(* while its own overlay is in the window.  What a call does to the        *)
(* galaxy is elsewhere (Turn, Schedule, Planets); here a game is its       *)
(* level, how far it has been played, and whether its record is whole.     *)
(***************************************************************************)
EXTENDS Drive, Integers, Sequences, FiniteSetsExt

CONSTANTS Ranks,       \* command levels, 1..HOF_RANKS
          Scores,      \* final scores that can come out of the evaluation
          MaxTurns,    \* how far a game is followed (bound)
          MaxOffers    \* games that reach the hall of fame (bound)

HOF == "TREK.SCR"
BRIEF == "BRIEF.TXT"
HOF_RANKS == Cardinality(Ranks)
HOF_PLACES == 2
Slots == 0 .. HOF_RANKS * HOF_PLACES - 1

SessionAssumption ==
    /\ HOF_RANKS \in Nat \ {0} /\ Ranks = 1 .. HOF_RANKS
    /\ Scores \subseteq Int /\ MaxTurns \in Nat /\ MaxOffers \in Nat
    /\ Games = [level : Ranks, turn : 0..MaxTurns, end : {"good", "noise"}]
    /\ Tables = [Slots -> Scores \cup {0}]
    /\ {HOF, BRIEF} \subseteq Files
ASSUME SessionAssumption

VARIABLES at,        \* where main() is: "play", "again", "halted", "off"
          script,    \* the loads and calls still to make
          live,      \* overlay.c: the overlay in the window
          game,      \* the game in memory
          score,     \* main's final_score
          offered    \* history: how often each score was offered at each rank

session == <<at, script, live, game, score, offered>>
vars == <<drive, session>>

Saving == Files \ {BRIEF}        \* names a captain types at the SAVE box

---------------------------------------------------------------------------
(* The overlays. *)

OVL_NONE == "none"
Window == [ui_title |-> "TITLE", ui_setup_briefing |-> "TITLE", ui_briefing |-> "TITLE",
           ui_setup |-> "FRONT", ui_save_game |-> "FRONT",
           trek_new_game |-> "XTRA", run_events |-> "EVENTS",
           ui_messages_view |-> "MSGS", do_hail |-> "MSGS", report_rare_event |-> "MSGS",
           do_ray |-> "CMDS", do_max_energy |-> "CMDS", do_energy |-> "CMDS",
           do_dock |-> "CMDS", do_self |-> "CMDS", do_plasma_bolt |-> "CMDS",
           do_orbit |-> "PLANET", do_land |-> "PLANET", do_use |-> "PLANET",
           ui_info_panel |-> "INFO", ui_planet_list |-> "INFO", do_fix |-> "INFO",
           ui_repair_report |-> "REPAIR", fire_one_torpedo |-> "REPAIR",
           ui_loss_memo |-> "EVAL", ui_evaluation |-> "EVAL", trek_score |-> "EVAL",
           ui_hall_of_fame |-> "HOF"]
Overlays == {Window[f] : f \in DOMAIN Window}

Load(w) == [do |-> "load", what |-> w]
Call(f) == [do |-> "call", what |-> f]
Turn == [do |-> "turn", what |-> "run_turn"]       \* enemy_turn, or FIX's own
Steps == {Load(w) : w \in Overlays} \cup {Call(f) : f \in DOMAIN Window} \cup {Turn}

\* main(), from the title to setup.
TitleScript == <<Load("TITLE"), Call("ui_title"), Call("ui_setup_briefing")>>
SetupScript == <<Load("FRONT"), Call("ui_setup")>>
NewScript == <<Load("XTRA"), Call("trek_new_game")>>

\* The command loop's dispatch: what each order loads, calls and costs.
\* Orders that load nothing are one: they cost a turn or they do not.
Paged(w, f) == <<Load(w), Call(f)>>
Commands ==
    {Paged("FRONT", "ui_save_game"), Paged("MSGS", "ui_messages_view"),
     Paged("CMDS", "do_self"), Paged("INFO", "ui_info_panel"),
     Paged("INFO", "ui_planet_list"), Paged("REPAIR", "ui_repair_report"),
     Paged("INFO", "do_fix"), Paged("INFO", "do_fix") \o <<Turn>>,
     Paged("MSGS", "do_hail") \o <<Turn>>, <<Turn>>}
    \cup {Paged("CMDS", f) \o <<Turn>> : f \in {"do_ray", "do_max_energy", "do_energy", "do_dock"}}
    \cup {Paged("PLANET", f) \o <<Turn>> : f \in {"do_orbit", "do_land", "do_use"}}
    \cup {Paged("PLANET", "do_use") \o Paged("CMDS", "do_plasma_bolt") \o <<Turn>>}
    \cup {<<Load("REPAIR")>> \o [i \in 1..shots |-> Call("fire_one_torpedo")] \o <<Turn>> :
              shots \in 0..3}

\* run_turn: the events' window if anything is due, then the prose of each rare
\* event the turn reported.
TurnScripts ==
    {due \o rare : due \in {<<>>, Paged("EVENTS", "run_events")},
                   rare \in {<<>>, Paged("MSGS", "report_rare_event"),
                             Paged("MSGS", "report_rare_event")
                                 \o Paged("MSGS", "report_rare_event")}}

\* After the loop.  The score is taken while its overlay is in the window.
EvalScriptScoresLate(lost) ==
    <<Load("EVAL")>> \o (IF lost THEN <<Call("ui_loss_memo")>> ELSE <<>>)
        \o <<Call("ui_evaluation"), Load("HOF"), Call("trek_score"), Call("ui_hall_of_fame")>>
EvalScript(lost) ==
    <<Load("EVAL")>> \o (IF lost THEN <<Call("ui_loss_memo")>> ELSE <<>>)
        \o <<Call("ui_evaluation"), Call("trek_score"), Load("HOF"), Call("ui_hall_of_fame")>>

---------------------------------------------------------------------------
(* core/hof.c *)

hof_index(level, place) == place * HOF_RANKS + (level - 1)
hof_clear == [i \in Slots |-> 0]

HofOfferKeepsSecond(tbl, level, s) ==
    IF s > tbl[hof_index(level, 0)] THEN [tbl EXCEPT ![hof_index(level, 0)] = s]
    ELSE IF s > tbl[hof_index(level, 1)] THEN [tbl EXCEPT ![hof_index(level, 1)] = s]
    ELSE tbl

\* A new first pushes the old first into second.
HofOffer(tbl, level, s) ==
    IF s > tbl[hof_index(level, 0)]
    THEN [tbl EXCEPT ![hof_index(level, 1)] = tbl[hof_index(level, 0)],
                     ![hof_index(level, 0)] = s]
    ELSE IF s > tbl[hof_index(level, 1)] THEN [tbl EXCEPT ![hof_index(level, 1)] = s]
    ELSE tbl

\* plat_read_all and hof_parse: anything less than a whole table is no table.
HofRead ==
    IF job.ret = "ok" /\ job.value.kind = "table" /\ job.value.end = "good"
    THEN job.value.val ELSE hof_clear

Offers == {<<r, s>> : r \in Ranks, s \in Scores}
NoOffers == [o \in Offers |-> 0]
OfferCount == MapThenSumSet(LAMBDA o : offered[o], Offers)

\* The history is kept for as long as the disk has kept its side.
Remember(o) == offered' = IF spoiled' THEN NoOffers ELSE o

---------------------------------------------------------------------------
(* The session's steps. *)

NewGame(level) == [level |-> level, turn |-> 0, end |-> "good"]
Blank == NewGame(1)

Init ==
    /\ DriveInit
    /\ \E hall \in {Absent, TableOf(hof_clear)} :
          disk = [f \in Files |-> CASE f = BRIEF -> Text [] f = HOF -> hall [] OTHER -> Absent]
    /\ at = "off" /\ script = <<>> /\ live = OVL_NONE
    /\ game = Blank /\ score = 0
    /\ offered = NoOffers

Idle == job.op = "none"
Next1(op, f) == at = "play" /\ Idle /\ script # <<>> /\ Head(script) = [do |-> op, what |-> f]
Resume(op, f) == job.op = op /\ job.pc = "done" /\ script # <<>> /\ Head(script) = Call(f)

Switched ==
    /\ at = "off" /\ at' = "play" /\ script' = TitleScript
    /\ UNCHANGED <<drive, live, game, score, offered>>

\* ovl_load: nothing to do when it is there already, and a load that fails, or
\* brings a file from another build, stops the machine.
OvlLoad ==
    \E w \in Overlays :
        /\ Next1("load", w)
        /\ \/ live' = w /\ script' = Tail(script) /\ UNCHANGED at
           \/ live # w /\ live' = OVL_NONE /\ script' = <<>> /\ at' = "halted"
        /\ UNCHANGED <<drive, game, score, offered>>

\* Calls that change nothing the session keeps.
Plain == DOMAIN Window \ {"ui_setup_briefing", "ui_briefing", "ui_setup", "trek_new_game",
                          "ui_save_game", "trek_score", "ui_hall_of_fame"}
CallPlain ==
    /\ \E f \in Plain : Next1("call", f)
    /\ script' = Tail(script)
    /\ UNCHANGED <<drive, at, live, game, score, offered>>

\* ui_setup_briefing: read it, or go on to setup.
AskBriefing ==
    /\ Next1("call", "ui_setup_briefing")
    /\ script' \in {<<Call("ui_briefing")>> \o SetupScript, SetupScript}
    /\ UNCHANGED <<drive, at, live, game, score, offered>>

StartStorage(op, file, value) ==
    /\ job' = Job(op, file, value)
    /\ UNCHANGED <<disk, data, cmd, dos, streaming, spoiled>>
EndStorage ==
    /\ job' = NoJob
    /\ UNCHANGED <<disk, data, cmd, dos, streaming, spoiled>>

\* ui_briefing streams the file, and does without it if it is not there.
ReadBriefing ==
    /\ Next1("call", "ui_briefing")
    /\ StartStorage("stream", BRIEF, Absent)
    /\ UNCHANGED session

BriefingRead ==
    /\ Resume("stream", "ui_briefing")
    /\ EndStorage
    /\ script' = Tail(script)
    /\ UNCHANGED <<at, live, game, score, offered>>

\* ui_setup, answered N: a level, and main() makes a new game of it.
SetupNew ==
    /\ Next1("call", "ui_setup")
    /\ script' = NewScript
    /\ \E level \in Ranks : game' = NewGame(level)
    /\ UNCHANGED <<drive, at, live, score, offered>>

\* Answered Y, with a name: save_read.
Restore ==
    /\ Next1("call", "ui_setup")
    /\ \E f \in Files : StartStorage("read", f, Absent)
    /\ UNCHANGED session

\* save_read's own checks and trek_state_load's: the whole length, and a record
\* of this version.  The last byte is past every check.
SaveRead == job.ret = "ok" /\ job.value.kind = "save"

\* What would be in memory after a load: the record, last byte and all, or what
\* a record that is not one leaves there.
StateLoad ==
    CASE job.value.kind = "short" -> [game EXCEPT !.end = "cut"]
      [] job.value.end = "good" -> job.value.val
      [] OTHER -> [job.value.val EXCEPT !.end = "noise"]

\* main() makes a new galaxy unless the game was restored.
AfterRestoreAnyway == NewScript
AfterRestore == <<>>

Restored ==
    /\ Resume("read", "ui_setup") /\ SaveRead
    /\ EndStorage
    /\ game' = StateLoad
    /\ script' = AfterRestore
    /\ UNCHANGED <<at, live, score, offered>>

\* The restore failed: the questions go on as for a new game.
NotRestored ==
    /\ Resume("read", "ui_setup") /\ ~SaveRead
    /\ EndStorage
    /\ \E level \in Ranks : game' = NewGame(level)
    /\ script' = NewScript
    /\ UNCHANGED <<at, live, score, offered>>

TrekNewGame ==
    /\ Next1("call", "trek_new_game")
    /\ game' = NewGame(game.level)
    /\ script' = Tail(script)
    /\ UNCHANGED <<drive, at, live, score, offered>>

---------------------------------------------------------------------------
(* The command loop. *)

AtCommand == at = "play" /\ Idle /\ script = <<>>

Command ==
    /\ AtCommand
    /\ script' \in Commands
    /\ UNCHANGED <<drive, at, live, game, score, offered>>

TakeTurn ==
    /\ Next1("turn", "run_turn")
    /\ script' \in {t \o Tail(script) : t \in TurnScripts}
    /\ game' = [game EXCEPT !.turn = IF game.turn < MaxTurns THEN game.turn + 1 ELSE game.turn]
    /\ UNCHANGED <<drive, at, live, score, offered>>

\* SAVE: any name but the briefing's, the hall of fame's own included.
SaveGame ==
    /\ Next1("call", "ui_save_game")
    /\ \E f \in Saving :
          /\ job' = Job("write", f, SaveOf(game))
          /\ spoiled' = (spoiled \/ f = HOF)
    /\ Remember(offered)
    /\ UNCHANGED <<disk, data, cmd, dos, streaming, at, script, live, game, score>>

GameSaved ==
    /\ Resume("write", "ui_save_game")
    /\ EndStorage
    /\ script' = Tail(script)
    /\ UNCHANGED <<at, live, game, score, offered>>

\* Quit, or a game that is won or lost.
GameOver ==
    /\ AtCommand
    /\ at' = "play"
    /\ \E lost \in BOOLEAN : script' = EvalScript(lost)
    /\ UNCHANGED <<drive, live, game, score, offered>>

TrekScore ==
    /\ Next1("call", "trek_score")
    /\ score' \in Scores
    /\ script' = Tail(script)
    /\ UNCHANGED <<drive, at, live, game, offered>>

---------------------------------------------------------------------------
(* ui_hall_of_fame, and Play again? *)

HallOfFame ==
    /\ Next1("call", "ui_hall_of_fame")
    /\ StartStorage("read", HOF, Absent)
    /\ UNCHANGED session

\* A captain with no name is not offered, and a score with no place is not
\* written.
NotPlaced ==
    /\ Resume("read", "ui_hall_of_fame")
    /\ EndStorage
    /\ at' = "again" /\ script' = <<>>
    /\ UNCHANGED <<live, game, score>>

Unnamed == NotPlaced /\ UNCHANGED offered

Offered ==
    /\ OfferCount < MaxOffers
    /\ Remember([offered EXCEPT ![<<game.level, score>>] = @ + 1])

OfferRefused ==
    /\ NotPlaced /\ Offered
    /\ HofOffer(HofRead, game.level, score) = HofRead

OfferPlaced ==
    /\ Resume("read", "ui_hall_of_fame")
    /\ LET placed == HofOffer(HofRead, game.level, score) IN
          placed # HofRead /\ StartStorage("write", HOF, TableOf(placed))
    /\ Offered
    /\ UNCHANGED <<at, script, live, game, score>>

\* Whatever the write says, there is nowhere to say it.
HallWritten ==
    /\ Resume("write", "ui_hall_of_fame")
    /\ EndStorage
    /\ at' = "again" /\ script' = <<>>
    /\ UNCHANGED <<live, game, score, offered>>

PlayAgain ==
    /\ at = "again" /\ at' = "play" /\ script' = TitleScript
    /\ game' = Blank /\ score' = 0
    /\ UNCHANGED <<drive, live, offered>>

\* plat_exit resets the machine; so may its captain, at any moment.
PowerOff ==
    /\ at # "off" /\ at' = "off"
    /\ script' = <<>> /\ live' = OVL_NONE /\ game' = Blank /\ score' = 0
    /\ DrivePowerOff
    /\ Remember(offered)

Storage ==
    /\ DriveStep
    /\ Remember(offered)
    /\ UNCHANGED <<at, script, live, game, score>>

Next ==
    \/ Switched \/ OvlLoad \/ CallPlain \/ AskBriefing \/ ReadBriefing \/ BriefingRead
    \/ SetupNew \/ Restore \/ Restored \/ NotRestored \/ TrekNewGame
    \/ Command \/ TakeTurn \/ SaveGame \/ GameSaved \/ GameOver \/ TrekScore
    \/ HallOfFame \/ Unnamed \/ OfferRefused \/ OfferPlaced \/ HallWritten
    \/ PlayAgain \/ PowerOff \/ Storage

Spec == Init /\ [][Next]_vars

---------------------------------------------------------------------------
(* What must be true of it. *)

(* Type invariant of the session and of the drive under it.  In particular
   what a restore puts in memory is a game, whatever file was named. *)
TypeOK ==
    /\ DriveTypeOK
    /\ at \in {"play", "again", "halted", "off"}
    /\ script \in Seq(Steps)
    /\ live \in Overlays \cup {OVL_NONE}
    /\ game \in Games
    /\ score \in Scores \cup {0}
    /\ offered \in [Offers -> Nat]

(* Whatever order the captain gives, whatever falls due during the turn it
   costs, and however the game ends, a function in an overlay is entered only
   while its own overlay is in the window -- core/overlay.h's rule 4, and the
   crash of the first game played to its end -- and an overlay is paged in only
   when the disk seam has closed both its files, as overlay.c counts on
   (mutant: the score is taken after the hall of fame's window is loaded). *)
WindowIsLive ==
    script # <<>> =>
        /\ Head(script).do = "call" => live = Window[Head(script).what]
        /\ Head(script).do = "load" => data = "closed" /\ ~cmd /\ streaming = 0

(* What a write reports is what the disk holds: STOR_OK only with the whole new
   content on it, and never an error when the drive made none (mutant: the
   answer to the scratch is left on the command channel). *)
OkIsOnDisk ==
    At({"write"}, "done") =>
        /\ job.ret = "ok" => disk[job.file] = job.value
        /\ ~spoiled => job.ret = "ok"

(* A restore is all or nothing, but for the one byte no check covers: the game
   in memory is the one the named file records, a record that came up short is
   refused, and a galaxy is never made over a game that was restored (mutant:
   main() makes one anyway, as it once would have for the want of a brace). *)
RestoredIsSaved ==
    [][/\ Restored =>
             /\ disk[job.file].kind = "save"
             /\ game'.level = disk[job.file].val.level
             /\ game'.turn = disk[job.file].val.turn
             /\ game'.end \in {disk[job.file].val.end, "noise"}
       /\ TrekNewGame => game.turn = 0 /\ game.end = "good"]_vars

\* The scores a rank was offered that could take a place at all, and those with
\* another as good or better: the best of the two sets are first and second.
Taken(r) == {s \in Scores : s > 0 /\ offered[<<r, s>>] > 0}
Again(r) == {s \in Taken(r) : offered[<<r, s>>] > 1 \/ \E t \in Taken(r) : t > s}

(* Across games, restores, resets and "Play again?", a disk that never failed
   holds at each rank the two best scores ever offered there, whichever order
   they came in, and nothing else (mutant: a new first does not push the old
   first into second place). *)
RecordsAreTheBest ==
    Idle /\ ~spoiled =>
        LET table == IF disk[HOF] = Absent THEN hof_clear ELSE disk[HOF].val
        IN \A r \in Ranks :
              /\ table[hof_index(r, 0)] = Max({0} \cup Taken(r))
              /\ table[hof_index(r, 1)] = Max({0} \cup Again(r))
=============================================================================
