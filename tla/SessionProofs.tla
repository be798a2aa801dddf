--------------------------- MODULE SessionProofs ---------------------------
(***************************************************************************)
(* What module Session promises whatever the captains, the scores and the  *)
(* drive do: the overlay a call needs is in the window, the window is only *)
(* filled with the disk seam's files closed, a write that reports STOR_OK  *)
(* is on the disk, and a game restored is the game that was saved.         *)
(***************************************************************************)
EXTENDS Session, SequenceTheorems, TLAPS

USE SessionAssumption DEF SessionAssumption

---------------------------------------------------------------------------
(* The inductive invariant, part by part. *)

Closed == data = "closed" /\ ~cmd /\ streaming = 0

\* Who owns the two logical files at each point of each routine.
ChannelsOwned ==
    /\ job.op = "none" \/ job.pc \in {"start", "done"} => Closed
    /\ job.op = "write" => ~cmd /\ streaming = 0
    /\ job.op = "write" /\ job.pc \in {"open", "check"} => data = "closed"
    /\ job.op = "read" \/ job.pc \in {"open", "status"} => streaming = 0
    /\ job.op = "stream" /\ job.pc = "bytes" => streaming # 0

\* A write that has met no fault has nothing waiting on the command channel,
\* and what waits there after the close says whether the file is whole.
StatusIsOwn ==
    job.op = "write" =>
        /\ job.pc \in {"open", "bytes", "close", "check"} /\ ~spoiled => dos = "ok"
        /\ job.pc = "check" /\ dos = "ok" => disk[job.file] = job.value

DriveInv == DriveTypeOK /\ ChannelsOwned /\ StatusIsOwn /\ OkIsOnDisk

\* A call may follow the load of its own window, or a call into that window.
LinkOK(a, b) ==
    b.do = "call" => \/ a = Load(Window[b.what])
                     \/ a.do = "call" /\ Window[a.what] = Window[b.what]
Linked(s) == \A i \in 1..(Len(s) - 1) : LinkOK(s[i], s[i + 1])

\* A stretch of script that may follow anything.
Good(s) == s \in Seq(Steps) /\ Linked(s) /\ (s # <<>> => s[1].do # "call")

ScriptInv ==
    /\ script \in Seq(Steps) /\ Linked(script)
    /\ script # <<>> /\ Head(script).do = "call" => live = Window[Head(script).what]
    /\ job.op # "none" => script # <<>> /\ Head(script).do = "call"

---------------------------------------------------------------------------
(* Scripts. *)

LEMMA StepFields ==
    ASSUME NEW a \in Steps
    PROVE  /\ a.do \in {"load", "call", "turn"}
           /\ a.do = "call" => a.what \in DOMAIN Window /\ a = Call(a.what)
           /\ a.do = "load" => a.what \in Overlays /\ a = Load(a.what)
  BY DEF Steps, Load, Call, Turn

LEMMA CallsAndLoads ==
    ASSUME NEW f \in DOMAIN Window
    PROVE  /\ Call(f) \in Steps /\ Load(Window[f]) \in Steps
           /\ Call(f).do = "call" /\ Call(f).what = f
           /\ Load(Window[f]).do = "load"
  BY DEF Steps, Overlays, Call, Load

LEMMA LoadFields == \A w : Load(w).do = "load" /\ Load(w).what = w
  BY DEF Load

LEMMA TurnIsStep == Turn \in Steps /\ Turn.do = "turn"
  BY DEF Steps, Turn

LEMMA LinkedJoin ==
    ASSUME NEW s \in Seq(Steps), NEW t \in Seq(Steps), Linked(s), Linked(t),
           s # <<>> /\ t # <<>> => LinkOK(s[Len(s)], t[1])
    PROVE  s \o t \in Seq(Steps) /\ Linked(s \o t)
<1>1. /\ s \o t \in Seq(Steps) /\ Len(s \o t) = Len(s) + Len(t)
      /\ \A i \in 1..Len(s) : (s \o t)[i] = s[i]
      /\ \A i \in (Len(s) + 1)..(Len(s) + Len(t)) : (s \o t)[i] = t[i - Len(s)]
  BY ConcatProperties
<1>2. ASSUME NEW i \in 1..(Len(s \o t) - 1)
      PROVE  LinkOK((s \o t)[i], (s \o t)[i + 1])
  <2>1. CASE i < Len(s)
    <3>1. i \in 1..(Len(s) - 1) /\ i \in 1..Len(s) /\ i + 1 \in 1..Len(s)
      BY <2>1
    <3> QED BY <1>1, <3>1 DEF Linked
  <2>2. CASE i = Len(s)
    <3>1. i \in 1..Len(s) /\ i + 1 \in (Len(s) + 1)..(Len(s) + Len(t))
      BY <1>1, <2>2
    <3>2. (s \o t)[i] = s[Len(s)] /\ (s \o t)[i + 1] = t[1]
      BY <1>1, <2>2, <3>1
    <3>3. s # <<>> /\ t # <<>>
      BY <1>1, <2>2, <3>1
    <3> QED BY <3>2, <3>3
  <2>3. CASE i > Len(s)
    <3>1. /\ i \in (Len(s) + 1)..(Len(s) + Len(t))
          /\ i + 1 \in (Len(s) + 1)..(Len(s) + Len(t))
          /\ i - Len(s) \in 1..(Len(t) - 1) /\ (i + 1) - Len(s) = (i - Len(s)) + 1
      BY <1>1, <2>3
    <3> QED BY <1>1, <3>1 DEF Linked
  <2> QED BY <1>1, <2>1, <2>2, <2>3
<1> QED BY <1>1, <1>2 DEF Linked

LEMMA GoodJoin ==
    ASSUME NEW s, NEW t, Good(s), Good(t)
    PROVE  Good(s \o t)
<1>1. s \in Seq(Steps) /\ t \in Seq(Steps)
  BY DEF Good
<1>2. s # <<>> /\ t # <<>> => LinkOK(s[Len(s)], t[1])
  BY DEF Good, LinkOK
<1>3. s \o t \in Seq(Steps) /\ Linked(s \o t)
  BY <1>1, <1>2, LinkedJoin DEF Good
<1>4. s # <<>> => (s \o t)[1] = s[1]
  BY <1>1, ConcatProperties
<1>5. s = <<>> => s \o t = t
  BY <1>1, ConcatEmptySeq
<1> QED BY <1>3, <1>4, <1>5 DEF Good

LEMMA TailLinked ==
    ASSUME NEW s \in Seq(Steps), s # <<>>, Linked(s)
    PROVE  /\ Tail(s) \in Seq(Steps) /\ Linked(Tail(s))
           /\ Tail(s) # <<>> => LinkOK(Head(s), Head(Tail(s)))
<1>1. /\ Tail(s) \in Seq(Steps) /\ Len(Tail(s)) = Len(s) - 1 /\ Len(s) \in Nat \ {0}
      /\ \A i \in 1..Len(Tail(s)) : Tail(s)[i] = s[i + 1]
      /\ Head(s) = s[1]
  OBVIOUS
<1>2. Linked(Tail(s))
  <2> SUFFICES ASSUME NEW i \in 1..(Len(Tail(s)) - 1)
               PROVE  LinkOK(Tail(s)[i], Tail(s)[i + 1])
    BY DEF Linked
  <2>1. i + 1 \in 1..(Len(s) - 1) /\ i \in 1..Len(Tail(s)) /\ i + 1 \in 1..Len(Tail(s))
    BY <1>1
  <2>2. Tail(s)[i] = s[i + 1] /\ Tail(s)[i + 1] = s[(i + 1) + 1]
    BY <1>1, <2>1
  <2> QED BY <2>1, <2>2 DEF Linked
<1>3. ASSUME Tail(s) # <<>> PROVE LinkOK(Head(s), Head(Tail(s)))
  <2>1. Len(Tail(s)) >= 1 /\ Head(Tail(s)) = Tail(s)[1]
    BY <1>1, <1>3
  <2>2. 1 \in 1..(Len(s) - 1) /\ Tail(s)[1] = s[2]
    BY <1>1, <2>1
  <2> QED BY <1>1, <2>1, <2>2 DEF Linked
<1> QED BY <1>1, <1>2, <1>3

LEMMA OneGood ==
    ASSUME NEW a \in Steps, a.do # "call"
    PROVE  Good(<<a>>)
  BY DEF Good, Linked

LEMMA PagedGood ==
    ASSUME NEW f \in DOMAIN Window
    PROVE  Good(Paged(Window[f], f))
<1>1. Paged(Window[f], f) = <<Load(Window[f]), Call(f)>>
  BY DEF Paged
<1>2. Load(Window[f]) \in Steps /\ Call(f) \in Steps /\ LinkOK(Load(Window[f]), Call(f))
      /\ Load(Window[f]).do # "call"
  BY CallsAndLoads DEF LinkOK
<1> HIDE DEF Load, Call, LinkOK
<1>3. Linked(<<Load(Window[f]), Call(f)>>)
  BY <1>2 DEF Linked
<1> QED BY <1>1, <1>2, <1>3 DEF Good

LEMMA EmptyGood == Good(<<>>)
  BY DEF Good, Linked

\* Each function's window, spelt out.
LEMMA Windows ==
    /\ Paged("FRONT", "ui_save_game") = Paged(Window["ui_save_game"], "ui_save_game")
    /\ Paged("MSGS", "ui_messages_view") = Paged(Window["ui_messages_view"], "ui_messages_view")
    /\ Paged("CMDS", "do_self") = Paged(Window["do_self"], "do_self")
    /\ Paged("INFO", "ui_info_panel") = Paged(Window["ui_info_panel"], "ui_info_panel")
    /\ Paged("INFO", "ui_planet_list") = Paged(Window["ui_planet_list"], "ui_planet_list")
    /\ Paged("REPAIR", "ui_repair_report") = Paged(Window["ui_repair_report"], "ui_repair_report")
    /\ Paged("INFO", "do_fix") = Paged(Window["do_fix"], "do_fix")
    /\ Paged("MSGS", "do_hail") = Paged(Window["do_hail"], "do_hail")
    /\ Paged("CMDS", "do_plasma_bolt") = Paged(Window["do_plasma_bolt"], "do_plasma_bolt")
    /\ Paged("PLANET", "do_use") = Paged(Window["do_use"], "do_use")
    /\ Paged("EVENTS", "run_events") = Paged(Window["run_events"], "run_events")
    /\ Paged("MSGS", "report_rare_event") = Paged(Window["report_rare_event"], "report_rare_event")
    /\ \A f \in {"do_ray", "do_max_energy", "do_energy", "do_dock"} : Window[f] = "CMDS"
    /\ \A f \in {"do_orbit", "do_land", "do_use"} : Window[f] = "PLANET"
    /\ Window["fire_one_torpedo"] = "REPAIR"
  BY DEF Window, Paged

LEMMA Functions ==
    {"ui_title", "ui_setup_briefing", "ui_briefing", "ui_setup", "ui_save_game",
     "trek_new_game", "run_events", "ui_messages_view", "do_hail", "report_rare_event",
     "do_ray", "do_max_energy", "do_energy", "do_dock", "do_self", "do_plasma_bolt",
     "do_orbit", "do_land", "do_use", "ui_info_panel", "ui_planet_list", "do_fix",
     "ui_repair_report", "fire_one_torpedo", "ui_loss_memo", "ui_evaluation",
     "trek_score", "ui_hall_of_fame"} = DOMAIN Window
  BY DEF Window

LEMMA TurnGood == Good(<<Turn>>)
  BY OneGood, TurnIsStep

LEMMA SalvoGood ==
    ASSUME NEW shots \in 0..3
    PROVE  Good(<<Load("REPAIR")>> \o [i \in 1..shots |-> Call("fire_one_torpedo")])
<1> DEFINE f == "fire_one_torpedo"
           s == <<Load("REPAIR")>>
           t == [i \in 1..shots |-> Call("fire_one_torpedo")]
<1>1. f \in DOMAIN Window /\ Window[f] = "REPAIR"
  BY Functions, Windows
<1>2. Good(s)
  BY <1>1, OneGood, CallsAndLoads
<1>3. LinkOK(Load("REPAIR"), Call(f)) /\ LinkOK(Call(f), Call(f)) /\ Call(f) \in Steps
  BY <1>1, CallsAndLoads DEF LinkOK
<1> HIDE DEF f
<1>4. t \in Seq(Steps) /\ Len(t) = shots /\ \A i \in 1..shots : t[i] = Call(f)
  BY <1>3 DEF f
<1>5. Linked(t)
  BY <1>3, <1>4 DEF Linked
<1>6. t # <<>> => LinkOK(s[Len(s)], t[1])
  BY <1>3, <1>4
<1>7. s \o t \in Seq(Steps) /\ Linked(s \o t)
  BY <1>2, <1>4, <1>5, <1>6, LinkedJoin DEF Good
<1>8. s \o t # <<>> /\ (s \o t)[1] = s[1]
  BY <1>2, <1>4, ConcatProperties DEF Good
<1> QED BY <1>2, <1>7, <1>8 DEF Good

LEMMA CommandsGood == \A s \in Commands : Good(s)
<1>1. \A f \in DOMAIN Window : Good(Paged(Window[f], f)) /\ Good(Paged(Window[f], f) \o <<Turn>>)
  BY PagedGood, TurnGood, GoodJoin
<1>2. Good(Paged("PLANET", "do_use") \o Paged("CMDS", "do_plasma_bolt") \o <<Turn>>)
  BY <1>1, Windows, Functions, TurnGood, GoodJoin
<1>3. \A shots \in 0..3 :
          Good(<<Load("REPAIR")>> \o [i \in 1..shots |-> Call("fire_one_torpedo")] \o <<Turn>>)
  BY SalvoGood, TurnGood, GoodJoin
<1>4. \A f \in {"do_ray", "do_max_energy", "do_energy", "do_dock"} :
          Good(Paged("CMDS", f) \o <<Turn>>)
  BY <1>1, Windows, Functions
<1>5. \A f \in {"do_orbit", "do_land", "do_use"} : Good(Paged("PLANET", f) \o <<Turn>>)
  BY <1>1, Windows, Functions
<1>6. /\ Good(Paged("FRONT", "ui_save_game")) /\ Good(Paged("MSGS", "ui_messages_view"))
      /\ Good(Paged("CMDS", "do_self")) /\ Good(Paged("INFO", "ui_info_panel"))
      /\ Good(Paged("INFO", "ui_planet_list")) /\ Good(Paged("REPAIR", "ui_repair_report"))
      /\ Good(Paged("INFO", "do_fix")) /\ Good(Paged("INFO", "do_fix") \o <<Turn>>)
      /\ Good(Paged("MSGS", "do_hail") \o <<Turn>>)
  BY <1>1, Windows, Functions
<1> HIDE DEF Good, Paged, Turn, Load, Call
<1> QED BY <1>2, <1>3, <1>4, <1>5, <1>6, TurnGood DEF Commands

LEMMA TurnScriptsGood == \A s \in TurnScripts : Good(s)
<1> DEFINE E == Paged("EVENTS", "run_events")
           R == Paged("MSGS", "report_rare_event")
<1>1. Good(E) /\ Good(R)
  BY PagedGood, Windows, Functions
<1>2. Good(R \o R)
  BY <1>1, GoodJoin
<1> HIDE DEF E, R
<1>3. \A d \in {<<>>, E}, r \in {<<>>, R, R \o R} : Good(d \o r)
  BY <1>1, <1>2, EmptyGood, GoodJoin
<1>4. ASSUME NEW s \in TurnScripts PROVE Good(s)
  <2>1. PICK d \in {<<>>, E}, r \in {<<>>, R, R \o R} : s = d \o r
    BY DEF TurnScripts, E, R
  <2> QED BY <1>3, <2>1
<1> QED BY <1>4

LEMMA MainScriptsGood ==
    /\ Good(TitleScript) /\ Good(SetupScript) /\ Good(NewScript)
    /\ SetupScript # <<>> /\ LinkOK(Call("ui_setup_briefing"), Call("ui_briefing"))
<1>1. SetupScript = Paged(Window["ui_setup"], "ui_setup")
      /\ NewScript = Paged(Window["trek_new_game"], "trek_new_game")
  BY DEF SetupScript, NewScript, Paged, Window
<1>2. Good(SetupScript) /\ Good(NewScript)
  BY <1>1, PagedGood, Functions
<1>3. /\ Window["ui_title"] = "TITLE" /\ Window["ui_setup_briefing"] = "TITLE"
      /\ Window["ui_briefing"] = "TITLE"
  BY DEF Window
<1>4. /\ Load("TITLE") \in Steps /\ Call("ui_title") \in Steps
      /\ Call("ui_setup_briefing") \in Steps /\ Load("TITLE").do # "call"
  BY <1>3, CallsAndLoads, Functions
<1>5. /\ LinkOK(Load("TITLE"), Call("ui_title"))
      /\ LinkOK(Call("ui_title"), Call("ui_setup_briefing"))
      /\ LinkOK(Call("ui_setup_briefing"), Call("ui_briefing"))
  BY <1>3 DEF LinkOK, Load, Call
<1> HIDE DEF Load, Call, LinkOK
<1>6. Good(TitleScript)
  BY <1>4, <1>5 DEF Good, Linked, TitleScript
<1> QED BY <1>1, <1>2, <1>5, <1>6 DEF SetupScript

LEMMA EvalGood == ASSUME NEW lost \in BOOLEAN PROVE Good(EvalScript(lost))
<1> DEFINE memo == IF lost THEN <<Call("ui_loss_memo")>> ELSE <<>>
           rest == <<Call("ui_evaluation"), Call("trek_score"), Load("HOF"),
                     Call("ui_hall_of_fame")>>
<1>1. /\ Window["ui_loss_memo"] = "EVAL" /\ Window["ui_evaluation"] = "EVAL"
      /\ Window["trek_score"] = "EVAL" /\ Window["ui_hall_of_fame"] = "HOF"
  BY DEF Window
<1>2. /\ Load("EVAL") \in Steps /\ Call("ui_loss_memo") \in Steps
      /\ Call("ui_evaluation") \in Steps /\ Call("trek_score") \in Steps
      /\ Load("HOF") \in Steps /\ Call("ui_hall_of_fame") \in Steps
      /\ Load("EVAL").do # "call"
  BY <1>1, CallsAndLoads, Functions
<1>3. /\ LinkOK(Load("EVAL"), Call("ui_loss_memo"))
      /\ LinkOK(Load("EVAL"), Call("ui_evaluation"))
      /\ LinkOK(Call("ui_loss_memo"), Call("ui_evaluation"))
      /\ LinkOK(Call("ui_evaluation"), Call("trek_score"))
      /\ LinkOK(Call("trek_score"), Load("HOF"))
      /\ LinkOK(Load("HOF"), Call("ui_hall_of_fame"))
  BY <1>1 DEF LinkOK, Load, Call
<1> HIDE DEF Load, Call, LinkOK
<1>4. rest \in Seq(Steps) /\ Linked(rest) /\ rest # <<>> /\ rest[1] = Call("ui_evaluation")
  BY <1>2, <1>3 DEF Linked
<1>5. memo \in Seq(Steps) /\ Linked(memo)
  BY <1>2 DEF Linked
<1>6. Good(<<Load("EVAL")>>)
  BY <1>2, OneGood
<1>7. <<Load("EVAL")>> \o memo \in Seq(Steps) /\ Linked(<<Load("EVAL")>> \o memo)
  <2>1. memo # <<>> => memo[1] = Call("ui_loss_memo")
    OBVIOUS
  <2>2. memo # <<>> => LinkOK(<<Load("EVAL")>>[Len(<<Load("EVAL")>>)], memo[1])
    BY <1>3, <2>1
  <2> QED BY <1>5, <1>6, <2>2, LinkedJoin DEF Good
<1>8. (<<Load("EVAL")>> \o memo)[1] = Load("EVAL") /\ <<Load("EVAL")>> \o memo # <<>>
  BY <1>2, <1>5, ConcatProperties
<1>9. LinkOK((<<Load("EVAL")>> \o memo)[Len(<<Load("EVAL")>> \o memo)], rest[1])
  <2>1. CASE lost
    <3>1. Len(memo) = 1 /\ memo[1] = Call("ui_loss_memo")
      BY <2>1
    <3>2. /\ Len(<<Load("EVAL")>> \o memo) = 2
          /\ (<<Load("EVAL")>> \o memo)[2] = memo[1]
      BY <1>5, <1>6, <3>1, ConcatProperties DEF Good
    <3> QED BY <3>1, <3>2, <1>3, <1>4
  <2>2. CASE ~lost
    <3>1. <<Load("EVAL")>> \o memo = <<Load("EVAL")>>
      BY <1>2, <2>2
    <3> QED BY <3>1, <1>3, <1>4
  <2> QED BY <2>1, <2>2
<1> HIDE DEF memo, rest
<1>10. /\ (<<Load("EVAL")>> \o memo) \o rest \in Seq(Steps)
       /\ Linked((<<Load("EVAL")>> \o memo) \o rest)
  BY <1>4, <1>7, <1>9, LinkedJoin
<1>11. ((<<Load("EVAL")>> \o memo) \o rest)[1] = Load("EVAL")
  BY <1>4, <1>7, <1>8, ConcatProperties
<1> QED BY <1>2, <1>10, <1>11 DEF EvalScript, Good, memo, rest

---------------------------------------------------------------------------
(* The disk seam. *)

USE DEF At, Goto, Return, Fault, Sound, CloseBoth, Idle

\* Whatever is on the disk stays a content when a file is replaced by one.
LEMMA ContentKinds ==
    Absent \in Contents /\ Torn \in Contents /\ Text \in Contents /\ Short \in Contents
  BY DEF Contents

LEMMA NoJobFields == NoJob.op = "none"
  BY DEF NoJob

LEMMA JobShape ==
    ASSUME DriveTypeOK, job.op # "none"
    PROVE  /\ job \in [op : {"read", "write", "stream"}, file : Files,
                       pc : {"start", "open", "status", "bytes", "close", "check", "done"},
                       value : Contents, ret : {"ok", "notfound", "error"}]
           /\ job.file \in Files /\ disk[job.file] \in Contents
<1>1. job # NoJob
  BY NoJobFields
<1>2. job \in [op : {"read", "write", "stream"}, file : Files,
               pc : {"start", "open", "status", "bytes", "close", "check", "done"},
               value : Contents, ret : {"ok", "notfound", "error"}]
  BY <1>1 DEF DriveTypeOK
<1>3. job.file \in Files
  BY <1>2
<1> QED BY <1>2, <1>3 DEF DriveTypeOK

LEMMA NoisyContent ==
    ASSUME NEW c \in Whole PROVE [c EXCEPT !.end = "noise"] \in Contents
  BY DEF Whole, Contents, Ends

DriveGoal == DriveInv' /\ job'.op = job.op

LEMMA ReadSteps ==
    ASSUME DriveInv, ReadStart \/ ReadOpen \/ ReadOpenFails \/ ReadStatus \/ ReadStatusFails
    PROVE  DriveGoal
<1> USE DEF DriveInv, DriveTypeOK, ChannelsOwned, StatusIsOwn, OkIsOnDisk, Closed, DriveGoal,
            classify
<1>0. job \in [op : {"read", "write", "stream"}, file : Files,
               pc : {"start", "open", "status", "bytes", "close", "check", "done"},
               value : Contents, ret : {"ok", "notfound", "error"}]
  BY JobShape DEF ReadStart, ReadOpen, ReadOpenFails, ReadStatus, ReadStatusFails
<1>1. CASE ReadStart       BY <1>0, <1>1 DEF ReadStart
<1>2. CASE ReadOpen        BY <1>0, <1>2 DEF ReadOpen
<1>3. CASE ReadOpenFails   BY <1>0, <1>3 DEF ReadOpenFails
<1>4. CASE ReadStatus
  <2>1. /\ job.op \in {"read", "stream"} /\ job.pc = "status" /\ dos' = "ok"
        /\ UNCHANGED <<disk, spoiled>>
    BY <1>4 DEF ReadStatus
  <2>2. CASE dos # "ok"
    BY <1>0, <1>4, <2>1, <2>2 DEF ReadStatus
  <2>3. CASE dos = "ok"
    <3>1. /\ job' = [job EXCEPT !.pc = "bytes"] /\ data' = data /\ cmd' = cmd
          /\ streaming' = IF job.op = "stream" THEN 1 ELSE streaming
      BY <1>4, <2>3 DEF ReadStatus, channels
    <3> QED BY <1>0, <2>1, <3>1
  <2> QED BY <2>2, <2>3
<1>5. CASE ReadStatusFails BY <1>0, <1>5 DEF ReadStatusFails
<1> QED BY <1>1, <1>2, <1>3, <1>4, <1>5

LEMMA ByteSteps ==
    ASSUME DriveInv, ReadBytes \/ ReadBytesFail \/ StreamRead \/ StreamClose
    PROVE  DriveGoal
<1> USE DEF DriveInv, DriveTypeOK, ChannelsOwned, StatusIsOwn, OkIsOnDisk, Closed, DriveGoal
<1>0. /\ job \in [op : {"read", "write", "stream"}, file : Files,
                  pc : {"start", "open", "status", "bytes", "close", "check", "done"},
                  value : Contents, ret : {"ok", "notfound", "error"}]
      /\ disk[job.file] \in Contents /\ Short \in Contents
  BY JobShape, ContentKinds DEF ReadBytes, ReadBytesFail, StreamRead, StreamClose
<1>1. CASE ReadBytes     BY <1>0, <1>1 DEF ReadBytes
<1>2. CASE ReadBytesFail BY <1>0, <1>2, NoisyContent DEF ReadBytesFail
<1>3. CASE StreamRead    BY <1>0, <1>3 DEF StreamRead, StreamEnd, channels
<1>4. CASE StreamClose
  <2>1. /\ job.op = "stream" /\ job.pc = "bytes" /\ streaming' = 0
        /\ job' = [job EXCEPT !.pc = "done", !.ret = "ok"]
        /\ UNCHANGED <<disk, dos, spoiled>>
    BY <1>4 DEF StreamClose
  <2>2. streaming # 0
    BY <2>1
  <2>3. data' = "closed" /\ cmd' = FALSE
    BY <1>4, <2>2 DEF StreamClose
  <2>4. /\ job'.op = "stream" /\ job'.pc = "done" /\ job' # NoJob
        /\ job' \in [op : {"read", "write", "stream"}, file : Files,
                    pc : {"start", "open", "status", "bytes", "close", "check", "done"},
                    value : Contents, ret : {"ok", "notfound", "error"}]
    BY <1>0, <2>1, NoJobFields
  <2>5. DriveTypeOK'
    <3>1. disk' \in [Files -> Contents] /\ dos' \in {"ok", "notfound", "other"}
      BY <2>1
    <3>2. data' \in {"closed", "R", "W", "refused"} /\ streaming' \in 0..2
      BY <2>1, <2>3
    <3>3. cmd' \in BOOLEAN /\ spoiled' \in BOOLEAN
      BY <2>1, <2>3, Zenon
    <3> QED BY <2>4, <3>1, <3>2, <3>3, Zenon
  <2>6. ChannelsOwned' /\ StatusIsOwn' /\ OkIsOnDisk'
    BY <2>1, <2>3, <2>4
  <2> QED BY <2>1, <2>4, <2>5, <2>6
<1> QED BY <1>1, <1>2, <1>3, <1>4

LEMMA WriteSteps ==
    ASSUME DriveInv, WriteStart \/ WriteOpen \/ WriteOpenFails \/ WriteBytes
                     \/ WriteBytesFail \/ WriteClose \/ WriteCheck
    PROVE  DriveGoal
<1> USE DEF DriveInv, DriveTypeOK, ChannelsOwned, StatusIsOwn, OkIsOnDisk, Closed, DriveGoal,
            classify
<1>0. /\ job \in [op : {"read", "write", "stream"}, file : Files,
                  pc : {"start", "open", "status", "bytes", "close", "check", "done"},
                  value : Contents, ret : {"ok", "notfound", "error"}]
      /\ disk[job.file] \in Contents /\ job.value \in Contents
      /\ Short \in Contents /\ Torn \in Contents /\ Absent \in Contents
  BY JobShape, ContentKinds
     DEF WriteStart, WriteOpen, WriteOpenFails, WriteBytes, WriteBytesFail, WriteClose, WriteCheck
<1>1. CASE WriteStart     BY <1>0, <1>1 DEF WriteStart, Scratch
<1>2. CASE WriteOpen      BY <1>0, <1>2 DEF WriteOpen
<1>3. CASE WriteOpenFails BY <1>0, <1>3 DEF WriteOpenFails
<1>4. CASE WriteBytes     BY <1>0, <1>4 DEF WriteBytes
<1>5. CASE WriteBytesFail
  <2>1. /\ job' = [job EXCEPT !.pc = "done", !.ret = "error"] /\ data' = "closed"
        /\ job.op = "write" /\ job.pc = "bytes" /\ dos' \in {dos, "other"} /\ spoiled' = TRUE
        /\ UNCHANGED <<cmd, streaming>>
    BY <1>5 DEF WriteBytesFail
  <2>2. disk' \in [Files -> Contents]
    BY <1>0, <1>5 DEF WriteBytesFail
  <2> QED BY <1>0, <2>1, <2>2
<1>6. CASE WriteClose
  <2>1. /\ job' = [job EXCEPT !.pc = "check"] /\ job.op = "write" /\ job.pc = "close"
        /\ data' = "closed" /\ UNCHANGED <<cmd, streaming>>
    BY <1>6 DEF WriteClose
  <2>2. CASE disk' = [disk EXCEPT ![job.file] = job.value] /\ UNCHANGED <<spoiled, dos>>
    BY <1>0, <2>1, <2>2
  <2>3. CASE dos' = "other" /\ spoiled' = TRUE /\ UNCHANGED disk
    BY <1>0, <2>1, <2>3
  <2> QED BY <1>6, <2>2, <2>3 DEF WriteClose
<1>7. CASE WriteCheck
  <2>1. /\ job.op = "write" /\ job.pc = "check" /\ data' = "closed" /\ cmd' = FALSE
        /\ UNCHANGED <<disk, streaming>>
    BY <1>7 DEF WriteCheck
  <2>2. CASE Return(classify(dos)) /\ dos' = "ok" /\ UNCHANGED spoiled
    BY <1>0, <2>1, <2>2
  <2>3. CASE Return("error") /\ spoiled' = TRUE /\ UNCHANGED dos
    BY <1>0, <2>1, <2>3
  <2> QED BY <1>7, <2>2, <2>3 DEF WriteCheck
<1> QED BY <1>1, <1>2, <1>3, <1>4, <1>5, <1>6, <1>7

LEMMA DriveSteps == ASSUME DriveInv, DriveStep PROVE DriveGoal
  BY ReadSteps, ByteSteps, WriteSteps DEF DriveStep

LEMMA StorageStarts ==
    ASSUME DriveInv, Idle, NEW op \in {"read", "write", "stream"}, NEW file \in Files,
           NEW value \in Contents,
           job' = Job(op, file, value), spoiled' \in BOOLEAN,
           UNCHANGED <<disk, data, cmd, dos, streaming>>
    PROVE  DriveInv'
  BY DEF DriveInv, DriveTypeOK, ChannelsOwned, StatusIsOwn, OkIsOnDisk, Closed, Job

\* The hall of fame is written under the very call that read it.
LEMMA HallStarts ==
    ASSUME DriveInv, Closed, NEW file \in Files, NEW value \in Contents,
           job' = Job("write", file, value),
           UNCHANGED <<disk, data, cmd, dos, streaming, spoiled>>
    PROVE  DriveInv'
  BY DEF DriveInv, DriveTypeOK, ChannelsOwned, StatusIsOwn, OkIsOnDisk, Closed, Job

LEMMA StorageEnds ==
    ASSUME DriveInv, job.pc = "done", EndStorage
    PROVE  DriveInv' /\ job'.op = "none"
  BY DEF DriveInv, DriveTypeOK, ChannelsOwned, StatusIsOwn, OkIsOnDisk, Closed, EndStorage, NoJob

LEMMA PowerGoes ==
    ASSUME DriveInv, DrivePowerOff
    PROVE  DriveInv' /\ job'.op = "none"
<1>1. spoiled' \in BOOLEAN
  BY DEF DrivePowerOff
<1>2. job' = NoJob /\ data' = "closed" /\ cmd' = FALSE /\ dos' = "other" /\ streaming' = 0
      /\ disk' = disk
  BY DEF DrivePowerOff
<1>3. job'.op = "none"
  BY <1>2, NoJobFields
<1>4. DriveTypeOK'
  <2>1. disk' \in [Files -> Contents]
    BY <1>2 DEF DriveInv, DriveTypeOK
  <2>2. data' \in {"closed", "R", "W", "refused"} /\ dos' \in {"ok", "notfound", "other"} /\ streaming' \in 0..2
    BY <1>2
  <2>3. cmd' \in BOOLEAN
    BY <1>2, Zenon
  <2> QED BY <1>1, <1>2, <2>1, <2>2, <2>3, Zenon DEF DriveTypeOK
<1>5. ChannelsOwned'
  <2>1. job'.op # "stream" /\ Closed'
    BY <1>2, <1>3 DEF Closed
  <2> QED BY <2>1, <1>2 DEF ChannelsOwned, Closed
<1>6. StatusIsOwn' /\ OkIsOnDisk'
  <2>1. job'.op # "write"
    BY <1>3
  <2> QED BY <2>1 DEF StatusIsOwn, OkIsOnDisk
<1> QED BY <1>3, <1>4, <1>5, <1>6 DEF DriveInv

LEMMA DriveStays == ASSUME DriveInv, UNCHANGED drive PROVE DriveInv' /\ job' = job
  BY DEF DriveInv, DriveTypeOK, ChannelsOwned, StatusIsOwn, OkIsOnDisk, Closed, drive

---------------------------------------------------------------------------
(* The session above the seam. *)

SessionTypeOK ==
    /\ at \in {"play", "again", "halted", "off"}
    /\ live \in Overlays \cup {OVL_NONE}
    /\ game \in Games
    /\ score \in Scores \cup {0}
    /\ offered \in [Offers -> Nat]

\* Only a machine at play has anything left to do.
AtInv == at # "play" => script = <<>>

SInv == DriveInv /\ ScriptInv /\ AtInv /\ SessionTypeOK

\* A stretch that opens with anything but a call may replace the script.
LEMMA FreshScript ==
    ASSUME NEW s, Good(s), script' = s, job'.op = "none" PROVE ScriptInv'
  BY DEF ScriptInv, Good

\* What follows the step just made finds the window it needs.
LEMMA NextScript ==
    ASSUME ScriptInv, script # <<>>, script' = Tail(script), job'.op = "none",
           \/ Head(script).do = "call" /\ live' = live
           \/ Head(script).do = "load" /\ live' = Head(script).what
           \/ Head(script).do = "turn"
    PROVE  ScriptInv'
<1>1. /\ Tail(script) \in Seq(Steps) /\ Linked(Tail(script)) /\ Head(script) \in Steps
      /\ Tail(script) # <<>> => LinkOK(Head(script), Head(Tail(script)))
                                /\ Head(Tail(script)) \in Steps
  BY TailLinked DEF ScriptInv
<1>2. ASSUME Tail(script) # <<>>, Head(Tail(script)).do = "call"
      PROVE  live' = Window[Head(Tail(script)).what]
  <2>1. \/ Head(script) = Load(Window[Head(Tail(script)).what])
        \/ Head(script).do = "call" /\ Window[Head(script).what] = Window[Head(Tail(script)).what]
    BY <1>1, <1>2 DEF LinkOK
  <2>2. CASE Head(script) = Load(Window[Head(Tail(script)).what])
    <3>1. /\ Head(script).do = "load"
          /\ Head(script).what = Window[Head(Tail(script)).what]
      BY <2>2, LoadFields, Zenon
    <3>2. live' = Head(script).what
      BY <3>1
    <3> QED BY <3>1, <3>2, Zenon
  <2>3. CASE Head(script).do = "call" /\ Window[Head(script).what] = Window[Head(Tail(script)).what]
    BY <2>3 DEF ScriptInv
  <2> QED BY <2>1, <2>2, <2>3
<1> QED BY <1>1, <1>2 DEF ScriptInv

LEMMA AfterTurn ==
    ASSUME ScriptInv, script # <<>>, Head(script) = Turn PROVE Good(Tail(script))
<1>1. /\ Tail(script) \in Seq(Steps) /\ Linked(Tail(script))
      /\ Tail(script) # <<>> => LinkOK(Turn, Head(Tail(script)))
                                /\ Head(Tail(script)) = Tail(script)[1]
  BY TailLinked DEF ScriptInv
<1>2. \A b : LinkOK(Turn, b) => b.do # "call"
  BY DEF LinkOK, Turn, Load
<1> QED BY <1>1, <1>2 DEF Good

LEMMA BriefingScript ==
    ASSUME live = Window["ui_setup_briefing"], live' = live, job'.op = "none",
           script' = <<Call("ui_briefing")>> \o SetupScript
    PROVE  ScriptInv'
<1> DEFINE s == <<Call("ui_briefing")>>
<1>1. "ui_briefing" \in DOMAIN Window /\ live' = Window["ui_briefing"]
  BY Functions DEF Window
<1>2. s \in Seq(Steps) /\ Linked(s) /\ Call("ui_briefing").do = "call"
      /\ Call("ui_briefing").what = "ui_briefing"
  BY <1>1, CallsAndLoads DEF Linked
<1>3. Good(SetupScript)
  BY MainScriptsGood
<1>4. SetupScript # <<>> => LinkOK(s[Len(s)], SetupScript[1])
  BY <1>3 DEF Good, LinkOK
<1>5. s \o SetupScript \in Seq(Steps) /\ Linked(s \o SetupScript)
  BY <1>2, <1>3, <1>4, LinkedJoin DEF Good
<1>6. s \o SetupScript # <<>> /\ Head(s \o SetupScript) = Call("ui_briefing")
  <2>1. SetupScript \in Seq(Steps)
    BY <1>3 DEF Good
  <2>2. Len(s \o SetupScript) = 1 + Len(SetupScript) /\ (s \o SetupScript)[1] = s[1]
    BY <1>2, <2>1, ConcatProperties
  <2> QED BY <1>5, <2>1, <2>2
<1> HIDE DEF s
<1>7. script' = s \o SetupScript
  BY DEF s
<1> QED BY <1>1, <1>2, <1>5, <1>6, <1>7 DEF ScriptInv

LEMMA RanksAreLevels == 1 \in Ranks /\ \A level \in Ranks : NewGame(level) \in Games
  BY DEF NewGame

LEMMA BlankIsGame == Blank \in Games
  BY RanksAreLevels DEF Blank

LEMMA Placed ==
    ASSUME NEW tbl \in Tables, NEW level \in Ranks, NEW s \in Scores \cup {0}
    PROVE  HofOffer(tbl, level, s) \in Tables
<1>1. hof_index(level, 0) \in Slots
  BY DEF hof_index, Slots, HOF_PLACES
<1> QED BY <1>1 DEF HofOffer

LEMMA HallIsTable == ASSUME DriveTypeOK, job.op = "read" PROVE HofRead \in Tables
<1>1. hof_clear \in Tables
  BY DEF hof_clear
<1>2. job.value \in Contents
  BY JobShape
<1>3. ASSUME NEW c \in Contents, c.kind = "table" PROVE c.val \in Tables
  BY <1>3 DEF Contents, Whole, Absent, Torn, Text, Short
<1> QED BY <1>1, <1>2, <1>3 DEF HofRead

LEMMA LoadsGame ==
    ASSUME DriveTypeOK, job.op = "read", SaveRead PROVE StateLoad \in Games
<1>1. job.value \in Contents /\ job.value.kind = "save"
  BY JobShape DEF SaveRead
<1>2. job.value.val \in Games
  BY <1>1 DEF Contents, Whole, Absent, Torn, Text, Short
<1> QED BY <1>1, <1>2 DEF StateLoad

LEMMA Remembered ==
    ASSUME NEW o \in [Offers -> Nat], Remember(o) PROVE offered' \in [Offers -> Nat]
<1>1. NoOffers \in [Offers -> Nat]
  BY DEF NoOffers
<1> QED BY <1>1 DEF Remember

LEMMA MoreOffered ==
    ASSUME offered \in [Offers -> Nat], Offered PROVE offered' \in [Offers -> Nat]
<1>1. ASSUME NEW k PROVE [offered EXCEPT ![k] = @ + 1] \in [Offers -> Nat]
  <2>1. CASE k \in Offers
    BY <2>1
  <2>2. CASE k \notin Offers
    BY <2>2
  <2> QED BY <2>1, <2>2
<1>2. [offered EXCEPT ![<<game.level, score>>] = @ + 1] \in [Offers -> Nat]
  BY <1>1, Zenon
<1> QED BY <1>2, Remembered DEF Offered

LEMMA InitHolds == Init => SInv
<1> SUFFICES ASSUME Init PROVE SInv
  OBVIOUS
<1>1. disk \in [Files -> Contents]
  <2>1. hof_clear \in Tables
    BY DEF hof_clear
  <2>2. TableOf(hof_clear) \in Contents /\ Absent \in Contents /\ Text \in Contents
    BY <2>1 DEF TableOf, Contents, Whole, Ends
  <2> QED BY <2>2 DEF Init
<1>2. DriveTypeOK
  <2>1. data \in {"closed", "R", "W", "refused"} /\ dos \in {"ok", "notfound", "other"} /\ streaming \in 0..2
    BY DEF Init, DriveInit
  <2>2. cmd \in BOOLEAN /\ spoiled \in BOOLEAN /\ job = NoJob
    BY Zenon DEF Init, DriveInit
  <2> QED BY <1>1, <2>1, <2>2, Zenon DEF DriveTypeOK
<1>3. ChannelsOwned /\ StatusIsOwn /\ OkIsOnDisk
  <2>1. job.op = "none" /\ Closed
    BY NoJobFields DEF Init, DriveInit, Closed
  <2> QED BY <2>1 DEF ChannelsOwned, StatusIsOwn, OkIsOnDisk, Closed
<1>4. ScriptInv
  <2>1. script = <<>> /\ job.op = "none"
    BY NoJobFields DEF Init, DriveInit
  <2> QED BY <2>1 DEF ScriptInv, Linked
<1>5. SessionTypeOK
  BY BlankIsGame DEF Init, SessionTypeOK, NoOffers
<1>6. AtInv
  BY DEF Init, AtInv
<1> QED BY <1>2, <1>3, <1>4, <1>5, <1>6 DEF SInv, DriveInv

---------------------------------------------------------------------------
(* Each of the session's steps keeps the invariant. *)

\* At a load or a turn no routine is running; at a call, its window is live.
LEMMA Calling ==
    ASSUME ScriptInv, NEW f, Next1("call", f)
    PROVE  /\ script # <<>> /\ Head(script).do = "call" /\ Head(script).what = f
           /\ live = Window[f] /\ job.op = "none"
<1>1. Head(script).do = "call" /\ Head(script).what = f /\ script # <<>> /\ job.op = "none"
  BY DEF Next1
<1> QED BY <1>1 DEF ScriptInv

LEMMA Resuming ==
    ASSUME ScriptInv, NEW op \in {"read", "write", "stream"}, NEW f, Resume(op, f)
    PROVE  /\ script # <<>> /\ Head(script).do = "call" /\ Head(script).what = f
           /\ live = Window[f] /\ job.op = op /\ job.pc = "done"
<1>1. Head(script).do = "call" /\ Head(script).what = f /\ script # <<>>
      /\ job.op = op /\ job.pc = "done"
  BY DEF Resume, Call
<1> QED BY <1>1 DEF ScriptInv

\* A routine starts under the call that asked for it.
LEMMA UnderWay ==
    ASSUME ScriptInv, UNCHANGED <<script, live>>, script # <<>>, Head(script).do = "call"
    PROVE  ScriptInv'
  BY DEF ScriptInv

LEMMA LoadStep == ASSUME SInv, OvlLoad PROVE SInv'
<1>1. PICK w \in Overlays :
          /\ Next1("load", w)
          /\ \/ live' = w /\ script' = Tail(script) /\ UNCHANGED at
             \/ live # w /\ live' = OVL_NONE /\ script' = <<>> /\ at' = "halted"
          /\ UNCHANGED <<drive, game, score, offered>>
  BY DEF OvlLoad
<1>2. DriveInv' /\ job' = job
  BY <1>1, DriveStays DEF SInv
<1>3. /\ script # <<>> /\ Head(script).do = "load" /\ Head(script).what = w
      /\ job.op = "none" /\ job'.op = "none" /\ at = "play"
  BY <1>1, <1>2 DEF Next1
<1>4. CASE live' = w /\ script' = Tail(script) /\ UNCHANGED at
  <2>1. ScriptInv'
    BY <1>3, <1>4, NextScript DEF SInv
  <2>2. SessionTypeOK' /\ AtInv'
    BY <1>1, <1>3, <1>4 DEF SInv, SessionTypeOK, AtInv
  <2> QED BY <1>2, <2>1, <2>2 DEF SInv
<1>5. CASE live' = OVL_NONE /\ script' = <<>> /\ at' = "halted"
  <2>1. ScriptInv'
    BY <1>3, <1>5, FreshScript, EmptyGood
  <2>2. SessionTypeOK' /\ AtInv'
    BY <1>1, <1>5 DEF SInv, SessionTypeOK, AtInv
  <2> QED BY <1>2, <2>1, <2>2 DEF SInv
<1> QED BY <1>1, <1>4, <1>5

LEMMA QuietSteps ==
    ASSUME SInv, Switched \/ Command \/ GameOver \/ SetupNew \/ PlayAgain
    PROVE  SInv'
<1>1. UNCHANGED drive /\ at' = "play"
  BY DEF Switched, Command, GameOver, SetupNew, PlayAgain, AtCommand, Next1
<1>2. job.op = "none"
  <2>1. CASE Switched \/ PlayAgain
    BY <2>1 DEF Switched, PlayAgain, SInv, AtInv, ScriptInv
  <2>2. CASE Command \/ GameOver \/ SetupNew
    BY <2>2 DEF Command, GameOver, AtCommand, SetupNew, Next1
  <2> QED BY <2>1, <2>2
<1>3. DriveInv' /\ job'.op = "none"
  BY <1>1, <1>2, DriveStays DEF SInv
<1>4. Good(script')
  BY CommandsGood, EvalGood, MainScriptsGood
     DEF Switched, Command, GameOver, SetupNew, PlayAgain
<1>5. ScriptInv'
  BY <1>3, <1>4, FreshScript
<1>6. SessionTypeOK'
  BY <1>1, BlankIsGame, RanksAreLevels
     DEF SInv, SessionTypeOK, Switched, Command, GameOver, SetupNew, PlayAgain
<1> QED BY <1>1, <1>3, <1>5, <1>6 DEF SInv, AtInv

LEMMA CallSteps ==
    ASSUME SInv, CallPlain \/ AskBriefing \/ TrekNewGame \/ TrekScore
    PROVE  SInv'
<1>1. UNCHANGED <<drive, at, live>> /\ at = "play"
  BY DEF CallPlain, AskBriefing, TrekNewGame, TrekScore, Next1
<1>2. PICK f : Next1("call", f)
  BY DEF CallPlain, AskBriefing, TrekNewGame, TrekScore
<1>3. script # <<>> /\ Head(script).do = "call" /\ job.op = "none"
  BY <1>2, Calling DEF SInv
<1>4. DriveInv' /\ job'.op = "none"
  BY <1>1, <1>3, DriveStays DEF SInv
<1>5. ScriptInv'
  <2>1. CASE script' = Tail(script)
    BY <1>1, <1>3, <1>4, <2>1, NextScript DEF SInv
  <2>2. CASE AskBriefing
    <3>1. live = Window["ui_setup_briefing"]
      BY <2>2, Calling DEF AskBriefing, SInv
    <3>2. CASE script' = SetupScript
      BY <1>4, <3>2, FreshScript, MainScriptsGood
    <3>3. CASE script' = <<Call("ui_briefing")>> \o SetupScript
      BY <1>1, <1>4, <3>1, <3>3, BriefingScript
    <3> QED BY <2>2, <3>2, <3>3 DEF AskBriefing
  <2> QED BY <2>1, <2>2 DEF CallPlain, TrekNewGame, TrekScore
<1>6. SessionTypeOK'
  <2>1. CASE CallPlain \/ AskBriefing
    BY <1>1, <2>1 DEF SInv, SessionTypeOK, CallPlain, AskBriefing
  <2>2. CASE TrekNewGame
    <3>1. game.level \in Ranks
      BY DEF SInv, SessionTypeOK
    <3> QED BY <1>1, <2>2, <3>1, RanksAreLevels DEF SInv, SessionTypeOK, TrekNewGame
  <2>3. CASE TrekScore
    BY <1>1, <2>3 DEF SInv, SessionTypeOK, TrekScore
  <2> QED BY <2>1, <2>2, <2>3
<1> QED BY <1>1, <1>4, <1>5, <1>6 DEF SInv, AtInv

LEMMA TurnStep == ASSUME SInv, TakeTurn PROVE SInv'
<1>1. /\ UNCHANGED <<drive, at, live, score, offered>> /\ at = "play" /\ script # <<>>
      /\ Head(script) = Turn /\ job.op = "none"
  BY DEF TakeTurn, Next1, Turn
<1>2. DriveInv' /\ job'.op = "none"
  BY <1>1, DriveStays DEF SInv
<1>3. PICK t \in TurnScripts : script' = t \o Tail(script)
  BY DEF TakeTurn
<1>4. Good(t \o Tail(script))
  BY <1>1, <1>3, AfterTurn, TurnScriptsGood, GoodJoin DEF SInv
<1>5. ScriptInv'
  BY <1>2, <1>3, <1>4, FreshScript
<1>6. game' \in Games
  <2>1. game \in Games /\ (IF game.turn < MaxTurns THEN game.turn + 1 ELSE game.turn) \in 0..MaxTurns
    BY DEF SInv, SessionTypeOK
  <2> QED BY <2>1 DEF TakeTurn
<1> QED BY <1>1, <1>2, <1>5, <1>6 DEF SInv, AtInv, SessionTypeOK

LEMMA StartSteps ==
    ASSUME SInv, ReadBriefing \/ Restore \/ HallOfFame
    PROVE  SInv'
<1>1. UNCHANGED session /\ \E f : Next1("call", f)
  BY DEF ReadBriefing, Restore, HallOfFame
<1>2. script # <<>> /\ Head(script).do = "call" /\ job.op = "none"
  BY <1>1, Calling DEF SInv
<1>3. PICK op \in {"read", "write", "stream"}, file \in Files :
          StartStorage(op, file, Absent)
  BY DEF ReadBriefing, Restore, HallOfFame
<1>4. DriveInv'
  <2>1. spoiled' \in BOOLEAN
    BY <1>3, Zenon DEF StartStorage, SInv, DriveInv, DriveTypeOK
  <2> QED BY <1>2, <1>3, <2>1, StorageStarts, ContentKinds DEF StartStorage, SInv
<1>5. ScriptInv'
  BY <1>1, <1>2, UnderWay DEF SInv, session
<1> QED BY <1>1, <1>4, <1>5 DEF SInv, AtInv, SessionTypeOK, session

LEMMA SaveStep == ASSUME SInv, SaveGame PROVE SInv'
<1>1. script # <<>> /\ Head(script).do = "call" /\ job.op = "none"
  BY Calling DEF SaveGame, SInv
<1>2. PICK f \in Files : job' = Job("write", f, SaveOf(game)) /\ spoiled' \in BOOLEAN
  BY DEF SaveGame, Saving
<1>3. SaveOf(game) \in Contents
  BY DEF SaveOf, Contents, Whole, Ends, SInv, SessionTypeOK
<1>4. DriveInv'
  BY <1>1, <1>2, <1>3, StorageStarts DEF SaveGame, SInv
<1>5. ScriptInv'
  BY <1>1, UnderWay DEF SaveGame, SInv
<1>6. offered' \in [Offers -> Nat]
  BY Remembered DEF SaveGame, SInv, SessionTypeOK
<1> QED BY <1>4, <1>5, <1>6 DEF SaveGame, SInv, AtInv, SessionTypeOK

LEMMA ResumeSteps ==
    ASSUME SInv, BriefingRead \/ Restored \/ NotRestored \/ GameSaved
    PROVE  SInv'
<1>1. UNCHANGED <<at, live, score, offered>> /\ EndStorage
  BY DEF BriefingRead, Restored, NotRestored, GameSaved
<1>2. PICK op, f : op \in {"read", "write", "stream"} /\ Resume(op, f)
  BY DEF BriefingRead, Restored, NotRestored, GameSaved
<1>3. /\ script # <<>> /\ Head(script).do = "call" /\ job.pc = "done"
  BY <1>2, Resuming DEF SInv
<1>4. DriveInv' /\ job'.op = "none"
  BY <1>1, <1>3, StorageEnds DEF SInv
<1>5. ScriptInv'
  <2>1. CASE script' = Tail(script)
    BY <1>1, <1>3, <1>4, <2>1, NextScript DEF SInv
  <2>2. CASE script' = AfterRestore \/ script' = NewScript
    BY <1>4, <2>2, FreshScript, EmptyGood, MainScriptsGood DEF AfterRestore
  <2> QED BY <2>1, <2>2 DEF BriefingRead, Restored, NotRestored, GameSaved
<1>6. game' \in Games
  <2>1. CASE BriefingRead \/ GameSaved
    BY <2>1 DEF BriefingRead, GameSaved, SInv, SessionTypeOK
  <2>2. CASE Restored
    BY <2>2, LoadsGame, Resuming DEF Restored, SInv, DriveInv
  <2>3. CASE NotRestored
    BY <2>3, RanksAreLevels DEF NotRestored
  <2> QED BY <2>1, <2>2, <2>3
<1>7. AtInv'
  <2>1. at = "play"
    BY <1>3 DEF SInv, AtInv
  <2> QED BY <1>1, <2>1 DEF AtInv
<1> QED BY <1>1, <1>4, <1>5, <1>6, <1>7 DEF SInv, SessionTypeOK

LEMMA HallSteps ==
    ASSUME SInv, Unnamed \/ OfferRefused \/ HallWritten
    PROVE  SInv'
<1>1. EndStorage /\ at' = "again" /\ script' = <<>> /\ UNCHANGED <<live, game, score>>
  BY DEF Unnamed, OfferRefused, HallWritten, NotPlaced
<1>2. PICK op, f : op \in {"read", "write", "stream"} /\ Resume(op, f)
  BY DEF Unnamed, OfferRefused, HallWritten, NotPlaced
<1>3. DriveInv' /\ job'.op = "none"
  BY <1>1, <1>2, Resuming, StorageEnds DEF SInv
<1>4. ScriptInv'
  BY <1>1, <1>3, FreshScript, EmptyGood
<1>5. offered' \in [Offers -> Nat]
  BY MoreOffered DEF Unnamed, OfferRefused, HallWritten, SInv, SessionTypeOK
<1> QED BY <1>1, <1>3, <1>4, <1>5 DEF SInv, AtInv, SessionTypeOK

LEMMA PlacedStep == ASSUME SInv, OfferPlaced PROVE SInv'
<1> DEFINE placed == HofOffer(HofRead, game.level, score)
<1>1. /\ Resume("read", "ui_hall_of_fame") /\ StartStorage("write", HOF, TableOf(placed))
      /\ UNCHANGED <<at, script, live, game, score>>
  BY DEF OfferPlaced
<1>2. /\ script # <<>> /\ Head(script).do = "call" /\ job.op = "read" /\ job.pc = "done"
  BY <1>1, Resuming DEF SInv
<1>3. TableOf(placed) \in Contents
  <2>1. HofRead \in Tables
    BY <1>2, HallIsTable DEF SInv, DriveInv
  <2>2. game.level \in Ranks /\ score \in Scores \cup {0}
    BY DEF SInv, SessionTypeOK
  <2>3. placed \in Tables
    BY <2>1, <2>2, Placed
  <2> HIDE DEF placed
  <2> QED BY <2>3 DEF TableOf, Contents, Whole, Ends
<1>4. DriveInv'
  <2> HIDE DEF placed
  <2>1. /\ job' = Job("write", HOF, TableOf(placed))
        /\ UNCHANGED <<disk, data, cmd, dos, streaming, spoiled>>
    BY <1>1 DEF StartStorage
  <2>2. Closed
    BY <1>2 DEF SInv, DriveInv, ChannelsOwned
  <2>3. HOF \in Files
    OBVIOUS
  <2> QED BY <1>3, <2>1, <2>2, <2>3, HallStarts DEF SInv
<1>5. ScriptInv'
  BY <1>1, <1>2, UnderWay DEF SInv
<1>6. offered' \in [Offers -> Nat]
  BY MoreOffered DEF OfferPlaced, SInv, SessionTypeOK
<1> QED BY <1>1, <1>4, <1>5, <1>6 DEF SInv, AtInv, SessionTypeOK

LEMMA PowerStep == ASSUME SInv, PowerOff PROVE SInv'
<1>1. DriveInv' /\ job'.op = "none"
  BY PowerGoes DEF PowerOff, SInv
<1>2. ScriptInv'
  BY <1>1, FreshScript, EmptyGood DEF PowerOff
<1>3. offered' \in [Offers -> Nat]
  BY Remembered DEF PowerOff, SInv, SessionTypeOK
<1> QED BY <1>1, <1>2, <1>3, BlankIsGame DEF SInv, AtInv, SessionTypeOK, PowerOff

LEMMA StorageStep == ASSUME SInv, Storage PROVE SInv'
<1>1. UNCHANGED <<at, script, live, game, score>> /\ DriveStep
  BY DEF Storage
<1>2. DriveInv' /\ job'.op = job.op
  BY <1>1, DriveSteps DEF SInv, DriveGoal
<1>3. ScriptInv'
  BY <1>1, <1>2 DEF SInv, ScriptInv
<1>4. offered' \in [Offers -> Nat]
  BY Remembered DEF Storage, SInv, SessionTypeOK
<1> QED BY <1>1, <1>2, <1>3, <1>4 DEF SInv, AtInv, SessionTypeOK

LEMMA StutterStep == ASSUME SInv, UNCHANGED vars PROVE SInv'
<1>1. DriveInv' /\ job' = job
  BY DriveStays DEF vars, SInv
<1>2. ScriptInv' /\ AtInv' /\ SessionTypeOK'
  BY <1>1 DEF SInv, ScriptInv, AtInv, SessionTypeOK, vars, session
<1> QED BY <1>1, <1>2 DEF SInv

LEMMA StepHolds == SInv /\ [Next]_vars => SInv'
<1> SUFFICES ASSUME SInv, [Next]_vars PROVE SInv'
  OBVIOUS
<1>1. CASE Switched \/ Command \/ GameOver \/ SetupNew \/ PlayAgain
  BY <1>1, QuietSteps
<1>2. CASE OvlLoad
  BY <1>2, LoadStep
<1>3. CASE CallPlain \/ AskBriefing \/ TrekNewGame \/ TrekScore
  BY <1>3, CallSteps
<1>4. CASE TakeTurn
  BY <1>4, TurnStep
<1>5. CASE ReadBriefing \/ Restore \/ HallOfFame
  BY <1>5, StartSteps
<1>6. CASE SaveGame
  BY <1>6, SaveStep
<1>7. CASE BriefingRead \/ Restored \/ NotRestored \/ GameSaved
  BY <1>7, ResumeSteps
<1>8. CASE Unnamed \/ OfferRefused \/ HallWritten
  BY <1>8, HallSteps
<1>9. CASE OfferPlaced
  BY <1>9, PlacedStep
<1>10. CASE PowerOff
  BY <1>10, PowerStep
<1>11. CASE Storage
  BY <1>11, StorageStep
<1>12. CASE UNCHANGED vars
  BY <1>12, StutterStep
<1> QED
  BY <1>1, <1>2, <1>3, <1>4, <1>5, <1>6, <1>7, <1>8, <1>9, <1>10, <1>11, <1>12, Zenon DEF Next

LEMMA InvariantHolds == Spec => []SInv
<1> QED BY InitHolds, StepHolds, PTL DEF Spec

---------------------------------------------------------------------------
(* What a read brings in, and whose galaxy is new. *)

\* A record a read has in hand is the file's own, but for its last byte.
ReadIsFile ==
    job.op = "read" /\ job.value.kind = "save" =>
        /\ disk[job.file].kind = "save" /\ job.value.val = disk[job.file].val
        /\ job.value.end \in {disk[job.file].end, "noise"}

\* Only setup's own script makes a galaxy, and only of a game not yet begun.
NoNewGame(s) == s \in Seq(Steps) /\ \A i \in 1..Len(s) : s[i] # Call("trek_new_game")
Fresh == game.turn = 0 /\ game.end = "good"
GalaxyInv == NoNewGame(script) \/ (Fresh /\ script \in {NewScript, Tail(NewScript)})

LEMMA AbsentIsNoSave == Absent.kind # "save" /\ Short.kind # "save"
  BY DEF Absent, Short

LEMMA NoisySave ==
    ASSUME NEW c \in Whole
    PROVE  LET n == [c EXCEPT !.end = "noise"]
           IN n.kind = c.kind /\ n.val = c.val /\ n.end = "noise"
  BY DEF Whole

LEMMA ReadHolds == ASSUME SInv, ReadIsFile, [Next]_vars PROVE ReadIsFile'
<1> SUFFICES ASSUME job'.op = "read" PROVE ReadIsFile'
  BY DEF ReadIsFile
<1>1. CASE UNCHANGED <<disk, job>>
  BY <1>1 DEF ReadIsFile
<1>2. CASE \E op, file : StartStorage(op, file, Absent)
  BY <1>2, AbsentIsNoSave DEF StartStorage, Job, ReadIsFile
<1>3. CASE EndStorage \/ PowerOff
  BY <1>3, NoJobFields DEF EndStorage, PowerOff, DrivePowerOff
<1>4. CASE SaveGame \/ OfferPlaced
  BY <1>4 DEF SaveGame, OfferPlaced, StartStorage, Job
<1>5. CASE DriveStep
  <2>1. job'.op = job.op /\ job.op = "read" /\ job.file \in Files
        /\ job \in [op : {"read", "write", "stream"}, file : Files,
                    pc : {"start", "open", "status", "bytes", "close", "check", "done"},
                    value : Contents, ret : {"ok", "notfound", "error"}]
    BY <1>5, DriveSteps, JobShape DEF SInv, DriveInv, DriveGoal
  <2>2. UNCHANGED disk
    BY <1>5, <2>1 DEF DriveStep, ReadStart, ReadOpen, ReadOpenFails, ReadStatus,
       ReadStatusFails, ReadBytes, ReadBytesFail, StreamRead, StreamClose, WriteStart,
       WriteOpen, WriteOpenFails, WriteBytes, WriteBytesFail, WriteClose, WriteCheck
  <2>3. CASE ReadBytes
    <3>1. job'.value = disk[job.file] /\ job'.file = job.file
      BY <2>1, <2>3 DEF ReadBytes
    <3> QED BY <2>2, <3>1 DEF ReadIsFile
  <2>4. CASE ReadBytesFail
    <3>1. CASE job' = [job EXCEPT !.pc = "done", !.value = Short]
      BY <2>1, <3>1, AbsentIsNoSave DEF ReadIsFile
    <3>2. CASE /\ disk[job.file] \in Whole
               /\ job' = [job EXCEPT !.pc = "done",
                                     !.value = [disk[job.file] EXCEPT !.end = "noise"]]
      <4>1. job'.value = [disk[job.file] EXCEPT !.end = "noise"] /\ job'.file = job.file
        BY <2>1, <3>2
      <4> QED BY <2>2, <3>2, <4>1, NoisySave DEF ReadIsFile
    <3>3. CASE Return("error")
      BY <2>1, <2>2, <3>3 DEF ReadIsFile
    <3> QED BY <2>4, <3>1, <3>2, <3>3 DEF ReadBytesFail
  <2>5. CASE ReadStart \/ ReadOpen \/ ReadOpenFails \/ ReadStatus \/ ReadStatusFails
    <3>1. job'.value = job.value /\ job'.file = job.file
      BY <2>1, <2>5 DEF ReadStart, ReadOpen, ReadOpenFails, ReadStatus, ReadStatusFails
    <3> QED BY <2>1, <2>2, <3>1 DEF ReadIsFile
  <2> QED
    BY <1>5, <2>1, <2>3, <2>4, <2>5 DEF DriveStep, StreamRead, StreamClose, WriteStart,
       WriteOpen, WriteOpenFails, WriteBytes, WriteBytesFail, WriteClose, WriteCheck
<1>6. CASE Next
  <2>1. CASE \/ Switched \/ OvlLoad \/ CallPlain \/ AskBriefing \/ SetupNew \/ TrekNewGame
             \/ Command \/ TakeTurn \/ GameOver \/ TrekScore \/ PlayAgain
    <3>1. UNCHANGED drive
      BY <2>1 DEF Switched, OvlLoad, CallPlain, AskBriefing, SetupNew, TrekNewGame,
         Command, TakeTurn, GameOver, TrekScore, PlayAgain
    <3> QED BY <1>1, <3>1 DEF drive
  <2>2. CASE ReadBriefing \/ Restore \/ HallOfFame
    BY <1>2, <2>2 DEF ReadBriefing, Restore, HallOfFame
  <2>3. CASE \/ BriefingRead \/ Restored \/ NotRestored \/ GameSaved
             \/ Unnamed \/ OfferRefused \/ HallWritten \/ PowerOff
    BY <1>3, <2>3 DEF BriefingRead, Restored, NotRestored, GameSaved, Unnamed,
       OfferRefused, NotPlaced, HallWritten
  <2>4. CASE SaveGame \/ OfferPlaced
    BY <1>4, <2>4
  <2>5. CASE Storage
    BY <1>5, <2>5 DEF Storage
  <2> QED BY <1>6, <2>1, <2>2, <2>3, <2>4, <2>5, Zenon DEF Next
<1> QED BY <1>1, <1>6 DEF vars, drive

LEMMA NoNewJoin ==
    ASSUME NEW s, NEW t, NoNewGame(s), NoNewGame(t) PROVE NoNewGame(s \o t)
<1>1. s \in Seq(Steps) /\ t \in Seq(Steps)
  BY DEF NoNewGame
<1>2. /\ s \o t \in Seq(Steps) /\ Len(s \o t) = Len(s) + Len(t)
      /\ \A i \in 1..Len(s) : (s \o t)[i] = s[i]
      /\ \A i \in (Len(s) + 1)..(Len(s) + Len(t)) : (s \o t)[i] = t[i - Len(s)]
  BY <1>1, ConcatProperties
<1>3. ASSUME NEW i \in 1..Len(s \o t) PROVE (s \o t)[i] # Call("trek_new_game")
  <2>1. CASE i \in 1..Len(s)
    BY <1>2, <2>1 DEF NoNewGame
  <2>2. CASE i \notin 1..Len(s)
    <3>1. i \in (Len(s) + 1)..(Len(s) + Len(t)) /\ i - Len(s) \in 1..Len(t)
      BY <1>1, <1>2, <2>2
    <3> QED BY <1>2, <3>1 DEF NoNewGame
  <2> QED BY <2>1, <2>2
<1> QED BY <1>2, <1>3 DEF NoNewGame

LEMMA NoNewTail ==
    ASSUME NEW s, NoNewGame(s), s # <<>> PROVE NoNewGame(Tail(s))
<1>1. /\ s \in Seq(Steps) /\ Tail(s) \in Seq(Steps) /\ Len(Tail(s)) = Len(s) - 1
      /\ \A i \in 1..Len(Tail(s)) : Tail(s)[i] = s[i + 1]
  BY DEF NoNewGame
<1>2. ASSUME NEW i \in 1..Len(Tail(s)) PROVE Tail(s)[i] # Call("trek_new_game")
  <2>1. i + 1 \in 1..Len(s)
    BY <1>1
  <2> QED BY <1>1, <2>1 DEF NoNewGame
<1> QED BY <1>1, <1>2 DEF NoNewGame

LEMMA NoNewSteps ==
    /\ NoNewGame(<<>>) /\ NoNewGame(<<Turn>>)
    /\ \A w \in Overlays : NoNewGame(<<Load(w)>>)
    /\ \A f \in DOMAIN Window \ {"trek_new_game"} : NoNewGame(<<Call(f)>>)
<1>1. Turn \in Steps /\ Turn # Call("trek_new_game")
  BY TurnIsStep DEF Turn, Call
<1>2. \A w \in Overlays : Load(w) \in Steps /\ Load(w) # Call("trek_new_game")
  BY DEF Steps, Load, Call
<1>3. \A f \in DOMAIN Window \ {"trek_new_game"} :
          Call(f) \in Steps /\ Call(f) # Call("trek_new_game")
  BY CallsAndLoads DEF Call
<1> HIDE DEF Turn, Load, Call
<1>4. ASSUME NEW a \in Steps, a # Call("trek_new_game") PROVE NoNewGame(<<a>>)
  BY <1>4 DEF NoNewGame
<1>5. NoNewGame(<<>>)
  BY DEF NoNewGame
<1> QED BY <1>1, <1>2, <1>3, <1>4, <1>5

LEMMA NoNewPaged ==
    ASSUME NEW w \in Overlays, NEW f \in DOMAIN Window \ {"trek_new_game"}
    PROVE  NoNewGame(Paged(w, f)) /\ NoNewGame(Paged(w, f) \o <<Turn>>)
<1>1. /\ Load(w) \in Steps /\ Load(w) # Call("trek_new_game")
      /\ Call(f) \in Steps /\ Call(f) # Call("trek_new_game")
  BY CallsAndLoads DEF Steps, Load, Call
<1>2. Paged(w, f) = <<Load(w), Call(f)>>
  BY DEF Paged
<1> HIDE DEF Load, Call
<1>3. NoNewGame(<<Load(w), Call(f)>>)
  BY <1>1 DEF NoNewGame
<1> QED BY <1>2, <1>3, NoNewSteps, NoNewJoin

LEMMA OverlayNames ==
    {"TITLE", "FRONT", "EVENTS", "MSGS", "CMDS", "PLANET", "INFO", "REPAIR", "EVAL", "HOF"}
        \subseteq Overlays
  BY DEF Overlays, Window

LEMMA NoNewCommands == \A s \in Commands : NoNewGame(s)
<1>1. /\ NoNewGame(Paged("FRONT", "ui_save_game")) /\ NoNewGame(Paged("MSGS", "ui_messages_view"))
      /\ NoNewGame(Paged("CMDS", "do_self")) /\ NoNewGame(Paged("INFO", "ui_info_panel"))
      /\ NoNewGame(Paged("INFO", "ui_planet_list"))
      /\ NoNewGame(Paged("REPAIR", "ui_repair_report"))
      /\ NoNewGame(Paged("INFO", "do_fix")) /\ NoNewGame(Paged("INFO", "do_fix") \o <<Turn>>)
      /\ NoNewGame(Paged("MSGS", "do_hail") \o <<Turn>>)
  BY NoNewPaged, OverlayNames, Functions
<1>2. \A f \in {"do_ray", "do_max_energy", "do_energy", "do_dock"} :
          NoNewGame(Paged("CMDS", f) \o <<Turn>>)
  BY NoNewPaged, OverlayNames, Functions
<1>3. \A f \in {"do_orbit", "do_land", "do_use"} : NoNewGame(Paged("PLANET", f) \o <<Turn>>)
  BY NoNewPaged, OverlayNames, Functions
<1>4. NoNewGame(Paged("PLANET", "do_use") \o Paged("CMDS", "do_plasma_bolt") \o <<Turn>>)
  <2>1. /\ NoNewGame(Paged("PLANET", "do_use"))
        /\ NoNewGame(Paged("CMDS", "do_plasma_bolt"))
    BY NoNewPaged, OverlayNames, Functions
  <2> QED BY <2>1, NoNewJoin, NoNewSteps
<1>5. ASSUME NEW shots \in 0..3
      PROVE  NoNewGame(<<Load("REPAIR")>> \o [i \in 1..shots |-> Call("fire_one_torpedo")]
                           \o <<Turn>>)
  <2> DEFINE t == [i \in 1..shots |-> Call("fire_one_torpedo")]
  <2>1. Call("fire_one_torpedo") \in Steps /\ Call("fire_one_torpedo") # Call("trek_new_game")
    BY CallsAndLoads, Functions DEF Call
  <2>2. t \in Seq(Steps) /\ Len(t) = shots /\ \A i \in 1..shots : t[i] = Call("fire_one_torpedo")
    BY <2>1
  <2>3. NoNewGame(t)
    BY <2>1, <2>2 DEF NoNewGame
  <2> HIDE DEF t
  <2> QED BY <2>3, NoNewSteps, NoNewJoin, OverlayNames DEF t
<1> HIDE DEF NoNewGame, Paged, Turn, Load, Call
<1> QED BY <1>1, <1>2, <1>3, <1>4, <1>5, NoNewSteps DEF Commands

LEMMA NoNewTurns == \A s \in TurnScripts : NoNewGame(s)
<1> DEFINE E == Paged("EVENTS", "run_events")
           R == Paged("MSGS", "report_rare_event")
<1>1. NoNewGame(E) /\ NoNewGame(R)
  BY NoNewPaged, OverlayNames, Functions
<1>2. NoNewGame(R \o R)
  BY <1>1, NoNewJoin
<1> HIDE DEF E, R
<1>3. \A d \in {<<>>, E}, r \in {<<>>, R, R \o R} : NoNewGame(d \o r)
  BY <1>1, <1>2, NoNewSteps, NoNewJoin
<1>4. ASSUME NEW s \in TurnScripts PROVE NoNewGame(s)
  <2>1. PICK d \in {<<>>, E}, r \in {<<>>, R, R \o R} : s = d \o r
    BY DEF TurnScripts, E, R
  <2> QED BY <1>3, <2>1
<1> QED BY <1>4

LEMMA NoNewMain ==
    /\ NoNewGame(TitleScript) /\ NoNewGame(SetupScript)
    /\ NoNewGame(<<Call("ui_briefing")>> \o SetupScript)
    /\ \A lost \in BOOLEAN : NoNewGame(EvalScript(lost))
<1>1. /\ NoNewGame(<<Load("TITLE")>>) /\ NoNewGame(<<Call("ui_title")>>)
      /\ NoNewGame(<<Call("ui_setup_briefing")>>) /\ NoNewGame(<<Call("ui_briefing")>>)
      /\ NoNewGame(<<Load("FRONT")>>) /\ NoNewGame(<<Call("ui_setup")>>)
      /\ NoNewGame(<<Load("EVAL")>>) /\ NoNewGame(<<Call("ui_loss_memo")>>)
      /\ NoNewGame(<<Call("ui_evaluation")>>) /\ NoNewGame(<<Call("trek_score")>>)
      /\ NoNewGame(<<Load("HOF")>>) /\ NoNewGame(<<Call("ui_hall_of_fame")>>)
  BY NoNewSteps, OverlayNames, Functions
<1>2. TitleScript = <<Load("TITLE")>> \o <<Call("ui_title")>> \o <<Call("ui_setup_briefing")>>
  BY DEF TitleScript
<1>3. SetupScript = <<Load("FRONT")>> \o <<Call("ui_setup")>>
  BY DEF SetupScript
<1>4. NoNewGame(TitleScript) /\ NoNewGame(SetupScript)
  BY <1>1, <1>2, <1>3, NoNewJoin
<1>5. ASSUME NEW lost \in BOOLEAN PROVE NoNewGame(EvalScript(lost))
  <2> DEFINE memo == IF lost THEN <<Call("ui_loss_memo")>> ELSE <<>>
             rest == <<Call("ui_evaluation"), Call("trek_score"), Load("HOF"),
                       Call("ui_hall_of_fame")>>
  <2>1. NoNewGame(memo)
    BY <1>1, NoNewSteps
  <2>2. rest = <<Call("ui_evaluation")>> \o <<Call("trek_score")>> \o <<Load("HOF")>>
                   \o <<Call("ui_hall_of_fame")>>
    OBVIOUS
  <2> HIDE DEF memo
  <2>3. NoNewGame(rest)
    BY <1>1, <2>2, NoNewJoin
  <2> HIDE DEF rest
  <2>4. NoNewGame((<<Load("EVAL")>> \o memo) \o rest)
    BY <1>1, <2>1, <2>3, NoNewJoin
  <2> QED BY <2>4 DEF EvalScript, memo, rest
<1> QED BY <1>1, <1>4, <1>5, NoNewJoin

LEMMA NewScriptSteps ==
    /\ NewScript # <<>> /\ Head(NewScript) = Load("XTRA")
    /\ Tail(NewScript) # <<>> /\ Head(Tail(NewScript)) = Call("trek_new_game")
    /\ Tail(Tail(NewScript)) = <<>>
  BY DEF NewScript

LEMMA GalaxyHolds == ASSUME SInv, GalaxyInv, [Next]_vars PROVE GalaxyInv'
<1>1. CASE UNCHANGED <<script, game>>
  BY <1>1 DEF GalaxyInv, NoNewGame, Fresh
<1>2. CASE NoNewGame(script')
  BY <1>2 DEF GalaxyInv, NoNewGame
<1>3. ASSUME NEW level, game' = NewGame(level) PROVE Fresh'
  BY <1>3 DEF NewGame, Fresh
<1>4. CASE script # <<>> /\ script' = Tail(script) /\ game' = game
  <2>1. CASE NoNewGame(script)
    BY <1>2, <1>4, <2>1, NoNewTail
  <2>2. CASE Fresh /\ script = NewScript
    BY <1>4, <2>2 DEF GalaxyInv, Fresh
  <2>3. CASE Fresh /\ script = Tail(NewScript)
    BY <1>2, <1>4, <2>3, NewScriptSteps, NoNewSteps
  <2> QED BY <2>1, <2>2, <2>3 DEF GalaxyInv
<1>5. CASE SetupNew \/ NotRestored
  BY <1>3, <1>5 DEF SetupNew, NotRestored, GalaxyInv
<1>6. CASE TrekNewGame
  <2>1. script # <<>> /\ Head(script) = Call("trek_new_game") /\ script' = Tail(script)
    BY <1>6 DEF TrekNewGame, Next1, Call
  <2>2. CASE NoNewGame(script)
    BY <1>2, <2>1, <2>2, NoNewTail
  <2>3. CASE script \in {NewScript, Tail(NewScript)}
    <3>1. Load("XTRA") # Call("trek_new_game")
      BY DEF Load, Call
    <3>2. script = Tail(NewScript)
      BY <2>1, <2>3, <3>1, NewScriptSteps
    <3> QED BY <1>2, <2>1, <3>2, NewScriptSteps, NoNewSteps
  <2> QED BY <2>2, <2>3 DEF GalaxyInv
<1>7. CASE TakeTurn
  <2>1. PICK t \in TurnScripts : script' = t \o Tail(script)
    BY <1>7 DEF TakeTurn
  <2>2. script # <<>> /\ Head(script) = Turn
    BY <1>7 DEF TakeTurn, Next1, Turn
  <2>3. NoNewGame(script)
    <3>1. Turn # Load("XTRA") /\ Turn # Call("trek_new_game")
      BY DEF Turn, Load, Call
    <3> QED BY <2>2, <3>1, NewScriptSteps DEF GalaxyInv
  <2> QED BY <1>2, <2>1, <2>2, <2>3, NoNewTurns, NoNewTail, NoNewJoin
<1>8. CASE Switched \/ PlayAgain \/ AskBriefing \/ Command \/ GameOver \/ Restored
           \/ Unnamed \/ OfferRefused \/ HallWritten \/ PowerOff
  <2>1. \/ script' \in {TitleScript, SetupScript, <<>>} \cup Commands
        \/ script' = <<Call("ui_briefing")>> \o SetupScript
        \/ \E lost \in BOOLEAN : script' = EvalScript(lost)
    BY <1>8 DEF Switched, PlayAgain, AskBriefing, Command, GameOver, Restored, Unnamed,
       OfferRefused, NotPlaced, HallWritten, PowerOff, AfterRestore
  <2> QED BY <1>2, <2>1, NoNewMain, NoNewCommands, NoNewSteps
<1>9. CASE CallPlain \/ TrekScore \/ BriefingRead \/ GameSaved
  BY <1>4, <1>9 DEF CallPlain, TrekScore, BriefingRead, GameSaved, Next1, Resume
<1>10. CASE OvlLoad
  BY <1>2, <1>4, <1>10, NoNewSteps DEF OvlLoad, Next1
<1>11. CASE ReadBriefing \/ Restore \/ HallOfFame \/ SaveGame \/ OfferPlaced \/ Storage
            \/ UNCHANGED vars
  BY <1>1, <1>11 DEF ReadBriefing, Restore, HallOfFame, SaveGame, OfferPlaced, Storage,
     vars, session
<1> QED BY <1>5, <1>6, <1>7, <1>8, <1>9, <1>10, <1>11, Zenon DEF Next

---------------------------------------------------------------------------
(* What the hall of fame's file holds. *)

\* A table that gives each rank the two best of what it was offered.
Best(t) ==
    \A r \in Ranks :
        /\ t[hof_index(r, 0)] \in {0} \cup Taken(r)
        /\ \A s \in Taken(r) : s <= t[hof_index(r, 0)]
        /\ t[hof_index(r, 1)] \in {0} \cup Again(r)
        /\ \A s \in Again(r) : s <= t[hof_index(r, 1)]

HallOf(c) == IF c = Absent THEN hof_clear ELSE c.val
IsHall(c) == c = Absent \/ \E t \in Tables : c = TableOf(t)
HallWrite == job.op = "write" /\ job.file = HOF

\* The hall of fame's own call reads no file but its own.
HallOwn == job.op = "read" /\ Head(script) = Call("ui_hall_of_fame") => job.file = HOF

\* On a disk that has not failed the file is the best of the offers, or a write
\* has them in hand; and a read of it ends with what the disk holds.
HallInv ==
    ~spoiled =>
        /\ ~HallWrite => IsHall(disk[HOF]) /\ Best(HallOf(disk[HOF]))
        /\ HallWrite => \E t \in Tables : job.value = TableOf(t) /\ Best(t)
        /\ job.op = "read" /\ job.file = HOF =>
              /\ job.pc = "status" => dos = IF disk[HOF] = Absent THEN "notfound" ELSE "ok"
              /\ job.pc = "bytes" => disk[HOF] # Absent
              /\ job.pc = "done" => IF disk[HOF] = Absent THEN job.ret = "notfound"
                                    ELSE job.ret = "ok" /\ job.value = disk[HOF]

LEMMA TableKinds ==
    \A t : /\ TableOf(t).kind = "table" /\ TableOf(t).end = "good" /\ TableOf(t).val = t
           /\ TableOf(t) # Absent /\ TableOf(t) # Torn /\ TableOf(t) # Text
<1> TAKE t
<1>1. TableOf(t).kind = "table" /\ TableOf(t).end = "good" /\ TableOf(t).val = t
  BY DEF TableOf
<1>2. Absent.kind = "absent" /\ Torn.kind = "torn" /\ Text.kind = "text"
  BY DEF Absent, Torn, Text
<1> QED BY <1>1, <1>2, Zenon

LEMMA HallOfTable == \A t : HallOf(TableOf(t)) = t /\ (t \in Tables => IsHall(TableOf(t)))
  BY TableKinds DEF HallOf, IsHall

\* Each rank's two rows are its own.
LEMMA Rows ==
    ASSUME NEW r \in Ranks, NEW k \in Ranks
    PROVE  /\ hof_index(r, 0) \in Slots /\ hof_index(r, 1) \in Slots
           /\ hof_index(r, 0) # hof_index(k, 1)
           /\ r # k => hof_index(r, 0) # hof_index(k, 0) /\ hof_index(r, 1) # hof_index(k, 1)
<1>1. HOF_RANKS \in Nat \ {0} /\ r \in 1..HOF_RANKS /\ k \in 1..HOF_RANKS
  OBVIOUS
<1> HIDE DEF HOF_RANKS
<1>2. /\ hof_index(r, 0) = r - 1 /\ hof_index(r, 1) = HOF_RANKS + (r - 1)
      /\ hof_index(k, 0) = k - 1 /\ hof_index(k, 1) = HOF_RANKS + (k - 1)
  BY <1>1 DEF hof_index
<1>3. Slots = 0..(HOF_RANKS + HOF_RANKS - 1)
  BY <1>1 DEF Slots, HOF_PLACES
<1> QED BY <1>1, <1>2, <1>3

\* What an offer makes of a rank's rows, and of the others'.
LEMMA OfferedRows ==
    ASSUME NEW t \in Tables, NEW r \in Ranks, NEW s \in Scores \cup {0}
    PROVE  LET u == HofOffer(t, r, s)
               f == t[hof_index(r, 0)]
               g == t[hof_index(r, 1)]
           IN /\ u[hof_index(r, 0)] = IF s > f THEN s ELSE f
              /\ u[hof_index(r, 1)] = IF s > f THEN f ELSE IF s > g THEN s ELSE g
              /\ \A k \in Ranks \ {r} : /\ u[hof_index(k, 0)] = t[hof_index(k, 0)]
                                        /\ u[hof_index(k, 1)] = t[hof_index(k, 1)]
<1>1. t \in [Slots -> Scores \cup {0}]
  OBVIOUS
<1>2. \A k \in Ranks : /\ hof_index(k, 0) \in Slots /\ hof_index(k, 1) \in Slots
                       /\ hof_index(k, 0) # hof_index(r, 1) /\ hof_index(k, 1) # hof_index(r, 0)
                       /\ k # r => /\ hof_index(k, 0) # hof_index(r, 0)
                                   /\ hof_index(k, 1) # hof_index(r, 1)
  BY Rows
<1> HIDE DEF hof_index, Slots
<1> QED BY <1>1, <1>2 DEF HofOffer

LEMMA SameOffers == ASSUME UNCHANGED offered, NEW t, Best(t) PROVE Best(t)'
<1>1. \A r \in Ranks : Taken(r)' = Taken(r)
  BY DEF Taken
<1>2. \A r \in Ranks : Again(r)' = Again(r)
  BY <1>1 DEF Again
<1> QED BY <1>1, <1>2 DEF Best

\* What a rank's offers become when <<r, s>> is offered once more.
OffersAt(k, r, s) ==
    /\ s \in Scores /\ s > 0 /\ k = r =>
          /\ Taken(k)' = Taken(k) \cup {s}
          /\ offered'[<<k, s>>] = offered[<<k, s>>] + 1
    /\ ~(s \in Scores /\ s > 0 /\ k = r) => Taken(k)' = Taken(k)
    /\ \A x \in Scores : k # r \/ x # s => offered'[<<k, x>>] = offered[<<k, x>>]
    /\ \A x \in Scores : offered[<<k, x>>] \in Nat /\ offered'[<<k, x>>] \in Nat

LEMMA OneMore ==
    ASSUME offered \in [Offers -> Nat], NEW r \in Ranks, NEW s \in Scores \cup {0},
           offered' = [offered EXCEPT ![<<r, s>>] = @ + 1],
           NEW k \in Ranks
    PROVE  OffersAt(k, r, s)
<1>1. \A x \in Scores : <<k, x>> \in Offers /\ offered[<<k, x>>] \in Nat
  BY DEF Offers
<1>2. ASSUME NEW x \in Scores, k # r \/ x # s
      PROVE  offered'[<<k, x>>] = offered[<<k, x>>]
  <2>1. <<k, x>> # <<r, s>>
    BY <1>2
  <2> QED BY <1>1, <2>1
<1>3. s \in Scores /\ k = r => offered'[<<k, s>>] = offered[<<k, s>>] + 1
  BY <1>1
<1>4. \A x \in Scores : offered'[<<k, x>>] \in Nat
  <2> TAKE x \in Scores
  <2>1. CASE k = r /\ x = s
    BY <1>1, <1>3, <2>1
  <2>2. CASE ~(k = r /\ x = s)
    BY <1>1, <1>2, <2>2
  <2> QED BY <2>1, <2>2
<1>5. /\ Taken(k) = {x \in Scores : x > 0 /\ offered[<<k, x>>] > 0}
      /\ Taken(k)' = {x \in Scores : x > 0 /\ offered'[<<k, x>>] > 0}
  BY DEF Taken
<1>6. ASSUME s \in Scores, s > 0, k = r PROVE Taken(k)' = Taken(k) \cup {s}
  <2>1. ASSUME NEW x \in Scores
        PROVE  (x > 0 /\ offered'[<<k, x>>] > 0) <=> (x > 0 /\ offered[<<k, x>>] > 0) \/ x = s
    <3>1. CASE x = s
      BY <1>1, <1>3, <1>6, <3>1
    <3>2. CASE x # s
      BY <1>2, <3>2
    <3> QED BY <3>1, <3>2
  <2> QED BY <1>5, <1>6, <2>1
<1>7. ASSUME ~(s \in Scores /\ s > 0 /\ k = r) PROVE Taken(k)' = Taken(k)
  <2>1. ASSUME NEW x \in Scores
        PROVE  (x > 0 /\ offered'[<<k, x>>] > 0) <=> (x > 0 /\ offered[<<k, x>>] > 0)
    BY <1>2, <1>7
  <2> QED BY <1>5, <2>1
<1> QED BY <1>1, <1>2, <1>3, <1>4, <1>6, <1>7 DEF OffersAt

LEMMA TakenAgain ==
    \A r : /\ Taken(r) \subseteq Scores /\ Again(r) \subseteq Taken(r)
           /\ \A x \in Taken(r) : x > 0 /\ offered[<<r, x>>] > 0
           /\ \A x \in Taken(r) : x \in Again(r) <=> \/ offered[<<r, x>>] > 1
                                                   \/ \E y \in Taken(r) : y > x
  BY DEF Taken, Again

LEMMA TakenAgainNext ==
    \A r : /\ Taken(r)' \subseteq Scores /\ Again(r)' \subseteq Taken(r)'
           /\ \A x \in Taken(r)' : x > 0 /\ offered'[<<r, x>>] > 0
           /\ \A x \in Taken(r)' : x \in Again(r)' <=> \/ offered'[<<r, x>>] > 1
                                                       \/ \E y \in Taken(r)' : y > x
  BY DEF Taken, Again

\* The two rows hold the best of the offers whichever order they come in.
LEMMA OfferKeepsBest ==
    ASSUME offered \in [Offers -> Nat], NEW t \in Tables, Best(t),
           NEW r \in Ranks, NEW s \in Scores \cup {0},
           offered' = [offered EXCEPT ![<<r, s>>] = @ + 1]
    PROVE  Best(HofOffer(t, r, s))'
<1> DEFINE u == HofOffer(t, r, s)
           f == t[hof_index(r, 0)]
           g == t[hof_index(r, 1)]
<1>1. /\ u[hof_index(r, 0)] = IF s > f THEN s ELSE f
      /\ u[hof_index(r, 1)] = IF s > f THEN f ELSE IF s > g THEN s ELSE g
      /\ \A k \in Ranks \ {r} : /\ u[hof_index(k, 0)] = t[hof_index(k, 0)]
                                /\ u[hof_index(k, 1)] = t[hof_index(k, 1)]
  BY OfferedRows
<1>2. /\ f \in {0} \cup Taken(r) /\ \A x \in Taken(r) : x <= f
      /\ g \in {0} \cup Again(r) /\ \A x \in Again(r) : x <= g
  BY DEF Best
<1> HIDE DEF u, f, g
<1>3. ASSUME NEW k \in Ranks \ {r}
      PROVE  /\ u[hof_index(k, 0)] \in {0} \cup Taken(k)'
             /\ \A x \in Taken(k)' : x <= u[hof_index(k, 0)]
             /\ u[hof_index(k, 1)] \in {0} \cup Again(k)'
             /\ \A x \in Again(k)' : x <= u[hof_index(k, 1)]
  <2>1. Taken(k)' = Taken(k) /\ \A x \in Scores : offered'[<<k, x>>] = offered[<<k, x>>]
    <3>1. OffersAt(k, r, s)
      BY OneMore
    <3> QED BY <3>1 DEF OffersAt
  <2>2. Again(k)' = Again(k)
    BY <2>1 DEF Again, Taken
  <2>3. /\ t[hof_index(k, 0)] \in {0} \cup Taken(k) /\ \A x \in Taken(k) : x <= t[hof_index(k, 0)]
        /\ t[hof_index(k, 1)] \in {0} \cup Again(k) /\ \A x \in Again(k) : x <= t[hof_index(k, 1)]
    BY DEF Best
  <2> QED BY <1>1, <2>1, <2>2, <2>3
<1> DEFINE T == Taken(r)
           A == Again(r)
           Tn == Taken(r)'
           An == Again(r)'
           o == [x \in Scores |-> offered[<<r, x>>]]
           p == [x \in Scores |-> offered'[<<r, x>>]]
<1>4. /\ T \subseteq Scores /\ A \subseteq T
      /\ \A x \in T : x > 0 /\ o[x] > 0
      /\ \A x \in T : x \in A <=> o[x] > 1 \/ \E y \in T : y > x
  BY TakenAgain
<1>5. /\ Tn \subseteq Scores /\ An \subseteq Tn
      /\ \A x \in Tn : x > 0 /\ p[x] > 0
      /\ \A x \in Tn : x \in An <=> p[x] > 1 \/ \E y \in Tn : y > x
  BY TakenAgainNext
<1>6. /\ s \in Scores /\ s > 0 => Tn = T \cup {s} /\ p[s] = o[s] + 1
      /\ ~(s \in Scores /\ s > 0) => Tn = T
      /\ \A x \in Scores : x # s => p[x] = o[x]
      /\ \A x \in Scores : o[x] \in Nat /\ p[x] \in Nat
  <2>1. OffersAt(r, r, s)
    BY OneMore
  <2> QED BY <2>1 DEF OffersAt
<1>7. s \in Scores /\ s > 0 /\ s \notin T => o[s] = 0
  <2>1. s \in Scores /\ s > 0 /\ s \notin T => ~(offered[<<r, s>>] > 0)
    BY DEF Taken
  <2> QED BY <2>1, <1>6
<1>8. /\ f \in {0} \cup T /\ \A x \in T : x <= f
      /\ g \in {0} \cup A /\ \A x \in A : x <= g
      /\ Scores \subseteq Int
  BY <1>2
<1> HIDE DEF T, A, Tn, An, o, p
<1> DEFINE RowsBest == /\ u[hof_index(r, 0)] \in {0} \cup Tn
                       /\ \A x \in Tn : x <= u[hof_index(r, 0)]
                       /\ u[hof_index(r, 1)] \in {0} \cup An
                       /\ \A x \in An : x <= u[hof_index(r, 1)]
<1>9. f \in Int /\ g \in Int /\ s \in Int /\ f >= 0 /\ g >= 0 /\ g <= f
  BY <1>4, <1>8
<1>10. ASSUME s > f PROVE RowsBest
  <2>1. s \in Scores /\ s > 0 /\ s \notin T
    BY <1>8, <1>9, <1>10
  <2>2. Tn = T \cup {s} /\ p[s] = 1
    BY <1>6, <1>7, <2>1
  <2>3. An = T
    <3>1. \A x \in T : x < s
      BY <1>4, <1>8, <1>9, <1>10
    <3>2. \A x \in T : x \in An
      BY <1>5, <2>2, <3>1
    <3>3. s \notin An
      <4>1. \A y \in Tn : ~(y > s)
        BY <1>4, <1>8, <1>9, <2>2, <3>1
      <4> QED BY <1>5, <2>2, <4>1
    <3>4. An \subseteq T \cup {s}
      BY <1>5, <2>2
    <3> QED BY <3>2, <3>3, <3>4
  <2>4. \A x \in Tn : x <= s
    BY <1>4, <1>8, <1>9, <1>10, <2>2
  <2> QED BY <1>1, <1>8, <1>10, <2>2, <2>3, <2>4
<1>11. ASSUME ~(s > f) /\ s > g PROVE RowsBest
  <2>1. s \in Scores /\ s > 0 /\ f \in T
    BY <1>8, <1>9, <1>11
  <2>2. Tn = T \cup {s} /\ p[s] = o[s] + 1
    BY <1>6, <2>1
  <2>3. s \in An
    <3>1. CASE s = f
      <4>1. o[s] > 0 /\ o[s] \in Nat
        BY <1>4, <1>6, <2>1, <3>1
      <4>2. p[s] > 1 /\ s \in Tn
        BY <2>2, <4>1
      <4> QED BY <1>5, <4>2
    <3>2. CASE s # f
      <4>1. f \in Tn /\ f > s /\ s \in Tn
        BY <1>9, <1>11, <2>1, <2>2, <3>2
      <4> QED BY <1>5, <4>1
    <3> QED BY <3>1, <3>2
  <2>4. ASSUME NEW x \in An, x > s PROVE FALSE
    <3>1. x \in T /\ x # s /\ x \in Int /\ p[x] = o[x]
      BY <1>4, <1>5, <1>6, <1>8, <1>9, <2>2, <2>4
    <3>2. o[x] > 1 \/ \E y \in T : y > x
      <4>1. p[x] > 1 \/ \E y \in Tn : y > x
        BY <1>5, <2>4
      <4>2. ASSUME NEW y \in Tn, y > x PROVE y \in T
        BY <1>9, <2>2, <2>4, <3>1, <4>2
      <4> QED BY <3>1, <4>1, <4>2
    <3>3. x \in A
      BY <1>4, <3>1, <3>2
    <3> QED BY <1>8, <1>9, <1>11, <2>4, <3>1, <3>3
  <2>5. \A x \in An : x <= s
    <3>1. \A x \in An : x \in Int
      BY <1>5, <1>8
    <3> QED BY <1>9, <2>4, <3>1
  <2>6. \A x \in Tn : x <= f
    BY <1>8, <1>9, <1>11, <2>2
  <2>7. f \in {0} \cup Tn
    BY <2>1, <2>2
  <2> QED BY <1>1, <1>11, <2>3, <2>5, <2>6, <2>7
<1>12. ASSUME ~(s > f) /\ ~(s > g) PROVE RowsBest
  <2>1. T \subseteq Tn /\ Tn \subseteq T \cup {s} /\ \A x \in T : p[x] >= o[x]
    <3>1. T \subseteq Tn /\ Tn \subseteq T \cup {s}
      BY <1>6
    <3>2. ASSUME NEW x \in T PROVE p[x] >= o[x]
      <4>1. x \in Scores /\ x > 0 /\ o[x] \in Nat
        BY <1>4, <1>6
      <4> QED BY <1>6, <4>1
    <3> QED BY <3>1, <3>2
  <2>2. A \subseteq An
    <3> SUFFICES ASSUME NEW x \in A PROVE x \in An
      OBVIOUS
    <3>1. x \in T /\ x \in Tn /\ p[x] >= o[x] /\ o[x] \in Nat /\ p[x] \in Nat
      BY <1>4, <1>6, <2>1
    <3>2. o[x] > 1 \/ \E y \in T : y > x
      BY <1>4, <3>1
    <3>3. p[x] > 1 \/ \E y \in Tn : y > x
      BY <2>1, <3>1, <3>2
    <3> QED BY <1>5, <3>1, <3>3
  <2>3. ASSUME NEW x \in An, x > g PROVE FALSE
    <3>1. x \in T /\ x # s /\ x \in Int /\ p[x] = o[x]
      BY <1>4, <1>5, <1>6, <1>8, <1>9, <1>12, <2>1, <2>3
    <3>2. o[x] > 1 \/ \E y \in T : y > x
      <4>1. p[x] > 1 \/ \E y \in Tn : y > x
        BY <1>5, <2>3
      <4>2. ASSUME NEW y \in Tn, y > x PROVE y \in T
        BY <1>9, <1>12, <2>1, <2>3, <3>1, <4>2
      <4> QED BY <3>1, <4>1, <4>2
    <3>3. x \in A
      BY <1>4, <3>1, <3>2
    <3> QED BY <1>8, <1>9, <2>3, <3>1, <3>3
  <2>4. \A x \in An : x <= g
    <3>1. \A x \in An : x \in Int
      BY <1>5, <1>8
    <3> QED BY <1>9, <2>3, <3>1
  <2>5. \A x \in Tn : x <= f
    BY <1>8, <1>9, <1>12, <2>1
  <2>6. f \in {0} \cup Tn /\ g \in {0} \cup An
    BY <1>8, <2>1, <2>2
  <2> QED BY <1>1, <1>12, <2>4, <2>5, <2>6
<1>13. RowsBest
  BY <1>9, <1>10, <1>11, <1>12
<1>14. ASSUME NEW k \in Ranks
       PROVE  /\ u[hof_index(k, 0)] \in {0} \cup Taken(k)'
              /\ \A x \in Taken(k)' : x <= u[hof_index(k, 0)]
              /\ u[hof_index(k, 1)] \in {0} \cup Again(k)'
              /\ \A x \in Again(k)' : x <= u[hof_index(k, 1)]
  <2>1. CASE k = r
    BY <1>13, <2>1 DEF Tn, An
  <2>2. CASE k # r
    BY <1>3, <2>2
  <2> QED BY <2>1, <2>2
<1> QED BY <1>14 DEF Best, u

LEMMA EmptyHall == NoOffers \in [Offers -> Nat] /\ hof_clear \in Tables
                   /\ (offered = NoOffers => Best(hof_clear))
<1>1. NoOffers \in [Offers -> Nat] /\ hof_clear \in Tables
  BY DEF NoOffers, hof_clear
<1>2. ASSUME offered = NoOffers, NEW r \in Ranks
      PROVE  /\ Taken(r) = {} /\ Again(r) = {}
             /\ hof_clear[hof_index(r, 0)] = 0 /\ hof_clear[hof_index(r, 1)] = 0
  <2>1. \A x \in Scores : offered[<<r, x>>] = 0
    BY <1>2 DEF NoOffers, Offers
  <2>2. Taken(r) = {}
    <3>1. ASSUME NEW x \in Taken(r) PROVE FALSE
      <4>1. x \in Scores /\ offered[<<r, x>>] > 0
        BY TakenAgain
      <4>2. offered[<<r, x>>] = 0
        BY <2>1, <4>1
      <4> QED BY <4>1, <4>2
    <3> QED BY <3>1
  <2>3. Again(r) = {}
    BY <2>2 DEF Again
  <2>4. hof_index(r, 0) \in Slots /\ hof_index(r, 1) \in Slots
    BY Rows
  <2> QED BY <2>2, <2>3, <2>4 DEF hof_clear
<1> QED BY <1>1, <1>2 DEF Best

\* What the read under the hall of fame's call brought in.
LEMMA HallReadIs ==
    ASSUME SInv, HallOwn, HallInv, ~spoiled, Resume("read", "ui_hall_of_fame")
    PROVE  /\ HofRead = HallOf(disk[HOF]) /\ HofRead \in Tables /\ Best(HofRead)
           /\ ~HallWrite
<1>1. job.op = "read" /\ job.pc = "done" /\ job.file = HOF
  BY DEF Resume, HallOwn
<1>2. ~HallWrite
  BY <1>1 DEF HallWrite
<1>3. IsHall(disk[HOF]) /\ Best(HallOf(disk[HOF]))
  BY <1>2 DEF HallInv
<1>4. HofRead \in Tables
  BY <1>1, HallIsTable DEF SInv, DriveInv
<1>5. IF disk[HOF] = Absent THEN job.ret = "notfound" ELSE job.ret = "ok" /\ job.value = disk[HOF]
  BY <1>1 DEF HallInv
<1>6. HofRead = HallOf(disk[HOF])
  <2>1. CASE disk[HOF] = Absent
    BY <1>5, <2>1 DEF HofRead, HallOf
  <2>2. CASE disk[HOF] # Absent
    <3>1. PICK t \in Tables : disk[HOF] = TableOf(t)
      BY <1>3, <2>2 DEF IsHall
    <3>2. job.value.kind = "table" /\ job.value.end = "good" /\ job.ret = "ok"
      BY <1>5, <2>2, <3>1, TableKinds
    <3> QED BY <1>5, <2>2, <3>2 DEF HofRead, HallOf
  <2> QED BY <2>1, <2>2
<1> QED BY <1>2, <1>3, <1>4, <1>6

\* An offer made on a disk that has not failed: the table that results is the
\* best of the offers, that one among them.
LEMMA OfferedBest ==
    ASSUME SInv, HallOwn, HallInv, ~spoiled', ~spoiled, Resume("read", "ui_hall_of_fame"), Offered
    PROVE  /\ \E u \in Tables : u = HofOffer(HofRead, game.level, score) /\ Best(u)'
           /\ HofRead = HallOf(disk[HOF])
<1>1. PICK t : t = HofRead
  OBVIOUS
<1>2. PICK r : r = game.level
  OBVIOUS
<1>3. PICK s : s = score
  OBVIOUS
<1>4. t = HallOf(disk[HOF]) /\ t \in Tables /\ Best(t)
  BY <1>1, HallReadIs
<1>5. r \in Ranks /\ s \in Scores \cup {0} /\ offered \in [Offers -> Nat]
  BY <1>2, <1>3 DEF SInv, SessionTypeOK
<1>6. offered' = [offered EXCEPT ![<<r, s>>] = @ + 1]
  BY <1>2, <1>3 DEF Offered, Remember
<1>7. Best(HofOffer(t, r, s))'
  BY <1>4, <1>5, <1>6, OfferKeepsBest
<1>8. HofOffer(t, r, s) \in Tables
  BY <1>4, <1>5, Placed
<1>9. PICK u : u = HofOffer(t, r, s)
  OBVIOUS
<1>10. Best(u)' /\ u \in Tables
  BY <1>7, <1>8, <1>9
<1> QED BY <1>1, <1>2, <1>3, <1>4, <1>9, <1>10

LEMMA SpoiledStays == ASSUME SInv, [Next]_vars, ~spoiled' PROVE ~spoiled
<1>1. CASE UNCHANGED drive
  BY <1>1 DEF drive
<1>2. CASE DriveStep
  BY <1>2 DEF DriveStep, ReadStart, ReadOpen, ReadOpenFails, ReadStatus, ReadStatusFails,
     ReadBytes, ReadBytesFail, StreamRead, StreamClose, WriteStart, Scratch, WriteOpen,
     WriteOpenFails, WriteBytes, WriteBytesFail, WriteClose, WriteCheck
<1>3. CASE \/ Switched \/ OvlLoad \/ CallPlain \/ AskBriefing \/ SetupNew \/ TrekNewGame
           \/ Command \/ TakeTurn \/ GameOver \/ TrekScore \/ PlayAgain
  BY <1>1, <1>3 DEF Switched, OvlLoad, CallPlain, AskBriefing, SetupNew, TrekNewGame,
     Command, TakeTurn, GameOver, TrekScore, PlayAgain
<1>4. CASE EndStorage \/ \E op, file, value : StartStorage(op, file, value)
  BY <1>4 DEF EndStorage, StartStorage
<1>5. CASE ReadBriefing \/ Restore \/ HallOfFame \/ OfferPlaced
  BY <1>4, <1>5 DEF ReadBriefing, Restore, HallOfFame, OfferPlaced
<1>6. CASE BriefingRead \/ Restored \/ NotRestored \/ GameSaved \/ Unnamed \/ OfferRefused
           \/ HallWritten
  BY <1>4, <1>6 DEF BriefingRead, Restored, NotRestored, GameSaved, Unnamed, OfferRefused,
     NotPlaced, HallWritten
<1>7. CASE SaveGame
  BY <1>7 DEF SaveGame
<1>8. CASE PowerOff
  BY <1>8 DEF PowerOff, DrivePowerOff
<1>9. CASE UNCHANGED vars
  BY <1>1, <1>9 DEF vars
<1> QED BY <1>2, <1>3, <1>5, <1>6, <1>7, <1>8, <1>9, Zenon DEF Next, Storage

\* A routine keeps its file, and touches no other.
LEMMA DriveKeeps ==
    ASSUME DriveInv, DriveStep
    PROVE  /\ job'.op = job.op /\ job'.file = job.file /\ job.op # "none"
           /\ job.op = "write" => job'.value = job.value
           /\ job.op # "write" => disk' = disk
           /\ \A f \in Files \ {job.file} : disk'[f] = disk[f]
<1>1. job.op # "none"
  BY DEF DriveStep, ReadStart, ReadOpen, ReadOpenFails, ReadStatus, ReadStatusFails,
     ReadBytes, ReadBytesFail, StreamRead, StreamClose, WriteStart, WriteOpen,
     WriteOpenFails, WriteBytes, WriteBytesFail, WriteClose, WriteCheck
<1>2. /\ job \in [op : {"read", "write", "stream"}, file : Files,
                  pc : {"start", "open", "status", "bytes", "close", "check", "done"},
                  value : Contents, ret : {"ok", "notfound", "error"}]
      /\ disk \in [Files -> Contents]
  BY <1>1, JobShape DEF DriveInv, DriveTypeOK
<1>3. CASE ReadStart \/ ReadOpen \/ ReadOpenFails \/ ReadStatus \/ ReadStatusFails
  BY <1>2, <1>3 DEF ReadStart, ReadOpen, ReadOpenFails, ReadStatus, ReadStatusFails
<1>4. CASE ReadBytes \/ ReadBytesFail \/ StreamRead \/ StreamClose
  BY <1>2, <1>4 DEF ReadBytes, ReadBytesFail, StreamRead, StreamClose
<1>5. CASE WriteStart \/ WriteOpen \/ WriteOpenFails \/ WriteBytes
  BY <1>2, <1>5 DEF WriteStart, Scratch, WriteOpen, WriteOpenFails, WriteBytes
<1>6. CASE WriteBytesFail \/ WriteClose \/ WriteCheck
  BY <1>2, <1>6 DEF WriteBytesFail, WriteClose, WriteCheck
<1> QED BY <1>3, <1>4, <1>5, <1>6 DEF DriveStep

LEMMA QuietIdle ==
    ASSUME SInv,
           \/ Switched \/ OvlLoad \/ CallPlain \/ AskBriefing \/ SetupNew \/ TrekNewGame
           \/ Command \/ TakeTurn \/ GameOver \/ TrekScore \/ PlayAgain
    PROVE  UNCHANGED <<drive, offered>> /\ job.op = "none"
<1>1. UNCHANGED <<drive, offered>>
  BY DEF Switched, OvlLoad, CallPlain, AskBriefing, SetupNew, TrekNewGame, Command, TakeTurn,
     GameOver, TrekScore, PlayAgain
<1>2. CASE Switched \/ PlayAgain
  BY <1>1, <1>2 DEF Switched, PlayAgain, SInv, AtInv, ScriptInv
<1>3. CASE OvlLoad \/ CallPlain \/ AskBriefing \/ SetupNew \/ TrekNewGame \/ Command
           \/ TakeTurn \/ GameOver \/ TrekScore
  BY <1>1, <1>3 DEF OvlLoad, CallPlain, AskBriefing, SetupNew, TrekNewGame, Command, TakeTurn,
     GameOver, TrekScore, AtCommand, Next1
<1> QED BY <1>2, <1>3

LEMMA OwnHolds == ASSUME SInv, HallOwn, [Next]_vars PROVE HallOwn'
<1> SUFFICES ASSUME job'.op = "read" PROVE HallOwn'
  BY DEF HallOwn
<1>1. CASE \/ Switched \/ OvlLoad \/ CallPlain \/ AskBriefing \/ SetupNew \/ TrekNewGame
           \/ Command \/ TakeTurn \/ GameOver \/ TrekScore \/ PlayAgain
  BY <1>1, QuietIdle DEF drive
<1>2. CASE UNCHANGED vars
  BY <1>2 DEF vars, drive, session, HallOwn
<1>3. CASE ReadBriefing
  BY <1>3 DEF ReadBriefing, StartStorage, Job
<1>4. CASE Restore
  <2>1. Head(script) = [do |-> "call", what |-> "ui_setup"] /\ script' = script
    BY <1>4 DEF Restore, Next1, session
  <2>2. Head(script) # Call("ui_hall_of_fame")
    BY <2>1 DEF Call
  <2> QED BY <2>1, <2>2 DEF HallOwn
<1>5. CASE HallOfFame
  BY <1>5 DEF HallOfFame, StartStorage, Job, HallOwn
<1>6. CASE BriefingRead \/ Restored \/ NotRestored \/ GameSaved \/ Unnamed \/ OfferRefused
           \/ HallWritten \/ PowerOff
  BY <1>6, NoJobFields DEF BriefingRead, Restored, NotRestored, GameSaved, Unnamed,
     OfferRefused, NotPlaced, HallWritten, EndStorage, PowerOff, DrivePowerOff
<1>7. CASE SaveGame \/ OfferPlaced
  BY <1>7 DEF SaveGame, OfferPlaced, StartStorage, Job
<1>8. CASE Storage
  BY <1>8, DriveKeeps DEF Storage, SInv, HallOwn
<1> QED BY <1>1, <1>2, <1>3, <1>4, <1>5, <1>6, <1>7, <1>8, Zenon DEF Next

\* HallInv of the next state, from the file, the table and the offers there.
LEMMA HallKept ==
    ASSUME SInv, HallInv, ~spoiled, ~HallWrite, UNCHANGED <<disk, offered>>, ~HallWrite',
           job'.op = "read" /\ job'.file = HOF => job'.pc = "start"
    PROVE  HallInv'
<1>1. PICK t : t = HallOf(disk[HOF])
  OBVIOUS
<1>2. IsHall(disk[HOF]) /\ Best(t)
  BY <1>1 DEF HallInv
<1>3. Best(t)'
  BY <1>2, SameOffers
<1>4. disk'[HOF] = disk[HOF] /\ IsHall(disk[HOF])' /\ HallOf(disk[HOF])' = t
  BY <1>1, <1>2 DEF IsHall, HallOf
<1>5. Best(HallOf(disk[HOF]))'
  BY <1>3, <1>4
<1> QED BY <1>4, <1>5 DEF HallInv

\* The drive carries out a read of the file faithfully, and a write of it
\* leaves it as it was asked for.
LEMMA DriveHall == ASSUME SInv, HallInv, ~spoiled, ~spoiled', DriveStep, UNCHANGED offered
                   PROVE  HallInv'
<1> USE DEF SInv, DriveInv
<1>1. /\ job'.op = job.op /\ job'.file = job.file /\ job.op # "none"
      /\ job.op = "write" => job'.value = job.value
      /\ job.op # "write" => disk' = disk
      /\ \A f \in Files \ {job.file} : disk'[f] = disk[f]
  BY DriveKeeps
<1>2. job \in [op : {"read", "write", "stream"}, file : Files,
               pc : {"start", "open", "status", "bytes", "close", "check", "done"},
               value : Contents, ret : {"ok", "notfound", "error"}]
  BY <1>1, JobShape
<1>3. HallWrite' = HallWrite
  BY <1>1 DEF HallWrite
<1>4. CASE HallWrite
  <2>1. PICK t \in Tables : job.value = TableOf(t) /\ Best(t)
    BY <1>4 DEF HallInv
  <2>2. Best(t)' /\ job'.value = TableOf(t)
    BY <1>1, <1>4, <2>1, SameOffers DEF HallWrite
  <2>3. job'.op # "read" /\ HallWrite'
    BY <1>1, <1>3, <1>4 DEF HallWrite
  <2> QED BY <2>2, <2>3 DEF HallInv
<1>5. CASE ~HallWrite
  <2>1. disk'[HOF] = disk[HOF]
    <3>1. HOF \in Files
      OBVIOUS
    <3> QED BY <1>1, <1>5, <3>1 DEF HallWrite
  <2>2. IsHall(disk[HOF]) /\ Best(HallOf(disk[HOF]))
    BY <1>5 DEF HallInv
  <2>3. IsHall(disk[HOF])' /\ Best(HallOf(disk[HOF]))'
    <3>1. PICK c : c = disk[HOF]
      OBVIOUS
    <3>2. PICK t : t = HallOf(c)
      OBVIOUS
    <3>3. Best(t)'
      BY <2>2, <3>1, <3>2, SameOffers
    <3>4. HallOf(disk[HOF])' = t /\ IsHall(disk[HOF])'
      BY <2>1, <2>2, <3>1, <3>2 DEF HallOf, IsHall
    <3> QED BY <3>3, <3>4
  <2>4. ASSUME job.op = "read", job.file = HOF
        PROVE  /\ job'.pc = "status" => dos' = IF disk[HOF] = Absent THEN "notfound" ELSE "ok"
               /\ job'.pc = "bytes" => disk[HOF] # Absent
               /\ job'.pc = "done" => IF disk[HOF] = Absent THEN job'.ret = "notfound"
                                      ELSE job'.ret = "ok" /\ job'.value = disk[HOF]
    <3>1. /\ job.pc = "status" => dos = IF disk[HOF] = Absent THEN "notfound" ELSE "ok"
          /\ job.pc = "bytes" => disk[HOF] # Absent
      BY <2>4 DEF HallInv
    <3>2. disk[HOF] # Absent => disk[HOF] # Torn /\ disk[HOF] # Text
      BY <2>2, TableKinds DEF IsHall
    <3>3. CASE ReadStart
      <4>1. ~cmd
        BY <3>3 DEF ReadStart, ChannelsOwned, Closed
      <4>2. job' = [job EXCEPT !.pc = "open"]
        BY <3>3, <4>1 DEF ReadStart
      <4> QED BY <1>2, <4>2
    <3>4. CASE ReadOpen
      <4>1. /\ job' = [job EXCEPT !.pc = "status"]
            /\ dos' = CASE disk[HOF] = Absent -> "notfound"
                        [] disk[HOF] = Torn -> "other"
                        [] OTHER -> "ok"
        BY <2>4, <3>4 DEF ReadOpen
      <4>2. dos' = IF disk[HOF] = Absent THEN "notfound" ELSE "ok"
        <5>1. CASE disk[HOF] = Absent
          <6>1. Absent # Torn
            BY DEF Absent, Torn
          <6> QED BY <4>1, <5>1, <6>1
        <5>2. CASE disk[HOF] # Absent
          BY <3>2, <4>1, <5>2
        <5> QED BY <5>1, <5>2
      <4>3. job'.pc = "status"
        BY <1>2, <4>1
      <4> QED BY <4>2, <4>3
    <3>5. CASE ReadStatus
      <4>1. job.pc = "status"
        BY <3>5 DEF ReadStatus
      <4>2. CASE dos # "ok"
        <5>1. job' = [job EXCEPT !.pc = "done", !.ret = classify(dos)]
          BY <3>5, <4>2 DEF ReadStatus
        <5>2. dos = "notfound" /\ disk[HOF] = Absent
          BY <3>1, <4>1, <4>2
        <5>3. classify(dos) = "notfound"
          BY <5>2 DEF classify
        <5> QED BY <1>2, <5>1, <5>2, <5>3
      <4>3. CASE dos = "ok"
        <5>1. job' = [job EXCEPT !.pc = "bytes"]
          BY <3>5, <4>3 DEF ReadStatus
        <5>2. disk[HOF] # Absent
          BY <3>1, <4>1, <4>3
        <5> QED BY <1>2, <5>1, <5>2
      <4> QED BY <4>2, <4>3
    <3>6. CASE ReadBytes
      <4>1. /\ job.pc = "bytes"
            /\ job' = [job EXCEPT !.pc = "done", !.value = disk[HOF],
                                  !.ret = IF disk[HOF] = Text THEN "error" ELSE "ok"]
        BY <2>4, <3>6 DEF ReadBytes
      <4> QED BY <1>2, <3>1, <3>2, <4>1
    <3>7. CASE ReadOpenFails \/ ReadStatusFails \/ ReadBytesFail
      BY <3>7 DEF ReadOpenFails, ReadStatusFails, ReadBytesFail
    <3> QED
      BY <2>4, <3>3, <3>4, <3>5, <3>6, <3>7 DEF DriveStep, StreamRead, StreamClose, WriteStart,
         WriteOpen, WriteOpenFails, WriteBytes, WriteBytesFail, WriteClose, WriteCheck
  <2> QED BY <1>1, <1>3, <1>5, <2>1, <2>3, <2>4 DEF HallInv
<1> QED BY <1>4, <1>5

LEMMA HallHolds == ASSUME SInv, HallOwn, HallInv, [Next]_vars PROVE HallInv'
<1> SUFFICES ASSUME ~spoiled' PROVE HallInv'
  BY DEF HallInv
<1>0. ~spoiled
  BY SpoiledStays
<1>1. CASE \/ Switched \/ OvlLoad \/ CallPlain \/ AskBriefing \/ SetupNew \/ TrekNewGame
           \/ Command \/ TakeTurn \/ GameOver \/ TrekScore \/ PlayAgain
  <2>1. UNCHANGED <<disk, job, offered>> /\ job.op = "none"
    BY <1>1, QuietIdle DEF drive
  <2>2. ~HallWrite /\ ~HallWrite' /\ job'.op # "read"
    BY <2>1 DEF HallWrite
  <2> QED BY <1>0, <2>1, <2>2, HallKept
<1>2. CASE UNCHANGED vars
  <2>1. UNCHANGED <<disk, job, dos, spoiled, offered>>
    BY <1>2 DEF vars, drive, session
  <2>2. HallWrite' = HallWrite
    BY <2>1 DEF HallWrite
  <2>3. \A t : Best(t) => Best(t)'
    BY <2>1, SameOffers
  <2>4. CASE HallWrite
    <3>1. job'.op # "read" /\ HallWrite' /\ job'.value = job.value
      BY <2>1, <2>2, <2>4 DEF HallWrite
    <3>2. PICK t \in Tables : job.value = TableOf(t) /\ Best(t)
      BY <1>0, <2>4 DEF HallInv
    <3> QED BY <2>3, <3>1, <3>2 DEF HallInv
  <2>5. CASE ~HallWrite
    <3>1. PICK t : t = HallOf(disk[HOF])
      OBVIOUS
    <3>2. IsHall(disk[HOF]) /\ Best(t)
      BY <1>0, <2>5, <3>1 DEF HallInv
    <3>3. Best(t)' /\ HallOf(disk[HOF])' = t /\ IsHall(disk[HOF])'
      BY <2>1, <2>3, <3>1, <3>2 DEF HallOf, IsHall
    <3> QED BY <1>0, <2>1, <2>2, <2>5, <3>3 DEF HallInv
  <2> QED BY <2>4, <2>5
<1>3. CASE ReadBriefing \/ Restore \/ HallOfFame
  <2>1. /\ job.op = "none" /\ UNCHANGED <<disk, offered>>
        /\ job'.op \in {"read", "stream"} /\ job'.pc = "start"
    BY <1>3 DEF ReadBriefing, Restore, HallOfFame, StartStorage, Job, Next1, session
  <2>2. ~HallWrite /\ ~HallWrite'
    BY <2>1 DEF HallWrite
  <2> QED BY <1>0, <2>1, <2>2, HallKept
<1>4. CASE BriefingRead \/ Restored \/ NotRestored \/ Unnamed
  <2>1. /\ job.op \in {"read", "stream"} /\ UNCHANGED <<disk, offered>> /\ job'.op = "none"
    BY <1>4, NoJobFields DEF BriefingRead, Restored, NotRestored, Unnamed, NotPlaced, EndStorage,
       Resume
  <2>2. ~HallWrite /\ ~HallWrite' /\ job'.op # "read"
    BY <2>1 DEF HallWrite
  <2> QED BY <1>0, <2>1, <2>2, HallKept
<1>5. CASE GameSaved \/ HallWritten
  <2>1. /\ job.op = "write" /\ job.pc = "done" /\ UNCHANGED <<disk, offered>> /\ job'.op = "none"
    BY <1>5, NoJobFields DEF GameSaved, HallWritten, EndStorage, Resume
  <2>2. ~HallWrite' /\ job'.op # "read"
    BY <2>1 DEF HallWrite
  <2>3. CASE ~HallWrite
    BY <1>0, <2>1, <2>2, <2>3, HallKept
  <2>4. CASE HallWrite
    <3>1. disk[HOF] = job.value
      BY <1>0, <2>1, <2>4 DEF SInv, DriveInv, OkIsOnDisk, HallWrite
    <3>2. PICK t \in Tables : job.value = TableOf(t) /\ Best(t)
      BY <1>0, <2>4 DEF HallInv
    <3>3. Best(t)' /\ disk'[HOF] = TableOf(t)
      BY <2>1, <3>1, <3>2, SameOffers
    <3>4. IsHall(disk[HOF])' /\ HallOf(disk[HOF])' = t
      BY <3>3, HallOfTable DEF IsHall, HallOf
    <3> QED BY <2>2, <3>3, <3>4 DEF HallInv
  <2> QED BY <2>3, <2>4
<1>6. CASE OfferRefused
  <2>1. /\ Resume("read", "ui_hall_of_fame") /\ Offered /\ UNCHANGED disk /\ job'.op = "none"
        /\ HofOffer(HofRead, game.level, score) = HofRead
    BY <1>6, NoJobFields DEF OfferRefused, NotPlaced, EndStorage
  <2>2. PICK u \in Tables : u = HofOffer(HofRead, game.level, score) /\ Best(u)'
    BY <1>0, <2>1, OfferedBest
  <2>3. HofRead = HallOf(disk[HOF]) /\ ~HallWrite
    BY <1>0, <2>1, HallReadIs
  <2>4. u = HallOf(disk[HOF]) /\ IsHall(disk[HOF])
    BY <1>0, <2>1, <2>2, <2>3 DEF HallInv
  <2>5. HallOf(disk[HOF])' = u /\ IsHall(disk[HOF])'
    BY <2>1, <2>4 DEF HallOf, IsHall
  <2>6. ~HallWrite' /\ job'.op # "read"
    BY <2>1 DEF HallWrite
  <2> QED BY <2>2, <2>5, <2>6 DEF HallInv
<1>7. CASE OfferPlaced
  <2>1. /\ Resume("read", "ui_hall_of_fame") /\ Offered
        /\ job' = Job("write", HOF, TableOf(HofOffer(HofRead, game.level, score)))
    BY <1>7 DEF OfferPlaced, StartStorage
  <2>2. PICK u \in Tables : u = HofOffer(HofRead, game.level, score) /\ Best(u)'
    BY <1>0, <2>1, OfferedBest
  <2>3. /\ job'.op = "write" /\ job'.file = HOF /\ job'.value = TableOf(u)
    BY <2>1, <2>2 DEF Job
  <2>4. HallWrite' /\ job'.op # "read"
    BY <2>3 DEF HallWrite
  <2> QED BY <2>2, <2>3, <2>4 DEF HallInv
<1>8. CASE SaveGame
  <2>1. PICK f \in Saving : job' = Job("write", f, SaveOf(game)) /\ spoiled' = (spoiled \/ f = HOF)
    BY <1>8 DEF SaveGame
  <2>2. f # HOF /\ job'.op = "write" /\ job'.file = f
    BY <2>1 DEF Job
  <2>3. job.op = "none" /\ UNCHANGED <<disk, offered>>
    BY <1>8 DEF SaveGame, Next1, Remember
  <2>4. ~HallWrite /\ ~HallWrite' /\ job'.op # "read"
    BY <2>2, <2>3 DEF HallWrite
  <2> QED BY <1>0, <2>3, <2>4, HallKept
<1>9. CASE PowerOff
  <2>1. /\ job.op # "write" /\ job'.op = "none" /\ UNCHANGED <<disk, offered>>
    BY <1>9, NoJobFields DEF PowerOff, DrivePowerOff, Remember
  <2>2. ~HallWrite /\ ~HallWrite' /\ job'.op # "read"
    BY <2>1 DEF HallWrite
  <2> QED BY <1>0, <2>1, <2>2, HallKept
<1>10. CASE Storage
  <2>1. UNCHANGED offered /\ DriveStep
    BY <1>10 DEF Storage, Remember
  <2> QED BY <1>0, <2>1, DriveHall
<1> QED BY <1>1, <1>2, <1>3, <1>4, <1>5, <1>6, <1>7, <1>8, <1>9, <1>10, Zenon DEF Next

LEMMA MaxIs ==
    ASSUME NEW S, S \subseteq Int, NEW m \in S, \A x \in S : x <= m
    PROVE  Max(S) = m
<1>1. \A x \in S : m >= x
  OBVIOUS
<1>2. Max(S) \in S /\ \A x \in S : Max(S) >= x
  BY <1>1 DEF Max
<1>3. Max(S) >= m /\ Max(S) <= m /\ Max(S) \in Int /\ m \in Int
  BY <1>2
<1> QED BY <1>3

---------------------------------------------------------------------------
(* The theorems. *)

(* For every set of file names, ranks and scores: whatever a restore, a
   mistyped name or a faulty read brings in, memory holds a game, the hall of
   fame a table, and the disk seam a routine at one of its own steps. *)
THEOREM TypeCorrect == Spec => []TypeOK
<1>1. SInv => TypeOK
  BY DEF SInv, DriveInv, ScriptInv, SessionTypeOK, TypeOK
<1> QED BY <1>1, InvariantHolds, PTL

(* A function in an overlay is entered only while its own overlay is in the
   window, and the window is filled only while the disk seam has every file
   closed, however many turns and games are played and however many rare events
   a turn reports. *)
THEOREM WindowsAreLive == Spec => []WindowIsLive
<1>1. ASSUME SInv, script # <<>>, Head(script).do = "load"
      PROVE  data = "closed" /\ ~cmd /\ streaming = 0
  <2>1. Head(script).do # "call"
    BY <1>1
  <2>2. job.op = "none"
    BY <1>1, <2>1 DEF SInv, ScriptInv
  <2> QED BY <1>1, <2>2 DEF SInv, DriveInv, ChannelsOwned, Closed
<1>2. SInv => WindowIsLive
  BY <1>1 DEF SInv, ScriptInv, WindowIsLive
<1> QED BY <1>2, InvariantHolds, PTL

(* STOR_OK is only ever said of a file that is whole on the disk, and a drive
   that never fails is never said to have failed, whatever the names and the
   contents. *)
THEOREM OksAreOnDisk == Spec => []OkIsOnDisk
<1>1. SInv => OkIsOnDisk
  BY DEF SInv, DriveInv
<1> QED BY <1>1, InvariantHolds, PTL

(* A restore is all or nothing but for the one byte no check covers, and no
   galaxy is made over a game that was restored or has been played: for every
   set of names and records, whatever file the captain names and wherever the
   drive fails under the read. *)
THEOREM RestoresAreFaithful == Spec => RestoredIsSaved
<1> DEFINE RInv == SInv /\ ReadIsFile /\ GalaxyInv
<1>1. Init => RInv
  <2> SUFFICES ASSUME Init PROVE ReadIsFile /\ GalaxyInv
    BY InitHolds
  <2>1. ReadIsFile
    BY NoJobFields DEF Init, DriveInit, ReadIsFile
  <2>2. GalaxyInv
    BY NoNewSteps DEF Init, GalaxyInv
  <2> QED BY <2>1, <2>2
<1>2. RInv /\ [Next]_vars => RInv'
  BY StepHolds, ReadHolds, GalaxyHolds
<1>3. ASSUME RInv, Restored
      PROVE  /\ disk[job.file].kind = "save"
             /\ game'.level = disk[job.file].val.level
             /\ game'.turn = disk[job.file].val.turn
             /\ game'.end \in {disk[job.file].val.end, "noise"}
  <2>1. job.op = "read" /\ job.value.kind = "save" /\ game' = StateLoad
    BY <1>3 DEF Restored, Resume, SaveRead
  <2>2. disk[job.file].kind = "save" /\ job.value.val = disk[job.file].val
    BY <1>3, <2>1 DEF ReadIsFile
  <2>3. job.value \in Contents
    BY <1>3, <2>1, JobShape DEF SInv, DriveInv
  <2>4. job.value.val \in Games
    BY <2>1, <2>3 DEF Contents, Whole, Absent, Torn, Text, Short
  <2>5. \/ game' = job.value.val
        \/ game' = [job.value.val EXCEPT !.end = "noise"]
    BY <2>1 DEF StateLoad
  <2> QED BY <2>2, <2>4, <2>5
<1>4. ASSUME RInv, TrekNewGame PROVE game.turn = 0 /\ game.end = "good"
  <2>1. script \in Seq(Steps) /\ script # <<>> /\ Head(script) = Call("trek_new_game")
    BY <1>4 DEF TrekNewGame, Next1, Call, SInv, ScriptInv
  <2>2. ~NoNewGame(script)
    <3>1. 1 \in 1..Len(script) /\ script[1] = Call("trek_new_game")
      BY <2>1
    <3> QED BY <3>1 DEF NoNewGame
  <2> QED BY <1>4, <2>2 DEF GalaxyInv, Fresh
<1> QED BY <1>1, <1>2, <1>3, <1>4, PTL DEF Spec, RestoredIsSaved
(* For every set of ranks and scores, and however many games are offered: on a
   disk that never failed the hall of fame's file holds at each rank the two
   best scores ever offered there, whichever order they came in, through every
   restore, reset and "Play again?" between them. *)
THEOREM TheRecordsAreTheBest == Spec => []RecordsAreTheBest
<1> DEFINE RInv == SInv /\ HallOwn /\ HallInv
<1>1. Init => RInv
  <2> SUFFICES ASSUME Init PROVE HallOwn /\ HallInv
    BY InitHolds
  <2>1. job.op = "none" /\ offered = NoOffers
    BY NoJobFields DEF Init, DriveInit
  <2>2. disk[HOF] = Absent \/ disk[HOF] = TableOf(hof_clear)
    <3>1. HOF \in Files /\ HOF # BRIEF
      BY DEF HOF, BRIEF
    <3> QED BY <3>1 DEF Init
  <2>3. IsHall(disk[HOF]) /\ HallOf(disk[HOF]) = hof_clear
    BY <2>2, EmptyHall, HallOfTable DEF IsHall, HallOf
  <2>4. Best(hof_clear)
    BY <2>1, EmptyHall
  <2> QED BY <2>1, <2>3, <2>4 DEF HallOwn, HallInv, HallWrite
<1>2. RInv /\ [Next]_vars => RInv'
  BY StepHolds, OwnHolds, HallHolds
<1>3. ASSUME SInv, HallInv PROVE RecordsAreTheBest
  <2> SUFFICES ASSUME Idle, ~spoiled,
                      NEW r \in Ranks
               PROVE  /\ HallOf(disk[HOF])[hof_index(r, 0)] = Max({0} \cup Taken(r))
                      /\ HallOf(disk[HOF])[hof_index(r, 1)] = Max({0} \cup Again(r))
    BY DEF RecordsAreTheBest, HallOf
  <2>1. Best(HallOf(disk[HOF]))
    BY <1>3 DEF HallInv, HallWrite
  <2> DEFINE f == HallOf(disk[HOF])[hof_index(r, 0)]
             g == HallOf(disk[HOF])[hof_index(r, 1)]
             F == {0} \cup Taken(r)
             G == {0} \cup Again(r)
  <2>2. /\ f \in F /\ \A x \in Taken(r) : x <= f
        /\ g \in G /\ \A x \in Again(r) : x <= g
    BY <2>1 DEF Best
  <2>3. Taken(r) \subseteq Scores /\ Again(r) \subseteq Taken(r) /\ \A x \in Taken(r) : x > 0
    BY TakenAgain
  <2> HIDE DEF f, g
  <2>4. F \subseteq Int /\ G \subseteq Int
    <3>1. Scores \subseteq Int
      OBVIOUS
    <3>2. Taken(r) \subseteq Int /\ Again(r) \subseteq Int
      BY <2>3, <3>1, Zenon
    <3> QED BY <3>2
  <2>5. \A x \in F : x <= f
    BY <2>2, <2>3, <2>4
  <2>6. \A x \in G : x <= g
    BY <2>2, <2>3, <2>4
  <2> HIDE DEF F, G
  <2>7. f = Max(F) /\ g = Max(G)
    BY <2>2, <2>4, <2>5, <2>6, MaxIs
  <2> QED BY <2>7 DEF f, g, F, G
<1> QED BY <1>1, <1>2, <1>3, PTL DEF Spec
=============================================================================
