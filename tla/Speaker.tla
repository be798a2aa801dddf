------------------------------ MODULE Speaker ------------------------------
(***************************************************************************)
(* The sound of the card-less CoCo 3: one DAC, toggled by a timer          *)
(* interrupt (coco3gime/src/gimesnd.c), and silenced by the disk driver    *)
(* (coco3/src/coco3storage.c), which on this machine is also where the     *)
(* strings are.                                                            *)
(*                                                                         *)
(* The interrupt may fall between any two statements that write what it    *)
(* reads.  `code' is what the routine now running has still to execute:    *)
(* one entry is one such statement, or the rest of a routine once they are *)
(* done.  What the handler never touches -- the two streams of notes --    *)
(* changes at once with the statement that decides it.                     *)
(***************************************************************************)
EXTENDS Naturals, Sequences

CONSTANTS Tunes,       \* MUSIC.DAT: each track, a sequence of <<ticks, tens of Hz>>
          Losses,      \* sets of bytes <<track, note, 1 or 2>> a reading may come back without
          Music,       \* the tracks main() plays as music; the others are effects
          BEEP_FRAMES,
          GuardSize    \* polls of a dead frame source before a beep gives up (2^16)

VARIABLES reg,     \* the registers, and the statics the handler shares
          seq,     \* the two streams of notes
          enabled, mus_ok,
          mus_buf, \* MUSIC.DAT as it was read
          code     \* what is left of the routine now running

sound == <<reg, seq, enabled, mus_ok, mus_buf, code>>

TMR_MAX == 4095
TMR_QTR == 44744
BEEP_TENTHS == 44
MUS_NONE == "none"
Tracks == DOMAIN Tunes
Tenths == {BEEP_TENTHS} \cup UNION {{Tunes[t][i][2] : i \in DOMAIN Tunes[t]} : t \in Tracks}

SpeakerAssumption ==
    /\ \A t \in Tracks : Tunes[t] \in Seq((1..255) \X (0..255))
    /\ Music \subseteq Tracks /\ BEEP_FRAMES \in Nat \ {0} /\ GuardSize \in Nat \ {0}
ASSUME SpeakerAssumption

\* Every byte is fetched on its own, and one the disk does not give is a zero: a
\* duration alone, a pitch alone, one track and not the next.
fetch(lost, byte) == IF byte \in lost THEN 0 ELSE Tunes[byte[1]][byte[2]][byte[3]]
far_read(lost) ==
    [t \in Tracks |->
        [i \in DOMAIN Tunes[t] |-> <<fetch(lost, <<t, i, 1>>), fetch(lost, <<t, i, 2>>)>>]]
Readings == {far_read(lost) : lost \in Losses}

---------------------------------------------------------------------------
(* The voice, statement by statement. *)

Set(r, v) == [do |-> "set", reg |-> r, to |-> v]

\* A quarter count shifted back in sixteen bits, halved into the timer's twelve
\* while the divisor doubles.
Counts(tenths) == (((TMR_QTR + tenths \div 2) \div tenths) * 4) % 65536
Divisor(tenths) ==
    CHOOSE d \in {1, 2, 4, 8, 16} :
        /\ Counts(tenths) \div d <= TMR_MAX
        /\ d > 1 => Counts(tenths) \div (d \div 2) > TMR_MAX
Timer(tenths) == Counts(tenths) \div Divisor(tenths)

voice_off ==
    <<Set("sounding", 0), Set("IRQENR", 0), Set("TMRHI", 0), Set("TMRLO", 0),
      Set("DAC", 0), Set("level", 0)>>

note(tenths) ==
    <<Set("tog_div", Divisor(tenths)), Set("tog_cnt", Divisor(tenths)),
      Set("TMRHI", Timer(tenths) \div 256), Set("TMRLO", Timer(tenths) % 256),
      Set("IRQENR", 1), Set("sounding", 1)>>

\* Slip: the last note is not silenced first.
voice_noteStillSounding(tenths) ==
    IF tenths = 0 THEN voice_off ELSE <<Set("cur_tenths", tenths)>> \o note(tenths)

voice_note(tenths) ==
    IF tenths = 0 THEN voice_off
    ELSE <<Set("cur_tenths", tenths), Set("sounding", 0)>> \o note(tenths)

\* Slip: the DAC first.
disk_quietLate == <<Set("DAC", 0), Set("held", 1)>>

\* The disk driver, before every sector.
disk_quiet == <<Set("held", 1), Set("DAC", 0)>>

\* snd_tick_irq.  It reads the flag away first, which is all it does when there is
\* nothing to play.
Irq ==
    /\ reg.IRQENR = 1 /\ reg.I = 0
    /\ reg.sounding = 1 /\ reg.held = 0
    /\ LET cnt == (reg.tog_cnt + 255) % 256 IN
          reg' = IF cnt # 0 THEN [reg EXCEPT !.tog_cnt = cnt]
                 ELSE [reg EXCEPT !.tog_cnt = reg.tog_div, !.level = 1 - @, !.DAC = 1 - reg.level]
    /\ UNCHANGED <<seq, enabled, mus_ok, mus_buf, code>>

---------------------------------------------------------------------------
(* music_tick: both streams keep time, the effect gets the speaker. *)

\* A duration of zero ends a track: the file's own, after the last note, or a lost one.
Ended(p) == p.at \notin DOMAIN mus_buf[p.track] \/ mus_buf[p.track][p.at][1] = 0
Ticks(p) == mus_buf[p.track][p.at][1]
Pitch(p) == mus_buf[p.track][p.at][2]
Next1(p) == [p EXCEPT !.at = @ + 1]
Start(t) == [track |-> t, at |-> 1]
Less(n) == IF n > 0 THEN n - 1 ELSE 0

\* Slip: nobody looks whether an effect plays.
AlwaysHeard(q, statements) == statements

\* The music tells the voice nothing while an effect has it.
IfHeard(q, statements) == IF q.sfx_on THEN <<>> ELSE statements

\* A stream's note is due: what becomes of `q', and what the voice is told.
MusicDue(q) ==
    LET p == IF Ended(q.mus) THEN q.mus_head ELSE q.mus IN
    IF Ended(p)
    THEN [q |-> [q EXCEPT !.mus = p, !.mus_on = FALSE],
          code |-> IfHeard(q, voice_off)]
    ELSE [q |-> [q EXCEPT !.mus = Next1(p), !.note_left = Ticks(p)],
          code |-> IfHeard(q, voice_note(Pitch(p)))]

EffectDue(q) ==
    IF ~Ended(q.sfx)
    THEN [q |-> [q EXCEPT !.sfx = Next1(@), !.sfx_left = Ticks(q.sfx)],
          code |-> voice_note(Pitch(q.sfx))]
    ELSE [q |-> [q EXCEPT !.sfx_on = FALSE, !.note_left = IF q.mus_on THEN 0 ELSE @],
          code |-> IF q.mus_on THEN <<>> ELSE voice_off]

music_tick(q) ==
    LET q1 == [q EXCEPT !.note_left = IF q.mus_on THEN Less(@) ELSE @]
        m == IF q1.mus_on /\ q1.note_left = 0 THEN MusicDue(q1) ELSE [q |-> q1, code |-> <<>>]
        q2 == [m.q EXCEPT !.sfx_left = IF m.q.sfx_on THEN Less(@) ELSE @]
        e == IF q2.sfx_on /\ q2.sfx_left = 0 THEN EffectDue(q2) ELSE [q |-> q2, code |-> <<>>]
    IN [q |-> e.q, code |-> m.code \o e.code]

---------------------------------------------------------------------------
(* The mainline: one statement of the routine that runs. *)

Do(what) == [do |-> what]
Wait(frames, guard) == [do |-> "wait", frames |-> frames, guard |-> guard]
Sector == disk_quiet \o <<Do("read")>>
Quiet == [seq EXCEPT !.mus_on = FALSE, !.sfx_on = FALSE]
At(what) == code # <<>> /\ Head(code).do = what

Assign ==
    /\ At("set")
    /\ reg' = [reg EXCEPT ![Head(code).reg] = Head(code).to]
    /\ code' = Tail(code)
    /\ UNCHANGED <<seq, enabled, mus_ok, mus_buf>>

\* DSKCON: whatever it brings is nothing to the speaker.
ReadSector ==
    /\ At("read")
    /\ code' = Tail(code)
    /\ UNCHANGED <<reg, seq, enabled, mus_ok, mus_buf>>

\* snd_music_data, once the directory has been read: the file is not there, or each
\* of its sectors is, or is not, read.
OpenTune ==
    /\ At("open")
    /\ code' \in {<<>>, Sector \o <<Do("loaded")>>}
    /\ UNCHANGED <<reg, seq, enabled, mus_ok, mus_buf>>
TuneLoaded ==
    /\ At("loaded")
    /\ mus_buf' \in Readings /\ mus_ok' = TRUE
    /\ code' = Tail(code)
    /\ UNCHANGED <<reg, seq, enabled>>

\* The rest of snd_poll: at most one tick of the tune to a frame.
Poll ==
    /\ At("poll")
    /\ \/ code' = <<>> /\ UNCHANGED seq
       \/ /\ enabled /\ (seq.mus_on \/ seq.sfx_on)
          /\ LET m == music_tick(seq) IN seq' = m.q /\ code' = m.code
    /\ UNCHANGED <<reg, enabled, mus_ok, mus_buf>>

\* Slip: the count of empty polls wraps and nobody looks.
GuardTrippedNever(guard) == FALSE

GuardTripped(guard) == guard + 1 = GuardSize

\* snd_beep's loop: a frame resets the guard, and enough polls without one end it.
BeepWait ==
    /\ At("wait")
    /\ LET w == Head(code)
           silence == /\ code' = voice_off
                      /\ seq' = [seq EXCEPT !.note_left = IF seq.mus_on THEN 0 ELSE @]
           again(f, g) == code' = <<Wait(f, g)>> /\ UNCHANGED seq
       IN IF w.frames = BEEP_FRAMES THEN silence
          ELSE \/ again(w.frames + 1, 0)
               \/ GuardTripped(w.guard) /\ silence
               \/ ~GuardTripped(w.guard) /\ again(w.frames, (w.guard + 1) % GuardSize)
    /\ UNCHANGED <<reg, enabled, mus_ok, mus_buf>>

Mainline == Assign \/ ReadSector \/ OpenTune \/ TuneLoaded \/ Poll \/ BeepWait

---------------------------------------------------------------------------
(* What the game calls, in any order. *)

Rest == code = <<>>

snd_music(track) ==
    /\ Rest
    /\ IF ~enabled \/ ~mus_ok \/ track = MUS_NONE
       THEN /\ seq' = [seq EXCEPT !.mus_on = FALSE]
            /\ code' = IfHeard(seq, voice_off)
       ELSE /\ seq' = [seq EXCEPT !.mus_head = Start(track), !.mus = Start(track),
                                  !.mus_on = TRUE, !.note_left = 0]
            /\ UNCHANGED code
    /\ UNCHANGED <<reg, enabled, mus_ok, mus_buf>>

snd_effect(track) ==
    /\ Rest /\ enabled /\ mus_ok
    /\ seq' = [seq EXCEPT !.sfx = Start(track), !.sfx_on = TRUE, !.sfx_left = 0]
    /\ UNCHANGED <<reg, enabled, mus_ok, mus_buf, code>>

snd_beep ==
    /\ Rest /\ enabled
    /\ seq' = [seq EXCEPT !.sfx_on = FALSE]
    /\ code' = voice_note(BEEP_TENTHS) \o <<Wait(0, 0)>>
    /\ UNCHANGED <<reg, enabled, mus_ok, mus_buf>>

snd_toggle ==
    /\ Rest
    /\ enabled' = ~enabled
    /\ IF enabled THEN seq' = Quiet /\ code' = voice_off ELSE UNCHANGED <<seq, code>>
    /\ UNCHANGED <<reg, mus_ok, mus_buf>>

\* Only a poll lets a held voice go, and then it takes its note up again.
snd_poll ==
    /\ Rest
    /\ code' = (IF reg.held = 0 THEN <<>>
                ELSE <<Set("held", 0)>>
                     \o (IF reg.sounding = 1 /\ reg.cur_tenths # 0 THEN voice_note(reg.cur_tenths)
                         ELSE <<>>))
               \o <<Do("poll")>>
    /\ UNCHANGED <<reg, seq, enabled, mus_ok, mus_buf>>

\* A string, an overlay, a page of the briefing, a save: anything at all on this
\* machine is sectors.
Disk ==
    /\ Rest
    /\ code' = Sector
    /\ UNCHANGED <<reg, seq, enabled, mus_ok, mus_buf>>

\* snd_init, from whatever BASIC left armed, and then the tune's file.  The strings
\* have been found by then: the driver was not there to be told of it.
snd_init ==
    /\ reg \in [sounding : {0}, held : {0}, tog_div : {0}, tog_cnt : {0}, level : {0}, DAC : {0, 1},
               cur_tenths : {0}, IRQENR : {0, 1}, TMRHI : {0}, TMRLO : {0}, I : {1}]
    /\ seq = LET none == [track |-> CHOOSE t \in Music : TRUE, at |-> 1] IN
             [mus_on |-> FALSE, mus |-> none, mus_head |-> none, note_left |-> 0,
              sfx_on |-> FALSE, sfx |-> none, sfx_left |-> 0]
    /\ enabled = TRUE /\ mus_ok = FALSE
    /\ mus_buf = [t \in Tracks |-> <<>>]
    /\ code = voice_off \o <<Set("DAC", 0), Set("IRQENR", 0), Set("I", 0)>>
                        \o Sector \o <<Do("open")>>

Call ==
    \/ \E t \in Music \cup {MUS_NONE} : snd_music(t)
    \/ \E t \in Tracks \ Music : snd_effect(t)
    \/ snd_beep \/ snd_toggle \/ snd_poll \/ Disk

SoundNext == Irq \/ Mainline \/ Call
SoundSpec == snd_init /\ [][SoundNext]_sound /\ WF_sound(Mainline)

---------------------------------------------------------------------------
(* What it must keep. *)

\* Whenever the handler may run, what it reads is of one note: the divisor, its
\* count-down and the timer belong together -- though voice_note writes them one by
\* one while the last note's interrupts still fall, a long poll or a beep cuts in, and
\* the disk holds and releases the voice -- and the timer is never armed with the zero
\* that wedged the machine in a storm of interrupts.
NoteIsWhole ==
    /\ reg.sounding = 1 =>
         \E t \in Tenths \ {0} :
             /\ reg.tog_div = Divisor(t) /\ reg.tog_cnt \in 1..reg.tog_div
             /\ reg.TMRHI * 256 + reg.TMRLO = Timer(t)
    /\ reg.IRQENR = 1 /\ reg.I = 0 => reg.TMRHI + reg.TMRLO > 0

\* From the first sector until the game polls again the DAC rests low, whatever
\* interrupts fall and whatever is played meanwhile: one pause for a whole load, not a
\* square wave frozen at its top in every sector.
HeldIsSilent ==
    reg.held = 1 => reg.DAC = 0 \/ Set("DAC", 0) \in {code[i] : i \in DOMAIN code}

\* Between calls the voice is what the streams say: the effect's note while one
\* lasts, else the tune's while one lasts, and nothing when neither plays -- though
\* each stream goes on under the other, a beep takes the voice from both, and the disk
\* holds it.
Sounds(p) ==
    LET t == Pitch([p EXCEPT !.at = @ - 1]) IN
    IF t = 0 THEN reg.sounding = 0 ELSE reg.sounding = 1 /\ reg.cur_tenths = t
SpeakerIsOwned ==
    Rest => /\ seq.sfx_on /\ seq.sfx_left > 0 => Sounds(seq.sfx)
            /\ seq.mus_on /\ ~seq.sfx_on /\ seq.note_left > 0 => Sounds(seq.mus)
            /\ ~seq.mus_on /\ ~seq.sfx_on => reg.sounding = 0

\* A call under way comes nearer its end with every statement, and the interrupt
\* alone leaves it where it was: no read, poll or wait can start it over, though the
\* sectors of a load, the notes of a poll and the silence after a beep come on top of
\* what the call began with.
More(last) ==
    CASE last.do = "open" -> Len(Sector) + 1
      [] last.do = "poll" -> Len(voice_note(BEEP_TENTHS))
      [] last.do = "wait" -> Len(voice_off) + GuardSize * (BEEP_FRAMES - last.frames)
                                           + GuardSize - 1 - last.guard
      [] OTHER -> 0
StepsLeft == IF Rest THEN 0 ELSE Len(code) + More(code[Len(code)])
CallsRunDown == [][Rest \/ Irq \/ StepsLeft' \in 0 .. (StepsLeft - 1)]_sound

\* Every call returns, whatever interrupts fall and even when no frame ever comes: the
\* beep that waited on a dead frame source hung another port with its voice sounding.
CallsReturn == ~Rest ~> Rest
=============================================================================
