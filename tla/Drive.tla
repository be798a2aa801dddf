------------------------------- MODULE Drive -------------------------------
(***************************************************************************)
(* The C128's disk seam, c128/src/storage.c, over a CBM drive.             *)
(*                                                                         *)
(* Two logical files are all the seam uses: 2 for the data and 15 for the  *)
(* drive's command channel.  The drive is external, and is modelled by     *)
(* what storage.c measured of it: closing 15 closes every other file, one  *)
(* status waits on the command channel until it is read, a file open for   *)
(* writing is not whole until it is closed, and a scratched one is gone at *)
(* once.  Any call to it may fail, and a failure sets `spoiled'.           *)
(*                                                                         *)
(* `job' is the storage routine that is running: a whole-file read, a      *)
(* whole-file write, or the one stream.  The file's bytes are abstracted   *)
(* to what was written and whether its end arrived.                        *)
(***************************************************************************)
EXTENDS Naturals

CONSTANTS Files,    \* the names on the disk
          Games,    \* what a save record says, as far as the session can tell
          Tables    \* what a hall of fame file says

VARIABLES disk,        \* each name's content
          data,        \* logical file 2: "closed", "R", "W", or "refused" by the drive
          cmd,         \* logical file 15 is open
          dos,         \* the status waiting on the command channel
          streaming,   \* storage.c's flag: 0 closed, 1 open, 2 at end of file
          job,         \* the routine running, or NoJob
          spoiled      \* the disk has failed, or lost power in a write

drive == <<disk, data, cmd, dos, streaming, job, spoiled>>
channels == <<data, cmd>>

Absent == [kind |-> "absent"]
Torn == [kind |-> "torn"]                 \* opened for writing, never closed
Text == [kind |-> "text"]                 \* the briefing: longer than io_buf
Short == [kind |-> "short"]               \* closed, with fewer bytes than were meant
SaveOf(g) == [kind |-> "save", val |-> g, end |-> "good"]
TableOf(t) == [kind |-> "table", val |-> t, end |-> "good"]

\* A read brings back a file to its last byte, or all of it but a good last
\* byte, or a short one.
Ends == {"good", "noise"}
Whole == [kind : {"save"}, val : Games, end : Ends]
            \cup [kind : {"table"}, val : Tables, end : Ends]
Contents == {Absent, Torn, Text, Short} \cup Whole

NoJob == [op |-> "none", file |-> "", pc |-> "done", value |-> Absent, ret |-> "ok"]
Job(op, file, value) ==
    [op |-> op, file |-> file, pc |-> "start", value |-> value, ret |-> "ok"]

\* The DOS code as the seam's three answers: 0, 62, and anything else.
classify(code) == IF code \in {"ok", "notfound"} THEN code ELSE "error"

At(op, pc) == job.op \in op /\ job.pc = pc
Goto(pc) == job' = [job EXCEPT !.pc = pc]
Return(answer) == job' = [job EXCEPT !.pc = "done", !.ret = answer]
Fault == spoiled' = TRUE
Sound == UNCHANGED spoiled

\* close_file and cmd_close.  The drive closes every file with 15.
CloseBoth == data' = "closed" /\ cmd' = FALSE

DriveTypeOK ==
    /\ disk \in [Files -> Contents]
    /\ data \in {"closed", "R", "W", "refused"}
    /\ cmd \in BOOLEAN
    /\ dos \in {"ok", "notfound", "other"}
    /\ streaming \in 0..2
    /\ job = NoJob \/ job \in
           [op : {"read", "write", "stream"}, file : Files,
            pc : {"start", "open", "status", "bytes", "close", "check", "done"},
            value : Contents, ret : {"ok", "notfound", "error"}]
    /\ spoiled \in BOOLEAN

DriveInit ==
    /\ data = "closed" /\ cmd = FALSE
    /\ dos = "other"                       \* the drive's power-up message
    /\ streaming = 0 /\ job = NoJob /\ spoiled = FALSE

---------------------------------------------------------------------------
(* plat_read_all and plat_open: the command channel first, then the file,  *)
(* and the status before the bytes.                                        *)

\* cmd_open.  The KERNAL refuses a logical file that is already open; with no
\* name to send the drive is not asked anything.
ReadStart ==
    /\ At({"read", "stream"}, "start")
    /\ IF cmd
       THEN CloseBoth /\ Return("error")
       ELSE cmd' = TRUE /\ Goto("open") /\ UNCHANGED data
    /\ Sound /\ UNCHANGED <<disk, dos, streaming>>

\* open_file(name, 'R').  The open answers for itself on the command channel;
\* a file never closed is refused there, like one that does not exist.
ReadOpen ==
    /\ At({"read", "stream"}, "open")
    /\ data' = "R" /\ Goto("status")
    /\ dos' = CASE disk[job.file] = Absent -> "notfound"
                [] disk[job.file] = Torn -> "other"
                [] OTHER -> "ok"
    /\ Sound /\ UNCHANGED <<disk, cmd, streaming>>

ReadOpenFails ==
    /\ At({"read", "stream"}, "open")
    /\ CloseBoth /\ Return("error")
    /\ Fault /\ UNCHANGED <<disk, dos, streaming>>

\* cmd_status: reading the status takes it off the channel.
ReadStatus ==
    /\ At({"read", "stream"}, "status")
    /\ dos' = "ok"
    /\ IF dos # "ok"
       THEN CloseBoth /\ Return(classify(dos)) /\ UNCHANGED streaming
       ELSE /\ Goto("bytes")
            /\ streaming' = IF job.op = "stream" THEN 1 ELSE streaming
            /\ UNCHANGED channels
    /\ Sound /\ UNCHANGED disk

\* The channel cannot be read: 255, and the status stays where it was.
ReadStatusFails ==
    /\ At({"read", "stream"}, "status")
    /\ CloseBoth /\ Return("error")
    /\ Fault /\ UNCHANGED <<disk, dos, streaming>>

\* Up to the buffer's length.  A file that fills it is refused.
ReadBytes ==
    /\ At({"read"}, "bytes")
    /\ CloseBoth
    /\ job' = [job EXCEPT !.pc = "done", !.value = disk[job.file],
                          !.ret = IF disk[job.file] = Text THEN "error" ELSE "ok"]
    /\ Sound /\ UNCHANGED <<disk, dos, streaming>>

\* READST is not zero for a fault either, and the loop takes any such byte for
\* the last one: a fault before the end cuts the file short with STOR_OK, and a
\* fault at the end costs the last byte only.
ReadBytesFail ==
    /\ At({"read"}, "bytes")
    /\ CloseBoth
    /\ \/ job' = [job EXCEPT !.pc = "done", !.value = Short]
       \/ /\ disk[job.file] \in Whole
          /\ job' = [job EXCEPT !.pc = "done", !.value = [disk[job.file] EXCEPT !.end = "noise"]]
       \/ Return("error")                          \* chkin
    /\ Fault /\ UNCHANGED <<disk, dos, streaming>>

\* plat_read at the end of the file.  It closes nothing.
StreamEnd ==
    streaming' = 2 /\ UNCHANGED channels

StreamRead ==
    /\ At({"stream"}, "bytes") /\ streaming = 1
    /\ StreamEnd
    /\ Sound /\ UNCHANGED <<disk, dos, job>>

\* plat_close: at the end of the file, or when the reader presses Q.
StreamClose ==
    /\ At({"stream"}, "bytes")
    /\ IF streaming = 0 THEN UNCHANGED channels ELSE CloseBoth
    /\ streaming' = 0
    /\ Return("ok")
    /\ Sound /\ UNCHANGED <<disk, dos>>

---------------------------------------------------------------------------
(* plat_write_all: scratch, open, send, close, and only then the status. *)

\* Slip: the drive's answer is not read.
ScratchUnread ==
    disk' = [disk EXCEPT ![job.file] = Absent] /\ dos' = "other" /\ Sound

\* cmd_open, scratch -- which reads the drive's answer and drops it -- and cmd_close.
\* The command may not reach the drive, or be refused by it: the old file stays, and so
\* does whatever waits on the channel when that cannot be read either.
Scratch ==
    \/ /\ disk' = [disk EXCEPT ![job.file] = Absent]
       /\ \/ dos' = "ok" /\ Sound
          \/ dos' = "other" /\ Fault               \* the answer stays queued
    \/ UNCHANGED disk /\ dos' \in {"ok", "other", dos} /\ Fault

WriteStart ==
    /\ At({"write"}, "start")
    /\ CloseBoth
    /\ IF cmd
       THEN Return("error") /\ Sound /\ UNCHANGED <<disk, dos>>
       ELSE Scratch /\ Goto("open")
    /\ UNCHANGED streaming

\* open_file(name, 'W') makes the directory entry, unclosed.  A status already
\* waiting is not replaced by a success.
WriteOpen ==
    /\ At({"write"}, "open") /\ disk[job.file] = Absent
    /\ disk' = [disk EXCEPT ![job.file] = Torn]
    /\ data' = "W" /\ Goto("bytes")
    /\ Sound /\ UNCHANGED <<cmd, dos, streaming>>

\* Either the KERNAL says so at once, or the drive refuses -- as it does a name that is
\* still there -- and the bytes will find nobody listening.
WriteOpenFails ==
    /\ At({"write"}, "open")
    /\ \/ data' = "closed" /\ Return("error") /\ UNCHANGED dos
       \/ data' = "refused" /\ Goto("bytes") /\ dos' = "other"
    /\ Fault /\ UNCHANGED <<disk, cmd, streaming>>

WriteBytes ==
    /\ At({"write"}, "bytes") /\ data = "W"
    /\ Goto("close")
    /\ Sound /\ UNCHANGED <<disk, data, cmd, dos, streaming>>

\* A byte is not taken: close_file and STOR_ERROR, and nobody reads the status.
\* What did arrive is closed as a file of its own, if the drive still answers.
WriteBytesFail ==
    /\ At({"write"}, "bytes")
    /\ data' = "closed" /\ Return("error")
    /\ dos' \in {dos, "other"}
    /\ \/ UNCHANGED disk
       \/ data = "W" /\ disk' = [disk EXCEPT ![job.file] = Short]
    /\ Fault /\ UNCHANGED <<cmd, streaming>>

\* close_file: the file becomes whole, or a full disk shows up here.
WriteClose ==
    /\ At({"write"}, "close")
    /\ data' = "closed" /\ Goto("check")
    /\ \/ disk' = [disk EXCEPT ![job.file] = job.value] /\ Sound /\ UNCHANGED dos
       \/ dos' = "other" /\ Fault /\ UNCHANGED disk
    /\ UNCHANGED <<cmd, streaming>>

\* cmd_open again, cmd_status, cmd_close.
WriteCheck ==
    /\ At({"write"}, "check")
    /\ CloseBoth
    /\ \/ Return(classify(dos)) /\ dos' = "ok" /\ Sound
       \/ Return("error") /\ Fault /\ UNCHANGED dos
    /\ UNCHANGED <<disk, streaming>>

DriveStep ==
    \/ ReadStart \/ ReadOpen \/ ReadOpenFails \/ ReadStatus \/ ReadStatusFails
    \/ ReadBytes \/ ReadBytesFail \/ StreamRead \/ StreamClose
    \/ WriteStart \/ WriteOpen \/ WriteOpenFails \/ WriteBytes \/ WriteBytesFail
    \/ WriteClose \/ WriteCheck

\* The machine or its reset goes; the drive keeps what is on the disk.
DrivePowerOff ==
    /\ CloseBoth /\ dos' = "other" /\ streaming' = 0 /\ job' = NoJob
    /\ spoiled' = (spoiled \/ job.op = "write")
    /\ UNCHANGED disk
=============================================================================
