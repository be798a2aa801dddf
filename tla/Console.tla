------------------------------- MODULE Console -------------------------------
(***************************************************************************)
(* The messages of c128/src/ui.c.  Their text lives once, in a ring of     *)
(* LOG_SLOTS entries; the panel keeps the ring slots of the boxes on the   *)
(* screen and, beside them, the colour each box was given; MSGS shows the  *)
(* ring from its oldest entry to its newest, two lines to an entry, through*)
(* a window it scrolls by lines.                                           *)
(*                                                                         *)
(* A message is its number, in the order they were posted.                 *)
(***************************************************************************)
EXTENDS Integers, Sequences

CONSTANTS
    LOG_SLOTS,      \* entries of the ring, 32
    MSG_SLOTS,      \* boxes of the panel, 4, or 2 on a 40-column screen
    MSGV_LINES,     \* lines of the MSGS window
    Colours,        \* what a message may be posted with; 0: its department's
    MaxPosts        \* BOUND on the messages posted

PER_ENTRY == 2      \* MSGV_PER_ENTRY

ASSUME ConsoleAssumption ==
    /\ LOG_SLOTS \in Nat \ {0} /\ MSG_SLOTS \in Nat \ {0} /\ MSGV_LINES \in Nat \ {0}
    /\ 0 \in Colours /\ Colours \subseteq Nat
    /\ MaxPosts \in Nat

VARIABLES
    log, log_head, log_count,
    panel_slot, slot_colour, msg_count,
    top,                    \* the MSGS window's first line; -1: it is closed
    posted                  \* HISTORY: the number of the latest message

ring   == <<log, log_head, log_count>>
panel  == <<panel_slot, slot_colour, msg_count>>
console   == <<ring, panel, top, posted>>

Ring  == 0 .. (LOG_SLOTS - 1)
Boxes == 1 .. MSG_SLOTS

ConsoleInit ==
    /\ log = [s \in Ring |-> 0] /\ log_head = 0 /\ log_count = 0
    /\ panel_slot = [b \in Boxes |-> 0] /\ slot_colour = [b \in Boxes |-> 0]
    /\ msg_count = 0 /\ top = -1
    /\ posted = 0

Command == top = -1

-----------------------------------------------------------------------------
(* Messages *)

\* The box that scrolls off takes its place and its colour along.
Scrolled(f) == [b \in Boxes |-> IF msg_count = MSG_SLOTS /\ b < MSG_SLOTS
                                THEN f[b + 1] ELSE f[b]]
Room == IF msg_count = MSG_SLOTS THEN msg_count - 1 ELSE msg_count

\* log_append.
Append1 ==
    /\ log' = [log EXCEPT ![log_head] = posted + 1]
    /\ log_head' = (log_head + 1) % LOG_SLOTS
    /\ log_count' = IF log_count < LOG_SLOTS THEN log_count + 1 ELSE log_count

\* ui_message_col; ui_message is colour 0.
Message(c) ==
    /\ Command /\ posted < MaxPosts
    /\ Append1
    /\ panel_slot'  = [Scrolled(panel_slot)  EXCEPT ![Room + 1] = log_head]
    /\ slot_colour' = [Scrolled(slot_colour) EXCEPT ![Room + 1] = c]
    /\ msg_count' = Room + 1
    /\ posted' = posted + 1
    /\ UNCHANGED top

\* ui_ack(n): n = 0 clears the panel; the boxes below the n-th move up.
AckAll ==
    /\ Command /\ msg_count' = 0
    /\ UNCHANGED <<ring, panel_slot, slot_colour, top, posted>>

\* (mutant: the last box does not move up)
AckOffByOne(n) ==
    /\ Command /\ n \in 1 .. msg_count
    /\ panel_slot' = [b \in Boxes |-> IF n <= b /\ b < msg_count - 1
                                      THEN panel_slot[b + 1] ELSE panel_slot[b]]
    /\ msg_count' = msg_count - 1
    /\ UNCHANGED <<ring, slot_colour, top, posted>>

Ack(n) ==
    /\ Command /\ n \in 1 .. msg_count
    /\ panel_slot' = [b \in Boxes |-> IF n <= b /\ b < msg_count
                                      THEN panel_slot[b + 1] ELSE panel_slot[b]]
    /\ msg_count' = msg_count - 1
    /\ UNCHANGED <<ring, slot_colour, top, posted>>

\* (mutant: the head of the ring is forgotten)
ClearCountsOnly ==
    /\ Command
    /\ msg_count' = 0 /\ log_count' = 0
    /\ UNCHANGED <<log, log_head, panel_slot, slot_colour, top, posted>>

\* ui_clear_messages, for a new game.
ClearMessages ==
    /\ Command
    /\ msg_count' = 0 /\ log_count' = 0 /\ log_head' = 0
    /\ UNCHANGED <<log, panel_slot, slot_colour, top, posted>>

\* msg_box: what box b shows.
Shown(b) == log[panel_slot[b]]

-----------------------------------------------------------------------------
(* MSGS *)

Total == log_count * PER_ENTRY
Bottom == IF Total > MSGV_LINES THEN Total - MSGV_LINES ELSE 0

OpenView == Command /\ top' = Bottom /\ UNCHANGED <<ring, panel, posted>>
Up   == top > 0 /\ top' = top - 1 /\ UNCHANGED <<ring, panel, posted>>
Down == /\ top >= 0 /\ Total > MSGV_LINES /\ top < Total - MSGV_LINES
        /\ top' = top + 1
        /\ UNCHANGED <<ring, panel, posted>>
CloseView == top >= 0 /\ top' = -1 /\ UNCHANGED <<ring, panel, posted>>

\* log_fetch: the n-th entry from the oldest still held.
Fetch(n) == log[IF log_count < LOG_SLOTS THEN n ELSE (log_head + n) % LOG_SLOTS]

\* msgv_draw: the message on line r of the window, 0 for an empty line.
Line(r) == IF top + r >= Total THEN 0 ELSE Fetch((top + r) \div PER_ENTRY)

Player == OpenView \/ Up \/ Down \/ CloseView \/ AckAll
          \/ \E n \in Boxes : Ack(n)

ConsoleNext == (\E c \in Colours : Message(c)) \/ ClearMessages \/ Player

ConsoleSpec == ConsoleInit /\ [][ConsoleNext]_console

-----------------------------------------------------------------------------
(* Properties *)

\* The types of everything above; MSGS is never scrolled past the last full
\* window of the record.
ConsoleTypeOK ==
    /\ log \in [Ring -> Nat] /\ log_head \in Ring /\ log_count \in 0 .. LOG_SLOTS
    /\ panel_slot \in [Boxes -> Ring] /\ slot_colour \in [Boxes -> Colours]
    /\ msg_count \in 0 .. MSG_SLOTS
    /\ top \in -1 .. Bottom
    /\ posted \in Nat

\* The ring and the panel behave as the record and the queue: a box shows its
\* own message through any run of acknowledgements and new messages, to the
\* very message that takes its place in the record, and acknowledging loses
\* nothing.
J == INSTANCE Journal WITH
        Kept <- LOG_SLOTS, Boxes <- MSG_SLOTS, last <- posted, held <- log_count,
        queue <- [b \in 1 .. msg_count |-> Shown(b)]
ImplementsJournal == J!Spec

\* The record holds the latest messages, oldest first and none twice, across
\* the wrap of the ring and after a new game has begun in the middle of it; and
\* that is what MSGS draws, line by line, wherever it is scrolled to.
RecordIsTheLatest ==
    /\ \A n \in 0 .. (log_count - 1) : Fetch(n) = posted - log_count + 1 + n
    /\ top >= 0 =>
          \A r \in 0 .. (MSGV_LINES - 1) :
              top + r < Total =>
                Line(r) = posted - log_count + 1 + (top + r) \div PER_ENTRY
=============================================================================
