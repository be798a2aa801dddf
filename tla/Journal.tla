------------------------------- MODULE Journal -------------------------------
(***************************************************************************)
(* What the console promises of its messages: a permanent record of the    *)
(* latest ones, and in front of it a queue of those that await             *)
(* acknowledgement.  Acknowledging never touches the record.  One thing it *)
(* cannot promise: a box that outlives its message's place in the record   *)
(* goes on to show the message that took the place.                        *)
(***************************************************************************)
EXTENDS Naturals, Sequences

CONSTANTS
    Kept,           \* the messages the record keeps
    Boxes           \* the messages the queue shows

VARIABLES
    last,           \* the number of the latest message
    held,           \* how many of the latest the record still holds
    queue           \* the messages on the screen, oldest first

Init == last = 0 /\ held = 0 /\ queue = <<>>

\* The record's oldest message gives its place to the new one.
Displaced(m) == IF held = Kept /\ m = last + 1 - Kept THEN last + 1 ELSE m
Shifted == IF Len(queue) = Boxes THEN Tail(queue) ELSE queue

Post ==
    /\ last' = last + 1
    /\ held' = IF held < Kept THEN held + 1 ELSE held
    /\ queue' = Append([i \in DOMAIN Shifted |-> Displaced(Shifted[i])], last + 1)

Drop(n) == [i \in 1 .. (Len(queue) - 1) |-> IF i < n THEN queue[i] ELSE queue[i + 1]]

Acknowledge ==
    /\ \/ queue' = <<>>
       \/ \E n \in DOMAIN queue : queue' = Drop(n)
    /\ UNCHANGED <<last, held>>

\* A new game.
Clear == held' = 0 /\ queue' = <<>> /\ last' = last

Next == Post \/ Acknowledge \/ Clear

Spec == Init /\ [][Next]_<<last, held, queue>>
=============================================================================
