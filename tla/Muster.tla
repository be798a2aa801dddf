------------------------------- MODULE Muster -------------------------------
(***************************************************************************)
(* What the galaxy promises about the Mongol fleet, without quadrants: the *)
(* ships afloat only die by the captain's hand, and are then counted on    *)
(* the score sheet one for one, or in a burning star, and are then counted *)
(* nowhere; reinforcements come in strength or not at all.  What the       *)
(* captain still owes is never more than what is afloat.                   *)
(***************************************************************************)
EXTENDS Integers

CONSTANTS Strengths,    \* the sizes a force of reinforcements may have
          MaxFleet      \* the largest fleet a new galaxy may hold

VARIABLES
    afloat,     \* the Mongol ships in the galaxy
    scored,     \* the kills on the score sheet
    owed        \* the kills the mission still asks for

vars == <<afloat, scored, owed>>

Init == afloat \in 0 .. MaxFleet /\ scored = 0 /\ owed = afloat

\* Some ships die and are scored; what is owed falls as far as it can.
Kill(n) ==
    /\ n <= afloat
    /\ afloat' = afloat - n
    /\ scored' = scored + n
    /\ owed' = IF owed > n THEN owed - n ELSE 0

\* A star takes its quadrant's ships; the captain is let off, not paid.
Burn(n) ==
    /\ n <= afloat
    /\ afloat' = afloat - n
    /\ owed' = IF owed > n THEN owed - n ELSE 0
    /\ UNCHANGED scored

Reinforce(n) ==
    /\ afloat' = afloat + n
    /\ owed' = owed + n
    /\ UNCHANGED scored

\* The death ray writes ships off that the galaxy still has.
WriteOff(n) ==
    /\ owed' = IF owed > n THEN owed - n ELSE 0
    /\ UNCHANGED <<afloat, scored>>

NewGame == afloat' \in 0 .. MaxFleet /\ scored' = 0 /\ owed' = afloat'

Next ==
    \/ \E n \in 1 .. afloat : Kill(n) \/ Burn(n) \/ WriteOff(n)
    \/ \E n \in Strengths : Reinforce(n)
    \/ NewGame

Spec == Init /\ [][Next]_vars

=============================================================================
