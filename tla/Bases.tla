------------------------------- MODULE Bases -------------------------------
(***************************************************************************)
(* What the galaxy promises about its bases, without a clock: a base       *)
(* stands until the Mongols take it or its star goes up, at most one base  *)
(* is besieged at a time, a siege ends in relief, in the fall of the base  *)
(* or in fire, and only a fall is counted against the captain and brings   *)
(* the next raid.  Schedule implements this with dates in slots.           *)
(***************************************************************************)
EXTENDS Naturals

CONSTANTS
    Quads,      \* the quadrants of the galaxy
    Nowhere,    \* the mark for "no base is besieged"
    MaxFallen   \* where the count of fallen bases stops (an 8-bit counter)

VARIABLES
    standing,   \* the quadrants whose base still stands
    besieged,   \* the quadrant under siege, or Nowhere
    threat,     \* "raid": an attack is coming; "siege": one is on; "none"
    fallen      \* the bases lost to the Mongols

vars == <<standing, besieged, threat, fallen>>

Init ==
    /\ standing \in SUBSET Quads
    /\ besieged = Nowhere
    /\ threat = "raid"
    /\ fallen = 0

Lifted ==
    /\ besieged' = Nowhere
    /\ threat' = "none"

Besiege ==
    /\ threat = "raid"
    /\ besieged' \in standing
    /\ threat' = "siege"
    /\ UNCHANGED <<standing, fallen>>

\* An attack whose hour comes when no base is left.
Dissolve ==
    /\ threat = "raid"
    /\ standing = {}
    /\ threat' = "none"
    /\ UNCHANGED <<standing, besieged, fallen>>

Relief ==
    /\ threat = "siege"
    /\ Lifted
    /\ UNCHANGED <<standing, fallen>>

Fall ==
    /\ threat = "siege"
    /\ standing' = standing \ {besieged}
    /\ fallen' = IF fallen < MaxFallen THEN fallen + 1 ELSE fallen
    /\ besieged' = Nowhere
    /\ threat' = "raid"

\* A star goes up; the explosion may throw the ship to a besieged base,
\* which relieves it in the same breath.
Burn(q) ==
    /\ standing' = standing \ {q}
    /\ \/ besieged # q /\ UNCHANGED <<besieged, threat>>
       \/ threat = "siege" /\ Lifted
    /\ UNCHANGED fallen

NewGame ==
    /\ standing' \in SUBSET Quads
    /\ besieged' = Nowhere
    /\ threat' = "raid"
    /\ fallen' = 0

Next ==
    \/ Besiege \/ Dissolve \/ Relief \/ Fall
    \/ \E q \in Quads : Burn(q)
    \/ NewGame

Spec == Init /\ [][Next]_vars

=============================================================================
