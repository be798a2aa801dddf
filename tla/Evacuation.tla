------------------------------ MODULE Evacuation ------------------------------
(***************************************************************************)
(* What the planet chain promises about the settlers of a galaxy: there is *)
(* one settlement at most; it is called for at most once, and the date it  *)
(* gives then stands; it is saved at most once, in time, and never out of  *)
(* a quadrant that has burnt.                                              *)
(***************************************************************************)
EXTENDS Integers

CONSTANTS Dates, Open     \* Open: no date has been given

VARIABLES today,
          fate,           \* "none", "there", "saved", "burnt"
          deadline,
          saved           \* how many times they were taken off

vars == <<today, fate, deadline, saved>>

Init == /\ today \in Dates /\ fate \in {"none", "there"}
        /\ deadline = Open /\ saved = 0

Pass == /\ today' \in Dates /\ today' > today
        /\ UNCHANGED <<fate, deadline, saved>>

\* The turn that calls may be the turn the star explodes in.
CallForHelp == /\ fate = "there" /\ deadline = Open
               /\ deadline' \in Dates /\ deadline' >= today
               /\ fate' \in {"there", "burnt"}
               /\ UNCHANGED <<today, saved>>

Burn == fate = "there" /\ fate' = "burnt" /\ UNCHANGED <<today, deadline, saved>>

Save == /\ fate = "there" /\ today <= deadline
        /\ fate' = "saved" /\ saved' = saved + 1
        /\ UNCHANGED <<today, deadline>>

Next == Pass \/ CallForHelp \/ Burn \/ Save

Spec == Init /\ [][Next]_vars
=============================================================================
