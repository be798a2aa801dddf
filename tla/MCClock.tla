------------------------------ MODULE MCClock ------------------------------
(* A move that leaves half a tenth behind, one that is over at once, and a  *)
(* wait long enough to matter to a 16-bit product: two such moves, or one  *)
(* and the wait, outlast the life support reserve.  The smaller bill is    *)
(* also what a warp that goes nowhere may cost.  A Research Station and a  *)
(* Supply base are the same to the clock.                                  *)
EXTENDS Clock
MCTrips == {0, 115}
MCWaits == {17}
MCCosts == {1000, 4500}
MCVolleys == {4500}
MCCrystals == {5000}
MCDocks == {"starbase", "supply"}
MCStrains == {30}
MCWounds == {0}
MCOthers == {}
=============================================================================
