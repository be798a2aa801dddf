------------------------------- MODULE MCFleet -------------------------------
(* A two-by-two galaxy for Fleet: at most three ships to a quadrant.       *)
EXTENDS Fleet

\* Quadrants 0 1 / 2 3; one led siege, or two small forces.
MCCharts == {
    [ships |-> [q \in Quads |-> IF q = 1 THEN 3 ELSE 0],
     led   |-> [q \in Quads |-> IF q = 1 THEN 1 ELSE 0]],
    [ships |-> [q \in Quads |-> IF q = 0 THEN 2 ELSE IF q = 3 THEN 1 ELSE 0],
     led   |-> [q \in Quads |-> IF q = 0 THEN 1 ELSE 0]] }
MCStarry == {0, 1, 2}
MCForces == {2}
=============================================================================
