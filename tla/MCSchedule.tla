----------------------------- MODULE MCSchedule -----------------------------
(* A two-by-two galaxy for Schedule: small charts, short delays.           *)
EXTENDS Schedule

\* Quadrants 0 1 / 2 3.  A StarBase and a supply depot, or two StarBases in
\* opposite corners (out of each other's hailing range).
Chart(stars, depots) ==
    [q \in Quads |-> IF q \in stars THEN "starbase"
                     ELSE IF q \in depots THEN "supply" ELSE "none"]
MCLayouts == {Chart({0}, {1}), Chart({0, 3}, {})}
MCSettlements == {2, NoQuad}
MCStarry == {0, 2}
MCOne == {1}
MCTwo == {2}
MCTimes == {0, 2}
MCWaits == {3}
MCSpread == {1, 2}
=============================================================================
