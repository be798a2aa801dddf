------------------------------ MODULE MCPlanets ------------------------------
EXTENDS Planets, TLC

\* Two quadrants, each a row of its own; of a 3x3 grid two neighbours and a
\* sector out of their reach.
MCQuads == {0, 1}
MCCells == {0, 1, 8}
MCGalaxies ==
    {[quad |-> (0 :> 0 @@ 1 :> 1), find |-> (0 :> "ENERGIUM" @@ 1 :> "MONGOL")],
     [quad |-> (0 :> 1 @@ 1 :> 0), find |-> (0 :> "NOTHING" @@ 1 :> "ENERGIUM")]}
\* The settlers call at once, after a while, or never.
MCCalls == {0, 1, 9}
MCWarnings == {0}
\* A crystal brings more than the banks hold.
MCEnergyGains == {2}
MCShieldGains == {1}
MCOne == {1}
=============================================================================
