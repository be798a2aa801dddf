SPECIFICATION Spec
CONSTANTS
    Dim = 2
    PodColumn = 1
    PodMaxShips = 2
    ReinfColumn = 0
    Forces <- MCForces
    Reinforced = TRUE
    Charts <- MCCharts
    Starry <- MCStarry
    MaxBrought = 7
INVARIANTS SectorWithinChart AshesAreEmpty
PROPERTIES ImplementsMuster
