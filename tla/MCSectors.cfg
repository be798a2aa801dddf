SPECIFICATION Spec
CONSTANTS
    GAL_DIM = 2
    QUAD_DIM = 3
    Stars <- MCStars
    Ships <- MCShips
    Led <- MCLed
    Bases <- MCBases
    Worlds <- MCWorlds
    PodMaxShips = 1
    MaxHp = 2
    MaxThings = 3
    Spots <- MCSpots
    Berths <- MCBerths
INVARIANTS SectorsAgree SectorsAsCharted MovesOnTheLine
