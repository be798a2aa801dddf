SPECIFICATION Spec
CHECK_DEADLOCK FALSE
CONSTANTS
    planet_count = 2
    GAL_DIM = 1
    Quads <- MCQuads
    QUAD_DIM = 3
    Cells <- MCCells
    Galaxies <- MCGalaxies
    Calls <- MCCalls
    Warnings <- MCWarnings
    SCHED_NEVER = 9
    SHUTTLE_TENTHS = 1
    ENERGY_MAX = 1
    IMPULSE_MAX = 0
    SHIELD_MAX = 1
    ENERGIUM_BELOW = 1
    SHIELDS_BELOW = 1
    EnergyGains <- MCEnergyGains
    ShieldGains <- MCShieldGains
    DefectLosses <- MCOne
    Hits <- MCOne
    ITEM_CAP = 2
    MaxDate = 1
INVARIANTS OrbitIsReal
PROPERTIES OneGiftPerWorld TellsNoMoreThanItTakes ImplementsEvacuation
