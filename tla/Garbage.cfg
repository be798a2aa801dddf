SPECIFICATION Spec
CONSTANTS
    Names <- MCNames
    Lens <- MCLens
    NUM_GRAN = 4
    SEC_SIZE = 2
    GRAN_SECS = 2
    Slots = 3
    PoolGran = 1
    PoolSecs = 2
    MaxWrites = 3
INVARIANT NoEntryPointsAtGarbage
