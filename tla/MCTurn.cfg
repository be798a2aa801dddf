SPECIFICATION Spec
CONSTANTS
    Quads <- MCQuads
    NoBolt = NoBolt
    MaxEntries = 12
    MaxDue = 4
    Ships = 2
    Crew = 2
    RoundsPer = 2
    DeadlyHits = 1
    Bolts = TRUE
    MaxStarHits = 1
INVARIANTS BoltIsFresh LossIsTold
PROPERTIES EnemyHasRoom NoLivesLostLightly CasualtiesFinal
