SPECIFICATION Spec
CONSTANTS
    Word = 65536
    Trips <- MCTrips
    Waits <- MCWaits
    Costs <- MCCosts
    Volleys <- MCVolleys
    Crystals <- MCCrystals
    Docks <- MCDocks
    Wounds <- MCWounds
    Strains <- MCStrains
    Others <- MCOthers
    Horizon = 29
    MaxOrders = 4
INVARIANTS TimeConserved
PROPERTIES FocusStarves LifeLossJustified
