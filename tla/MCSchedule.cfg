SPECIFICATION FairSpec
CONSTANTS
    Dim = 2
    Never = 20
    MaxEvents = 16
    MaxLost = 255
    Start = 1
    Horizon = 9
    Level = 5
    ReinfLevel = 5
    DistressLevel = 3
    HailBox = 4
    HailRange = 1
    Layouts <- MCLayouts
    Settlements <- MCSettlements
    Starry <- MCStarry
    MoveTimes <- MCTimes
    Waits <- MCWaits
    FirstDelays <- MCOne
    AttackDelays <- MCOne
    FallDelays <- MCSpread
    DistressDelays <- MCTwo
    EvacDelays <- MCTwo
    ReinfFirst <- MCTwo
    ReinfAgain <- MCTwo
    HailDelays <- MCOne
INVARIANTS SiegeHasDeadline HailHasDate NothingOverdue
PROPERTIES PromiseKept ImplementsBases OverdueSiegeDecided
