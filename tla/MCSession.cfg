SPECIFICATION Spec
CONSTANTS
    Files <- MCFiles
    Games <- MCGames
    Tables <- MCTables
    Ranks = {1, 2}
    Scores = {1, 2}
    MaxTurns = 1
    MaxOffers = 3
INVARIANTS WindowIsLive OkIsOnDisk RecordsAreTheBest
PROPERTY RestoredIsSaved
