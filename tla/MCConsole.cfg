SPECIFICATION ConsoleSpec
CONSTANTS
    Colours <- MCColours
    LOG_SLOTS = 4
    MSG_SLOTS = 3
    MSGV_LINES = 3
    MaxPosts = 7
INVARIANTS RecordIsTheLatest
PROPERTY ImplementsJournal
