SPECIFICATION Spec
CONSTANTS
    Addr <- MCAddr
    Entry = 0
    Succ <- MCSucc
    DebugEnabled = TRUE
CHECK_DEADLOCK FALSE
INVARIANTS
    DeletedStaysDeleted
