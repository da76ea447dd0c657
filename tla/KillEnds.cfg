SPECIFICATION KillFairSpec
CONSTANTS
    Addr <- OneAddr
    Entry = 0
    Succ <- OneSucc
    DebugEnabled = TRUE
    Handler = 0
CHECK_DEADLOCK FALSE
PROPERTIES
    KillEnds
