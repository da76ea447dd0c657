SPECIFICATION KillFairSpec
CONSTANTS
    Addr <- MCAddr
    Entry = 0
    Succ <- MCSucc
    DebugEnabled = FALSE
    Handler = 1
CHECK_DEADLOCK FALSE
PROPERTIES
    KillCompletes
    ExecutionResumes
