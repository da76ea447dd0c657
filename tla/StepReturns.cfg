SPECIFICATION FairSpec
CONSTANTS
    Addr <- OneAddr
    Entry = 0
    Succ <- OneSucc
    DebugEnabled = TRUE
CHECK_DEADLOCK FALSE
PROPERTIES
    StepReturns
