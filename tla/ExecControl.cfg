SPECIFICATION FairSpec
CONSTANTS
    Addr <- MCAddr
    Entry = 0
    Succ <- MCSucc
    DebugEnabled = TRUE
CHECK_DEADLOCK FALSE
INVARIANTS
    PauseHolds
    StepBound
    NoStaleRequest
PROPERTIES
    BreakpointStops
    OnlyOverwritten
    EventsReachPrompt
    ContinueProgresses
