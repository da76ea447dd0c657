SPECIFICATION FairSpec
CONSTANTS
    Thread = {t1, t2, t3}
    Kinds = {"SwitchToIP"}
    QueueBound = 0
    Interrupts = FALSE
    Faults = TRUE
CHECK_DEADLOCK FALSE
PROPERTIES
    JumpAnswered
