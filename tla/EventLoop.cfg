SPECIFICATION FairSpec
CONSTANTS
    Thread = {t1, t2, t3}
    Kinds = {"SwitchToIP", "NewMMU", "StorageTransfer"}
    QueueBound = 3
    Interrupts = TRUE
    Faults = TRUE
CHECK_DEADLOCK FALSE
INVARIANTS
    OneActive
    HandOverPending
PROPERTIES
    ReplacedWhenStopped
    JumpsComplete
