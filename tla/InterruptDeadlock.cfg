SPECIFICATION FairSpec
CONSTANTS
    Thread = {t1, t2, t3}
    Kinds = {"StorageTransfer"}
    QueueBound = 2
    Interrupts = TRUE
    Faults = FALSE
CHECK_DEADLOCK FALSE
PROPERTIES
    InterruptStops
