SPECIFICATION FairSpec
CONSTANTS
    Thread = {t1, t2, t3}
    Kinds = {"SwitchToIP", "StorageTransfer"}
    QueueBound = 2
    Interrupts = FALSE
    Faults = FALSE
CHECK_DEADLOCK FALSE
PROPERTIES
    ParkedResumes
