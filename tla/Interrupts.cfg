SPECIFICATION FairSpec
CONSTANTS
    Device = {"device"}
    Numbers = {"UNHANDLED_INTERRUPT", "device"}
    Code = {"main", "other"}
    After <- MCAfter
    Sentry = "other"
    Handler <- MCHandler
    Unit = 2
    AddrMod = 32
    Base = 2
    Tops = {12}
    Pointers = {2, 3}
    Mapped = {2, 4, 6, 8, 10}
    Validated = {2, 4, 6, 8}
    Unwalkable = {10}
    Registers = 2
    Descriptors <- MCDescriptors
CHECK_DEADLOCK FALSE
INVARIANTS
    CrashNeedsCause
    FrameWhole
PROPERTIES
    UserLeaves
    DeliveryEnds
