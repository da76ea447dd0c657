SPECIFICATION Spec
CONSTANTS
    AddrMod = 12
    Page = 2
    SysStart = 9
    SysEnd = 10
    BIOSStart = 6
    RAMSize = 4
    Device = {"console"}
    PortSize <- MCPortSize
    Frame = "frame"
    FrameSizes = {2}
    RAMRegions <- MCRAM
    Bases = {0, 1, 3, 8, 10}
    MaxRegions = 5
    MaxDrift = 2
INVARIANTS
    ControlServes
    NewestServes
    ListedAreLive
    ValidatedIsMapped
PROPERTIES
    DeletedTwiceAfterError
CHECK_DEADLOCK FALSE
