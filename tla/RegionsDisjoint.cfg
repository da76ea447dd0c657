SPECIFICATION Spec
CONSTANTS
    AddrMod = 12
    Page = 2
    SysStart = 9
    SysEnd = 10
    BIOSStart = 6
    RAMSize = 8
    Device = {}
    PortSize <- MCPortSize
    Frame = "frame"
    FrameSizes = {}
    RAMRegions <- MCRAM
    Bases = {0}
    MaxRegions = 5
    MaxDrift = 0
INVARIANTS
    RegionsDisjoint
CHECK_DEADLOCK FALSE
