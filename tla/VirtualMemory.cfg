SPECIFICATION WalkSpec
CHECK_DEADLOCK FALSE
CONSTANTS
    Bits = 2
    BasePage = 2
    AddressMod = 2048
    BitOr <- MCOr
    Mapped = {0, 4, 5, 7}
    Mode = {"read", "write"}
    Entry <- MCEntry
    Control <- MCControl
    Root = {0, 4}
    Address = {3, 31, 1024}
    Length = {1, 2}
    Operations = 4
INVARIANTS
    AccessAsTabled
    ValidatesAsTabled
