SPECIFICATION FetchSpec
CONSTANTS
    Line = 4
    Slots = 3
    MMU <- MCMMU
    Physical = "physical"
    Reset = 0
    Last = 15
    Mapped <- MCMapped
    Through <- MCThrough
    Size <- MCSize
    Mode <- MCMode
    Target = {0, 6}
    Handler = 8
CHECK_DEADLOCK FALSE
INVARIANTS
    RightInstruction
    KeptOnce
