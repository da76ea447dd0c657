SPECIFICATION Spec
CHECK_DEADLOCK FALSE
CONSTANTS
    Word = 4096
    BlockSize = 4
    Stale = 2
    Reg <- MCReg
    Programs <- MCPrograms
INVARIANTS DecodesAsWritten AddressAsWritten ListingReads
PROPERTY ImplementsLinking
