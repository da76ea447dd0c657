SPECIFICATION Spec
CHECK_DEADLOCK FALSE
CONSTANTS
    ByteBits = 2
    Sources <- MCSources
INVARIANTS ParsesAsWritten ReferencesSurvive PointersFresh ExpressionValue
