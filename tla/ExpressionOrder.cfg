SPECIFICATION Spec
CHECK_DEADLOCK FALSE
CONSTANTS
    ByteBits = 2
    Sources <- MCExpressions
INVARIANT ExpressionsEvaluate
