SPECIFICATION Spec
CHECK_DEADLOCK FALSE
CONSTANTS
    Memory = {0, 1, 2, 3, 4}
    Size = 3
    Info <- MCInfo
    Target = {1, 9}
    Request <- MCRequest
    Number = {0, 1, 2, 3}
    Reserved = 2
    Wrap = 8
    Short = 4
    Commands = 4
INVARIANTS
    TransferExact
    ReadyMeansDone
PROPERTIES
    InterruptAnswers
    TransferEnds
