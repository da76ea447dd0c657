SPECIFICATION Spec
CONSTANTS
  Main = "main"
  Sources <- MCSources
  Letter <- MCLetters
  Digit <- MCDigits
  Lower <- MCLower
  Instructions <- MCInstructions
  Reserved <- MCReserved
CHECK_DEADLOCK FALSE
INVARIANT TokensAsWritten
INVARIANT LinesReported
