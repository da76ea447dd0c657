SPECIFICATION Spec
CONSTANTS
  Main = "main"
  Sources <- MCCommentPrograms
  Letter <- MCLetters
  Digit <- MCDigits
  Lower <- MCLower
  Instructions <- MCInstructions
  Reserved <- MCReserved
CHECK_DEADLOCK FALSE
INVARIANT CommentsRemovable
