SPECIFICATION Spec
CONSTANTS
  t1 = t1
  t2 = t2
  Turn = {t1, t2}
  Read <- MCRead
  Message <- MCMessage
  Correction <- MCCorrection
  Register <- MCRegister
  MaxTurns = 4
  MaxTaps = 2
  None = None
SYMMETRY TurnSymmetry
PROPERTIES TestimonyWasAsked KeptOnceOnTestimony SettledStands
CHECK_DEADLOCK FALSE
