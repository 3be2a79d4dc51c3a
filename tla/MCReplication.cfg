CONSTANTS
  Conns = {1, 2, 3, 4}
  None = None
  Plays <- MCPlays
SPECIFICATION LiveSpec
INVARIANTS StreamFaithful AckedIsHeld DirtyCounts
CHECK_DEADLOCK FALSE
PROPERTY CatchUp
