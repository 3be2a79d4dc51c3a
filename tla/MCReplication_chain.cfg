CONSTANTS
  Conns = {1, 2, 3, 4}
  None = None
  Plays <- RegroupPlays
SPECIFICATION Spec
INVARIANT ContinuesInStep
CHECK_DEADLOCK FALSE
