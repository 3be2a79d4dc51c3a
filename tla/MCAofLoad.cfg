SPECIFICATION Spec
CONSTANTS
  MaxCmds = 4
  MaxLosses = 2
  LoadTruncated = {TRUE, FALSE}
INVARIANTS FileIsData DurableKept
PROPERTIES FixedFileLoads
CHECK_DEADLOCK FALSE
