CONSTANTS
  Sentinels = {"s1", "s2", "s3"}
  Instances = {"M", "X", "Y"}
  None = None
  Quorum = 2
  ParallelSyncs = 2
  Preference <- PreferenceDef
  Plays <- MCPlays
SPECIFICATION Spec
 
CHECK_DEADLOCK FALSE
PROPERTY FailoverEnds
