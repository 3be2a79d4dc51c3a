SPECIFICATION Spec
CONSTANTS
  Nodes <- NodesDef
  Slots = {1, 2, 3}
  Keys = {"k", "l"}
  None = "none"
  IdOf <- IdOfDef
  SlotOf <- SlotOfDef
  FullCoverage = TRUE
  Barrier = 1
  Clients = {"c"}
  Plays <- MCPlays
INVARIANTS OneWinnerPerEpoch KeysHaveOneHome
PROPERTIES ManualKeepsWrites ClusterSettles
CHECK_DEADLOCK FALSE
