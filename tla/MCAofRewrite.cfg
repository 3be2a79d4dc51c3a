SPECIFICATION Spec
CONSTANTS
  Dbs = {0, 1}
  StartDb = 1
  MaxCmds = 3
  Inodes = {0, 1, 2, 3}
  Policies = {"always", "everysec"}
  AppendOnly = {TRUE, FALSE}
  MaxToggles = 2
  MaxFaults = 1
  MaxChildFails = 1
INVARIANTS LogReplays RewriteReplays AckedSurvives
PROPERTIES SwitchesOn
CHECK_DEADLOCK FALSE
