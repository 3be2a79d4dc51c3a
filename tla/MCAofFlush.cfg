SPECIFICATION Spec
CONSTANTS
  c1 = c1
  c2 = c2
  Clients = {c1, c2}
  MaxCmds = 2
  MaxPipeline = 1
  Rec = 2
  Policies = {"always", "everysec", "no"}
  NoFsyncOnRewrite = TRUE
  FsyncMayFail = FALSE
  MaxFaults = 1
  MaxRewrites = 1
INVARIANTS LogExact AckedDurable BoundedDelay
PROPERTIES WritesResume BufferDrains
CHECK_DEADLOCK FALSE
