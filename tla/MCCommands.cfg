SPECIFICATION Spec
CONSTANTS
    Names <- TheNames
    Workloads <- TheWorkloads
    MaxSize = 3
    MaxTTL = 1
    Text = 3
    Long = 4
    MaxLen = 3
    MaxDigits = 2
    ListMaxZiplistEntries = 2
    SetMaxIntsetEntries = 2
    HashMaxZiplistEntries = 2
    MaxScore = 2
    ZsetMaxZiplistEntries = 2
INVARIANTS DbInv ReplicaFollows ModificationsSignalled ExpiredIsGone
CHECK_DEADLOCK FALSE
