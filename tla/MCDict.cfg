SPECIFICATION LiveSpec
CONSTANTS
    Keys = {1, 2, 6}
    NoKey = NoKey
    Bits = 3
    InitialSize = 1
    MinFill = 30
    ForceRatio = 1
    EmptyVisits = 2
INVARIANT ScanComplete
PROPERTIES ImplementsOneKey IterExact ScanEnds
