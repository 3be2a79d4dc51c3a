CONSTANTS
    c1 = c1
    c2 = c2
    c3 = c3
    m = m
    x = x
    y = y
    NoKey = NoKey
    Text = Text
    None = None
    Clients = {c1, c2, c3, m}
    Keys = {x, y}
    Channels = {"news", "more"}
    OutLimit = 4
    Plays <- MCPlays
SPECIFICATION LiveSpec
INVARIANTS NobodyWaits WatchSees ElementsOnce CopyAgrees ListsAgree
PROPERTY Answered
CHECK_DEADLOCK FALSE
