CONSTANTS
    c1 = c1
    c2 = c2
    c3 = c3
    m = m
    x = x
    y = y
    NoKey = NoKey
    Text = Text
    None = None
    Clients = {c1, c2, c3, m}
    Keys = {x, y}
    Channels = {"news", "more"}
    OutLimit = 4
    Plays <- LatePlays
SPECIFICATION Spec
CHECK_DEADLOCK FALSE
INVARIANT CopyAgrees
