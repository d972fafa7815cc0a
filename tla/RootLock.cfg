CONSTANTS
    Process = {p1, p2, p3}
    Inode = {i1, i2, i3}
    None = None
    Tries = 2
SPECIFICATION FairSpec
INVARIANT NothingLeft
PROPERTY IsMutex Returns

