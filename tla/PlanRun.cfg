CONSTANTS
    Package = {"app", "lib", "base"}
    Version = {1, 2}
    None = None
    Foreign = Foreign
    Key = {"k1", "k2"}
    NoKey = NoKey
    Signer <- MCSigner
    Needs <- MCNeeds
    Given <- MCGiven
    InitDisk <- MCDisk
    InitOffered <- MCOffered
    Depth = 3
    Room = 1
SPECIFICATION FairSpec
INVARIANT Closed
PROPERTY NeedsMet RestoreTold TrustChanges Returns
