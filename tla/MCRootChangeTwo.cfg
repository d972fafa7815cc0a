CONSTANTS
    Package = {"app", "lib"}
    Version = {1, 2}
    Path = {1, 2}
    Content = {"a", "b", "l", "m", "u"}
    Missing = Missing
    Key = {"k1"}
    NoKey = NoKey
    Ships <- TwoShips
    Config <- NoConfig
    Signer <- OneKey
    InitDisk <- Disks
    Edit = {"u"}
    MaxAside = 0
    MaxEdited = 0
    MaxRaced = 1
SPECIFICATION Spec
CONSTRAINT Bounded
PROPERTY OthersSpared
