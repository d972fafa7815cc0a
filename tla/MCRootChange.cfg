CONSTANTS
    Package = {"app"}
    Version = {1, 2, 3}
    Path = {1, 2}
    Content = {"a", "b", "c", "u"}
    Missing = Missing
    Key = {"k1", "k2"}
    NoKey = NoKey
    Ships <- OneShips
    Config <- OneConfig
    Signer <- OneSigner
    InitDisk <- Disks
    Edit = {"u"}
    MaxAside = 1
    MaxEdited = 1
    MaxRaced = 1
SPECIFICATION Spec
CONSTRAINT Bounded Named
INVARIANT RollbackTruth CutResumes
PROPERTY Committed EditSurvives DoneAsSaid
