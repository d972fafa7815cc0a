SPECIFICATION Spec
CONSTANTS
    r1 = r1
    Runs = {r1, r2}
    r2 = r2
    MaxVersion = 3
    MaxSpoils = 1
    MaxKills = 1
    MaxRefusals = 2
    Fetchers = {r1, r2}
    Absent = Absent
    MaxFetches = 3
    MaxMoves = 1
    MaxLosses = 1
    None = None
    Bad = Bad
    Huge = Huge
    Cleared = Cleared
    Unknown = Unknown
    Generic = Generic
    Askers = {r1, r2}
    Words = {"w", "v", "c"}
    Roots = {"/x", "/y"}
    Directories = {"/x", "/y"}
    Addresses = {"i/c", "j/c"}
    LastPart <- MCLastPart
    MaxListed = 2
    Unnamed = ""
    Commands <- MCCommands
    FirstConf <- MCFirstConf
    MaxEdits = 1
INVARIANTS Survives StandingsAgree UpgradesAsFarAsItCan OneMeaning VersionsInOrder AdviceEnds BuildsAsSaid ReadsAsWalked Fetched Registered
CHECK_DEADLOCK FALSE
