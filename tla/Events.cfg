SPECIFICATION EvSpec
CONSTANTS
    Transfers = {"file"}
    Tasks = {"plan"}
    Peers = {"host"}
    Takings = {"done", "failed"}
    Depth = 2
    MaxSteps = 3
    MaxCount = 1
    MaxCancels = 1
    MaxOps = 2
INVARIANT RulesKept
CHECK_DEADLOCK FALSE
