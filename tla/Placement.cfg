SPECIFICATION PlacementSpec
CONSTANTS
    Package = {"quake", "demo", "maps"}
    Version = {1, 2}
    Ships <- TwoDrawers
    App <- Applications
    Root <- TheRoot
    System = {"C"}
    Shared = {"Games"}
    Targets <- At
    Alias <- Games
    Elsewhere <- Work
    r1 = r1
    r2 = r2
    Run = {r1, r2}
    Nothing = Nothing
    MaxCommands = 4
    MaxCuts = 1
    MaxLinks = 1
PROPERTY PlacedApart
SYMMETRY AnyRun
CHECK_DEADLOCK FALSE
