SPECIFICATION Spec
CONSTANTS
    p = p
    q = q
    Publishers = {p, q}
    KeyOf <- MCKeyOf
    Versions <- MCVersions
    a = a
    b = b
    Drawers <- MCDrawers
    Kinds = {"image"}
    Overlap = FALSE
    MaxCommands = 3
    MaxDamage = 1
    Nothing = Nothing
    Generic = Generic
    Other <- MCOther
    OtherKey = "kq"
    Asked = {1}
    MaxReads = 2
    MaxTotal = 4
    MaxFaults = 1
INVARIANTS ServedWhole OneKey
PROPERTIES PublishedStays WithdrawnStays WithdrawnSkipped
SYMMETRY MCSymmetry
CHECK_DEADLOCK FALSE
