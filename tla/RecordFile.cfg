CONSTANTS
    Value = {"v1", "v2", "v3"}
    Absent = Absent
    NoChange = NoChange
SPECIFICATION Spec
PROPERTY ReadsWhatWasThere IsRegister
