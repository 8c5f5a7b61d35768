\* Three calls of any kind, with failing requests.
CONSTANTS
    c1 = c1
    c2 = c2
    c3 = c3
    original = original
    Ids = {c1, c2, c3, original}
    Original = original
    NoValue = NoValue
    Absent = Absent
    Uncached = Uncached
    Unknown = Unknown
    MayFail = TRUE
SYMMETRY Symmetric
SPECIFICATION Spec
INVARIANTS SerialUpdatesSurvive MissIsFresh UnsentIsUnseen
CHECK_DEADLOCK FALSE
