\* Two calls of any kind, nothing fails.
CONSTANTS
    c1 = c1
    c2 = c2
    original = original
    Ids = {c1, c2, original}
    Original = original
    NoValue = NoValue
    Absent = Absent
    Uncached = Uncached
    Unknown = Unknown
    MayFail = FALSE
SYMMETRY Symmetric
SPECIFICATION Spec
INVARIANTS NoSecondInstall
CHECK_DEADLOCK FALSE
