\* Three concurrent calls that may try three times; fair, so no symmetry.
CONSTANTS
    Callers = {c1, c2, c3}
    Nobody = Nobody
    MaxTry = 2
SPECIFICATION FairSpec
INVARIANTS WorksAlone
PROPERTIES ReleaseIsHarmless CallsEnd
CHECK_DEADLOCK FALSE
