CONSTANTS
    c1 = c1
    c2 = c2
    c3 = c3
    p1 = p1
    p2 = p2
    s1 = s1
    s2 = s2
    Original = original
    Ids = {original, c1, c2, c3}
    NoToken = noToken
    NoText = noText
    Uncached = uncached
    Processes = {p1, p2}
    Home <- Homes
    Salts = {s1, s2}
    NoSalt = noSalt
    MaxFailures = 1
SPECIFICATION Spec
SYMMETRY SaltSymmetry
INVARIANTS TextsOpen TokenSurvives RefusedIsRace
CHECK_DEADLOCK FALSE
