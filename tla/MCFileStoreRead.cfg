\* The read that never gives up.
CONSTANTS
    Callers = {c1, c2}
    Apps = {a1}
    Users = {u1}
    NoArg = NoArg
    MaxTries = 1
SPECIFICATION FairSpec
PROPERTIES ReadsEnd
CHECK_DEADLOCK FALSE
