\* Two concurrent calls, two applications, two users, two retries.
CONSTANTS
    Callers = {c1, c2}
    Apps = {a1, a2}
    Users = {u1, u2}
    NoArg = NoArg
    MaxTries = 2
SPECIFICATION FairSpec
INVARIANTS LockIsWriter
PROPERTIES StoreSpec RemovedIsGone WritesEnd
CHECK_DEADLOCK FALSE
