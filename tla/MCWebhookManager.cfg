\* Two calls after one that has subscribed; one event with a topology of its own
\* and one without.
CONSTANTS
    Calls = {c0, c1, c2}
    Earlier = {c0}
    Events = {old, new}
    Legacy = {old}
    Targets = {t}
    LegacyTarget = t
    None = None
SPECIFICATION Spec
INVARIANTS StoresAgree OnlyRefusedUndone
PROPERTIES RemovedIsUnregistered
CHECK_DEADLOCK FALSE
