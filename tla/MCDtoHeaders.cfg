\* One follower, one cursor, two audited entities; three calls.
CONSTANTS
    Followers = {f}
    Cursors = {cursor}
    Absent = Absent
    Entities = {order, invoice}
    l = l
    g = g
    slow = slow
    fast = fast
    Names = {l, g}
    Rates = {slow, fast}
    SentLimiters <- RequestLimiters
    NodeLimits <- MessageLimits
    ItemLimits <- LimitsOfItems
    MaxCount = 1
    MaxCalls = 3
SPECIFICATION Spec
INVARIANTS AnswerIsActionable ItemsStandAlone
CHECK_DEADLOCK FALSE
