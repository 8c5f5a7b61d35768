\* Three streams: the current one and two whose events are still under way.
CONSTANTS
    Streams = {s1, s2, s3}
    NoStream = NoStream
    Frames = {f1, f2}
    Interval = 5
    MaxInterval = 12
    MaxAttempt = 3
SPECIFICATION FairSpec
INVARIANTS NoOrphanStream StopIsFinal DownIsPlanned
PROPERTIES DownIsQuiet BackOffHolds Reconnects FramesSettle StopCompletes
CHECK_DEADLOCK FALSE
