SPECIFICATION CaptureSpec
CONSTANTS
    Recordings = {x}
    Tracks <- MeetingTracks
    Unset = Unset
    Rolling = 2
    MaxWarnings = 3
    Skew = 1
    MaxTime = 4
    MaxSignals = 1
    FaultAt = {1, 2, 3, 4, 5, 6, 7, 8, 9}
    MaxFailures = 1
CHECK_DEADLOCK FALSE
INVARIANTS
    NoSilentHole
    GapsAreSilent
