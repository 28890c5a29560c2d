SPECIFICATION MacSpec
CONSTANTS
    Roles = {"microphone", "system"}
    Unset = Unset
    Tolerance = 1
    SilenceAfter = 2
    Timeout = 1
    Rolling = 2
    MaxTime = 4
    FaultAt = {1, 2, 3, 4}
    MaxFaults = 1
CHECK_DEADLOCK FALSE
INVARIANTS
    HolesAreReported
    StallIsReported
