SPECIFICATION MacSpec
CONSTANTS
    Roles = {"microphone", "system"}
    Unset = Unset
    Tolerance = 1
    SilenceAfter = 2
    Timeout = 1
    Rolling = 2
    MaxTime = 4
    FaultAt = {}
    MaxFaults = 0
CHECK_DEADLOCK FALSE
PROPERTY CloseIsAccepted
