SPECIFICATION WorkersSpec
CONSTANTS
    Workers = {w1, w2}
    App = App
    None = None
    SlotCount = 2
    MaxRuns = 3
    MaxKills = 1
    MaxPowerLosses = 1
    Request = 2
    Pipe = 1
    Limit = 2
    MaxChanges = 2
CHECK_DEADLOCK FALSE
INVARIANTS
    LiveCopyIsKept
    AnswerIsWhole
    AnswerIsFromVerifiedFiles
PROPERTIES
    CopiesAreRecoverable
    OrphansAreReclaimed
    CallsEnd
