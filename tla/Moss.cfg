SPECIFICATION Spec
CONSTANTS
    NumTargets = 1
    AtMostOnce <- MCAtMostOnce
    Required <- MCRequired
    MaxGeneration = 1
    Runs = {r1, r2}
    Processes = {p1, p2}
    Bodies = {a, b}
    NumWindows = 1
    NoOne = NoOne
SYMMETRY MossSymmetry
CHECK_DEADLOCK FALSE
INVARIANTS
    EvidenceMatchesFiles
    OneEffect
    NoLostWakeUp
