SPECIFICATION Spec
CONSTANTS
    a = a
    b = b
    x = x
    y = y
    Devices = {a, b}
    Recordings = {x, y}
    Owner <- MCOwner
    MaxGeneration = 2
    MaxRetries = 2
    MaxStarts = 4
    MaxLosses = 1
    Names = {n}
    None = None
    Occupied <- MCOccupied
CHECK_DEADLOCK FALSE
INVARIANTS
    AudioIsAccountedFor
PROPERTIES
    CommitsTakeNothing
