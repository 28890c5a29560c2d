SPECIFICATION Spec
CONSTANTS
    Recordings = {x, y}
    Contents = {file, capture1}
    Captures = {capture1}
    None = None
    MaxReviews = 1
    MaxMishaps = 1
SYMMETRY Symmetry
CHECK_DEADLOCK FALSE
INVARIANTS
    ReadyHasAudio
    NoDuplicateImport
PROPERTIES
    EventsAreKept
