SPECIFICATION PhoneSpec
CONSTANTS
    Sessions <- SessionIds
    NoSession = NoSession
    MaxSegments = 2
    MaxFaults = 2
    Destinations = {first, second}
    Entries = {e}
    AtFirst = {first, none}
    MaxCommands = 2
    Audio = {x, y}
    Requests = {q1, q2}
    Cap = 1
    MaxServed = 4
    None = none
    MaxKills = 1
CONSTRAINT Attended
CHECK_DEADLOCK FALSE
INVARIANTS
    StoppedIsWhole
    PinnedIsPlayable
PROPERTIES
    StoppedIsSaved
    PullEnds
