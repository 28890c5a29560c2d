SPECIFICATION StoreSpec
CONSTANTS
    NumTargets = 2
    AtMostOnce <- MCAtMostOnce
    Required <- MCRequired
    MaxGeneration = 3
    MaxRevision = 3
    Faults = {{"stop"}, {"power"}}
    FramesPerMs = 2
    Grid = 2
    MaxWindow = 6
    Lookback = 4
    Energy = 2
    MaxSource = 10
    MaxWindows = 3
    MaxTail = 1
    MaxDrift = 1
    MaxJoined = 2
    Sources = {5, 9}
    Drifts <- MCDrifts
    Turns <- MCTurns
    MaxTurns = 3
    Tracks <- MCTracks
    Unmade = Unmade
    TargetRate = 4
    Second = 2
    Tolerance = 2
    Silence = 1
    MinChunk = 3
    MaxChunk = 8
    MaxRanges = 3
    Search = 5
    Window = 2
    Frame = 2
    MinOverlap = 1
    MaxBridge = 2
    ChunkBytes = 4
    MaxRounds = 5
    Audios <- SmallAudios
    Spoken <- SmallSpoken
    Declared = 5
    QwenSpans <- SmallSpans
    MaxWords = 4
    SpeechTracks <- SmallSpeechTracks
    Transcripts <- SmallTranscripts
    Documents = {1, 2, 4}
INVARIANTS
    CompleteIsBackedUp
    DiscardLeavesNoObject
    TurnsAreConserved
    SpeakersNeverOverlap
    MappingIsBest
    ChunksCoverAudio
    TranscriptIsWhole
    SummaryCoversTranscript
PROPERTIES
    EvidenceIsKept
    ImplementsRegister
