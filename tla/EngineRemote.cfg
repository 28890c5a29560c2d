SPECIFICATION FairSpec
CONSTANTS
    NumTargets = 1
    AtMostOnce <- MCAtMostOnce
    Required <- MCRequired
    MaxGeneration = 2
    Workers = {w1, w2}
    NoWorker = NoWorker
    LocalBackends <- MCNoBackends
    CredentialsRemovable = FALSE
    MaxTasks = 2
    MaxLatePuts = 2
INVARIANT NothingLeftInBucket
PROPERTIES
    CanceledUploadIsFinished
