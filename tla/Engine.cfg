SPECIFICATION Spec
CONSTANTS
    NumTargets = 2
    AtMostOnce <- MCAtMostOnce
    Required <- MCRequired
    MaxGeneration = 2
    Workers = {w1, w2}
    NoWorker = NoWorker
    LocalBackends <- MCWhisper
    CredentialsRemovable = TRUE
    MaxTasks = 2
    MaxLatePuts = 2
SYMMETRY WorkerSymmetry
INVARIANTS
    OneProviderJob
    VerifiedIsPublished
PROPERTIES
    BackupBeforeDeletion
    ImplementsStore
