SPECIFICATION Spec
CONSTANTS
    Files <- ModelFiles
    Plain <- PlainPacks
    Moss = "mosspack"
    Pipeline = "pipeline"
    Exact <- ExactPacks
    FilesOf <- Catalog
    Found <- Leftovers
    Unshared <- OwnFiles
    MaxRequests = 3
    MaxFaults = 2
CHECK_DEADLOCK FALSE
PROPERTIES
    InstalledIsWhole
    PipelineEnds
