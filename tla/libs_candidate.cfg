SPECIFICATION Spec
CONSTANTS
    Coords <- MCCoords
    BaseName <- MCBaseName
    SeedOf <- MCSeedOf
    Repository <- MCRepository
    EmbeddedLists <- MCEmbeddedLists
    Inputs <- CandidateInputs
    MaxArtifacts = 5
    MaxResolveDepth = 2
    MaxParentDepth = 2
    MaxDownload = 2
    MaxHops = 1
    MaxFaults = 0
    MaxRuns = 1
INVARIANT OkLeavesClosure
