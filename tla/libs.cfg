SPECIFICATION Spec
CONSTANTS
    Coords <- MCCoords
    BaseName <- MCBaseName
    SeedOf <- MCSeedOf
    Repository <- MCRepository
    EmbeddedLists <- MCEmbeddedLists
    Inputs <- MCInputs
    MaxArtifacts = 5
    MaxResolveDepth = 2
    MaxParentDepth = 2
    MaxDownload = 2
    MaxHops = 1
    MaxFaults = 2
    MaxRuns = 2
INVARIANTS TypeOK TempsAreKills ClosureIsNearest ClosureIsClosed OkLeavesClosure
PROPERTIES Directory RunsEnd
