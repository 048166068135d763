\* One and two stores over every state of their files, one change, two verbs.
SPECIFICATION Spec
CONSTANTS
    Inputs <- MCInputs
    StoreOrder <- MCStoreOrder
    Vars <- MCVars
    VarStates <- MCVarStates
    FileStates <- MCFileStates
    EnvMax = 1
    KubeMax = 3
    PodmanMax = 8
    MaxChanges = 1
    MaxRuns = 2
INVARIANTS
    TypeOK
    ValidateForetells
    ServesWhatItRead
    HandsOver
PROPERTIES
    EverythingMounted
    DeployedIsRemovable
CHECK_DEADLOCK FALSE
