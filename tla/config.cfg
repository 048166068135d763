SPECIFICATION Spec
CONSTANTS
    Upper <- MCUpper
    Digit <- MCDigit
    Tcps <- MCTcps
    Canonical <- MCCanonical
    MaxWorkflows = 2
    Inputs <- MCInputs
INVARIANTS
    TypeOK
    SidesReachTheirBroker
    PlaceholdersResolve
    ConflictsAreFolds
    ValidatorPredicts
    PostureKept
    KeysOnce
