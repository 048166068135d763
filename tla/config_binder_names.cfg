SPECIFICATION Spec
CONSTANTS
    Upper <- MCUpper
    Digit <- MCDigit
    Tcps <- MCTcps
    Canonical <- MCCanonical
    MaxWorkflows = 20
    Inputs <- MCNumbered
INVARIANT BindersDiffer
