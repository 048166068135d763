SPECIFICATION Spec
CONSTANTS
    Upper <- MCUpper
    Digit <- MCDigit
    Tcps <- MCTcps
    Canonical <- MCCanonical
    MaxWorkflows = 2
    Inputs <- MCInputs
INVARIANT PasswordKept
