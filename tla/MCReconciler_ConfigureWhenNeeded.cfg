CONSTANTS
    UserArgChoices <- MCUnfilteredArgs
    OptChoices <- MCAllOpts
    Ninja = TRUE
    MaxInvocations = 3

SPECIFICATION Spec

INVARIANT ConfigureWhenNeeded
