CONSTANTS
    UserArgChoices <- MCPlainArgs
    OptChoices <- MCOpts
    Ninja = TRUE
    MaxInvocations = 3

SPECIFICATION Spec

INVARIANT TypeOK
INVARIANT SkipIsSound
INVARIANT Idempotent
