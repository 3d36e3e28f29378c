CONSTANTS
    NoValue = NoValue
    InnerCodes <- MCInnerCodes
    MaxSigints = 1
SPECIFICATION Spec
INVARIANTS
    TypeOK
    UndisturbedRunCleansUp
PROPERTY
    Terminates
