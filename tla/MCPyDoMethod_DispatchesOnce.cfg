CONSTANTS
    SUCCESS = SUCCESS
    FAILURE = FAILURE
    Pythons <- MCPythons
    MethodStatuses <- MCMethodStatuses
    ErrStatus = ErrStatus
    NOT_FOUND = NOT_FOUND
    NOMETHOD = NOMETHOD
    NoValue = NoValue

SPECIFICATION Spec

INVARIANT DispatchesOnce
