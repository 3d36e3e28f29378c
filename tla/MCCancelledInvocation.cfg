CONSTANTS
    NoValue = NoValue
    Platforms <- MCPlatforms
    MaxSigints = 1
SPECIFICATION Spec
INVARIANT
    InvocationContract
