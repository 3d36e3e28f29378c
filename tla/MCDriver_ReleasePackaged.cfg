CONSTANTS
    NoValue = NoValue
    Platforms <- MCPlatforms
SPECIFICATION Spec
INVARIANT
    ReleasePackaged
