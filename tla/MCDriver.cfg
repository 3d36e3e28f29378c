CONSTANTS
    NoValue = NoValue
    Platforms <- MCPlatforms
SPECIFICATION Spec
INVARIANTS
    TypeOK
    PackageOnlyAfterInstall
