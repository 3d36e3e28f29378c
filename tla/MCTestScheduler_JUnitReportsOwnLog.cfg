CONSTANTS
    t1 = t1
    t2 = t2
    t3 = t3
    NoRecord = NoRecord
    NoTest = NoTest
    Missing = Missing
    Corrupt = Corrupt
    Catalog <- MCStaleLogCatalog
    Filters <- MCStaleLogFilters
    P = 1
    MaxInvocations = 3
    MaxSigints = 1

SPECIFICATION Spec

INVARIANT JUnitReportsOwnLog
