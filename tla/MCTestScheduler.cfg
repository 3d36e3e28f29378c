CONSTANTS
    t1 = t1
    t2 = t2
    t3 = t3
    NoRecord = NoRecord
    NoTest = NoTest
    Missing = Missing
    Corrupt = Corrupt
    Catalog <- MCCatalog
    Filters <- MCFilters
    P = 2
    MaxInvocations = 2
    MaxSigints = 1

SPECIFICATION Spec

INVARIANT TypeOK
INVARIANT BoundedConcurrency
INVARIANT ResultsDisjoint
INVARIANT RunAccountsForCatalog
INVARIANT RerunCompleteness
INVARIANT QuiescentAtExit

PROPERTY Termination
PROPERTY ImplementsTestResults
