CONSTANTS
    NoValue = NoValue
    Stale = Stale
    Names <- MCNames
    Spellings <- MCSpellings
    Fold <- MCFold
    Opcodes <- MCOpcodes
    MaxRows = 2
SPECIFICATION Spec
INVARIANT
    GeneratorContract
