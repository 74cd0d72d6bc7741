SPECIFICATION CallSpec
CONSTANTS
    Shape = {a, b}
    MaxId = 5
    MaxSuffix = 1
    MaxPieces = 2
    MaxTurn = 0
SYMMETRY Symmetry
INVARIANT RegistryConsistent
PROPERTIES TokensKeepTheStateBefore FailedCallKeepsBodies SuccessCanBeUndone NewBodiesAreNamed
