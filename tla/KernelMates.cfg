SPECIFICATION AssemblySpec
CONSTANTS
    Shape = {a, b}
    MaxId = 7
    MaxSuffix = 0
    MaxPieces = 1
    MaxTurn = 2
PROPERTY MatedFacesMeet
