SPECIFICATION Spec
CONSTANTS
    Radii = {0, 1, 2}
    Thicknesses = {1, 2}
    WorkRadii = {0}
    MaxCalls = 2
INVARIANTS PartsStayBuildable RegionsTile BridgesMeetTheWalls RerootKeepsTheSolids FlipKeepsTheSolids PointsRoundTrip PlanesShareOut
PROPERTY PanelsStayPut
CHECK_DEADLOCK FALSE
