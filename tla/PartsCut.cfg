SPECIFICATION Spec
CONSTANTS
    Radii = {1}
    Thicknesses = {1}
    WorkRadii = {1}
    MaxCalls = 1
PROPERTY HolesLandWhereTold
CHECK_DEADLOCK FALSE
