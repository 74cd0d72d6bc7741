SPECIFICATION SpecRows
CONSTANTS
    PartId = {1, 2, 3}
    PanelId = {11, 12, 13}
    BendId = {21, 22, 23}
    HoleId = {31}
INVARIANTS HolesAgree
CHECK_DEADLOCK FALSE
