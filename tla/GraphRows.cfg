SPECIFICATION SpecRows
CONSTANTS
    PartId = {1, 2, 3}
    PanelId = {11, 12, 13, 14}
    BendId = {21, 22, 23}
    HoleId = {31}
INVARIANTS TypeOK NoViolations NothingOnAliases AliasesResolve HolesOnce PartsAreComponents RowsAgree
PROPERTIES SplitUndoesMerge ImplementsForest
CHECK_DEADLOCK FALSE
