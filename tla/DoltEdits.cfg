SPECIFICATION Spec
CONSTANTS
    GraphKey = {g1}
    SideKey = {s1}
    Val = {v1}
    NoRow = NoRow
    Main = Main
    Label = {a}
    MaxSeq = 3
    MaxCommits = 2
INVARIANTS UndoReachesHead Inv
PROPERTIES UndoRestores
