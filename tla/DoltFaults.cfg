SPECIFICATION FaultySpec
CONSTANTS
    GraphKey = {}
    SideKey = {s1}
    Val = {}
    NoRow = NoRow
    Main = Main
    Label = {a, b}
    MaxSeq = 2
    MaxCommits = 4
SYMMETRY Symmetry
CONSTRAINT OneUncommitted
INVARIANTS MainHoldsOnlyMerges WriterBranchExists
