SPECIFICATION Spec
CONSTANTS
    GraphKey = {g1}
    SideKey = {}
    Val = {v1}
    NoRow = NoRow
    Main = Main
    Label = {a, b}
    MaxSeq = 3
    MaxCommits = 4
SYMMETRY Symmetry
INVARIANTS TypeOK EditsSeeStorage UncommittedIsCurrent MarkSeparates ActionsAreIntroduced TrailerCountsOps OneWorkingBranch
PROPERTIES DirtyNeverReplaced ImplementsCopies
