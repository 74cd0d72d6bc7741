SPECIFICATION Spec
CONSTANTS
    Call = {c1, c2}
    Part = {p, q}
    Version = {u}
    Absent = Absent
    NoTxn = NoTxn
    MaxCalls = 2
    Bad = {}
    NoBlob = NoBlob
    MaxExpiries = 0
INVARIANT MemoryIsStored
