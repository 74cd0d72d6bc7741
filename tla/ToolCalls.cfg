SPECIFICATION Spec
CONSTANTS
    Call = {c1}
    Part = {p, q}
    Version = {u, v, w}
    Absent = Absent
    NoTxn = NoTxn
    MaxCalls = 2
    Bad = {w}
    NoBlob = NoBlob
    MaxExpiries = 1
INVARIANTS MemoryIsStored UpdatesAreTold
PROPERTY SubscribersCatchUp
