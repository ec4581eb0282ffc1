CONSTANTS
    Conn = {c1, c2}
    Oid = {o1, o2}
    MaxTid = 9
    TxnSize = 3
    PollMode = "clip"
SYMMETRY MCSymmetry
SPECIFICATION Spec
INVARIANTS
    TypeOK
    SnapshotVisible
    ChangesComplete
    ReadsCurrent
