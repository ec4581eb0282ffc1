CONSTANTS
    Conn = {c1, c2}
    Oid = {o1, o2}
    MaxTid = 9
    TxnSize = 3
    PollMode = "strict"
SYMMETRY MCSymmetry
SPECIFICATION Spec
CHECK_DEADLOCK FALSE
INVARIANT
    PollNeverFails
