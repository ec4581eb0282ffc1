CONSTANTS
    Conn = {c1, c2}
    Oid = {o1, o2}
    Val = {v1}
    MaxTid = 3
    NoConn = NoConn
    Flavour = "mysql"
SYMMETRY MCSymmetry
SPECIFICATION Spec
INVARIANTS
    TypeOK
    CurrentIsLatest
    HistoryChain
    CommitsOnlyOwnWrites
PROPERTY
    ImplementsAtomicHistory
