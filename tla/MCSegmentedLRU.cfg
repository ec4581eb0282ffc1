CONSTANTS
    Key = {k1, k2, k3}
    Weight = {1, 2}
    EdenLimit = 1
    ProbationLimit = 2
    ProtectedLimit = 2
    MaxFreq = 3
SPECIFICATION Spec
INVARIANTS
    TypeOK
    Membership
    SizeAccounting
    OverSizeAccurate
PROPERTIES
    BudgetAfterCatchUp
    CatchUpTerminates
