CONSTANTS
    d1 = d1
    d2 = d2
    f1 = f1
    f2 = f2
    Devices <- MCDevices
    Refreshers <- MCRefreshers
    NoRecord = NoRecord
    MaxTime = 2
    MaxQueries = 3
SPECIFICATION Spec
SYMMETRY MCSymmetry
INVARIANTS
    TypeOK
    OverlapQueriesConserved
