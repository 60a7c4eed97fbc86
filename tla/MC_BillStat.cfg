CONSTANTS
    d1 = d1
    d2 = d2
    Devices <- MCDevices
    NoRecord = NoRecord
    UploadOutcomes = {"ok", "error"}
    Lag = 1
    MaxTime = 2
    MaxQueries = 3
SPECIFICATION Spec
SYMMETRY MCSymmetry
INVARIANTS
    TypeOK
    QueriesConserved
PROPERTIES
    LiveCountNeverDecreases
