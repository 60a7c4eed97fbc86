CONSTANTS
    d1 = d1
    d2 = d2
    Devices <- MCDevices
    NoRecord = NoRecord
    UploadOutcomes = {"ok", "error", "error_delivered"}
    Lag = 1
    MaxTime = 1
    MaxQueries = 2
SPECIFICATION Spec
SYMMETRY MCSymmetry
INVARIANTS
    QueriesConserved
