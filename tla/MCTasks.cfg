CONSTANTS
    t1 = t1
    k1 = k1
    s1 = s1
    s2 = s2
    None = None
    Task = {t1}
    Kb = {k1}
    KbOf <- Together
    Total <- Batch
    MaxUnits = 2
    Document = {t1}
    Settings = {s1, s2}
    MaxWorkers = 1
    MaxFaults = 1
    MaxCrashes = 1
SYMMETRY Symmetry
SPECIFICATION Spec
INVARIANTS AtMostOnce ResultsConfirmed BatchInOrder LateUnitNeverBegins
PROPERTY EndIsEnd
CHECK_DEADLOCK FALSE
