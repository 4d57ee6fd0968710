CONSTANTS
    t1 = t1
    t2 = t2
    k1 = k1
    s1 = s1
    None = None
    Task = {t1, t2}
    Kb = {k1}
    KbOf <- Together
    Total <- Batch
    MaxUnits = 1
    Document = {}
    Settings = {s1}
    MaxWorkers = 1
    MaxFaults = 0
    MaxCrashes = 0
SPECIFICATION RetrySpec
INVARIANT RetryRepeatsNothing
CHECK_DEADLOCK FALSE
