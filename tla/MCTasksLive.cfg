CONSTANTS
    t1 = t1
    t2 = t2
    k1 = k1
    k2 = k2
    s1 = s1
    None = None
    Task = {t1, t2}
    Kb = {k1, k2}
    KbOf <- Apart
    Total <- Batch
    MaxUnits = 1
    Document = {}
    Settings = {s1}
    MaxWorkers = 1
    MaxFaults = 0
    MaxCrashes = 0
SPECIFICATION LiveSpec
PROPERTIES ShutdownEnds NoStarvation
CHECK_DEADLOCK FALSE
