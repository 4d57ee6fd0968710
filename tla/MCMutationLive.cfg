SPECIFICATION LiveSpec
CONSTANTS
    p1 = p1  a1 = a1  c1 = c1  j1 = j1  j2 = j2  u1 = u1  u2 = u2
    Page = {p1}
    Artifact = {a1}
    Content = {c1}
    Absent = Absent
    Journal = {j1, j2}
    Process = {u1, u2}
    NoPath = NoPath
    NoJournal = NoJournal
    NoProc = NoProc
    NoVersion = NoVersion
    MaxDepth = 2
PROPERTIES
    RecoveryTerminates
    CrashRecovered
    RepairUnblocks
INVARIANTS
    ReadersSeeDecided
    BarrierHolds
