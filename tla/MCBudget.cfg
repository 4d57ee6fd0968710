SPECIFICATION FairSpec
CONSTANTS
    a = a
    b = b
    e = e
    Caller = {a, b, e}
    Mode <- MCMode
    Optional = {a}
    Fixed = {}
    FixedOutput = 1
    Size <- MCSize
    Usage = {4}
    Context = 4
    Output = 2
    MaxContext = 8
    MaxOutput = 4
    MaxAttempts = 2
    MaxRequests = 2
    MaxTokens = 8
    Allowance = 1
    Concurrency = 1
    MaxStops = 1
    None = None
CHECK_DEADLOCK FALSE
INVARIANTS PermitsConserved BudgetKept
PROPERTIES AdmissionStops CallEnds 
