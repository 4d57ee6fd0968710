SPECIFICATION FairSpec
CONSTANTS
    v = v
    w = w
    Worker = {v, w}
    Source <- MCSource
    Text <- MCText
    Barren = {"other"}
    MaxAttempts = 2
    MaxCap = 2
    MaxRestarts = 1
    None = None
CHECK_DEADLOCK FALSE
INVARIANTS Covered OneExecutor
PROPERTIES NeverAskedAgain ExtractionEnds
