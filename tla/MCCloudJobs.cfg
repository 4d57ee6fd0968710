CONSTANTS
    p1 = p1
    p2 = p2
    Page = {p1, p2}
    MaxPages = 1
    MaxRequests = 5
    MaxAttempts = 3
    MaxRuns = 2
SPECIFICATION Spec
INVARIANTS AtMostOneJob PostsRecorded
PROPERTY JobRemembered
CHECK_DEADLOCK FALSE
