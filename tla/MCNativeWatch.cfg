SPECIFICATION FairSpec
CONSTANTS
    one = one
    two = two
    a = a
    b = b
    File = {one, two}
    Content = {a, b}
    Registered = {b}
    MayFail = {two}
    Capacity = 1
    MaxSubmitted = 1
    MaxChanges = 1
    MaxDelays = 1
    None = None
CHECK_DEADLOCK FALSE
INVARIANT SeenIsTrue
PROPERTIES NothingAfterStop OneAtATime HandedOver
