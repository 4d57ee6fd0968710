SPECIFICATION Spec
CONSTANTS
    one = one
    two = two
    a = a
    b = b
    File = {one}
    Content = {a, b}
    Registered = {b}
    MayFail = {}
    Capacity = 1
    MaxSubmitted = 1
    MaxChanges = 1
    MaxDelays = 0
    None = None
CHECK_DEADLOCK FALSE
PROPERTY NotReplayed
