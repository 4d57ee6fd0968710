SPECIFICATION Spec
CONSTANTS
    None = None
    Source = {s1, s2}
    Concept = {p}
    Basis = {b1, b2}
    Generated = {"text"}
    MaxProposals = 3
    MaxEvents = 1
SYMMETRY Symmetry
INVARIANTS
    OwnershipEarned
    OwnershipMatchesReceipt
PROPERTIES
    NoEditLost
    OthersUntouched
