SPECIFICATION Spec
CONSTANTS
    p1 = p1  p2 = p2  a1 = a1
    c1 = c1  c2 = c2
    j1 = j1  j2 = j2
    u1 = u1  u2 = u2
    Page <- MCPage
    Artifact <- MCArtifact
    Content <- MCContent
    Absent = Absent
    Journal <- MCJournal
    Process <- MCProcess
    NoPath = NoPath
    NoJournal = NoJournal
    NoProc = NoProc
    NoVersion = NoVersion
    MaxDepth = 2
SYMMETRY Symmetry
PROPERTIES
    NoImplicitRetry
    KbSpec
INVARIANTS
    JournalHasEvidence
    UndecidedDisjoint
    
