SPECIFICATION Spec
CONSTANTS
    o1 = o1  o2 = o2  o3 = o3
    d1 = d1  d2 = d2  d3 = d3
    g1 = g1  g2 = g2  g3 = g3
    Proc <- MCProc
    Dir <- MCDir
    Generation <- MCGeneration
    Initial = Initial
    NoDir = NoDir
    NoProc = NoProc
SYMMETRY Symmetry
INVARIANTS
    RunsOnItsGeneration
    WriterAlone
    UnfinishedDeletionListed
PROPERTIES
    DeletesWhatWasConfirmed
    DeletionIsFinal
