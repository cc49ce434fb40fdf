SPECIFICATION Spec
CONSTANTS
    e1 = e1
    e2 = e2
    r1 = r1
    s1 = s1
    NoProc = NoProc
    Elements = {e1, e2}
    Rest = {r1}
    Sockets = {s1}
    QuiescentEviction = TRUE
    ActiveSockets = TRUE
    LoadsInTime = TRUE
    SweepsInTime = TRUE
    MaxWrites = 2
    MaxSeq = 2
SYMMETRY Symmetry
INVARIANT TypeOK
INVARIANT AckedSurvives
INVARIANT LoadedComplete
PROPERTY LoadNeverClobbers
PROPERTY EvictsOnlyDeserted
