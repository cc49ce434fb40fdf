SPECIFICATION Spec
CONSTANTS
    e1 = e1
    s2 = s2
    s1 = s1
    NoProc = NoProc
    Elements = {e1}
    Rest = {}
    Sockets = {s1, s2}
    QuiescentEviction = TRUE
    ActiveSockets = FALSE
    LoadsInTime = FALSE
    SweepsInTime = TRUE
    MaxWrites = 2
    MaxSeq = 2
SYMMETRY Symmetry
PROPERTY RowsNeverErased
