SPECIFICATION Spec
CONSTANTS
    e1 = e1
    e2 = e2
    p1 = p1
    p2 = p2
    Elements = {e1, e2}
    Persisters = {p1, p2}
    AtomicPipeline = TRUE
    Incremental = TRUE
    MaxSeq = 2
SYMMETRY Symmetry
INVARIANT NoLostUpdate
