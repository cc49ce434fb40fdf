SPECIFICATION Spec
CONSTANTS
    e1 = e1
    e2 = e2
    p1 = p1
    Elements = {e1, e2}
    Persisters = {p1}
    AtomicPipeline = FALSE
    Incremental = FALSE
    MaxSeq = 3
SYMMETRY Symmetry
INVARIANT NoLostUpdate
