SPECIFICATION FairSpec
CONSTANTS
    e1 = e1
    e2 = e2
    p1 = p1
    Elements = {e1, e2}
    Persisters = {p1}
    AtomicPipeline = TRUE
    Incremental = TRUE
    MaxSeq = 2
INVARIANT NoLostUpdate
INVARIANT MarkersAgree
PROPERTY KeepsDurablePromise
PROPERTY ClearCoversWindow
PROPERTY EventuallyDurable
