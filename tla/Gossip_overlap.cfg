\* Two ingests for one friend, who starts over and whose clock runs ahead.
SPECIFICATION GossipSpec
CONSTANTS
    None = None
    Friends = {f}
    Addrs = {x, y}
    Ingests = {i1, i2}
    Identities = 2
    Fast = {f}
    Skew = 1
    History = 1
    LastTick = 1
    MaxRecords = 2
    MaxBatch = 1
    MayDelete = TRUE
    ReadFails = TRUE
    WriteFails = FALSE
INVARIANTS RecordsOwn HistoryBounded NotAhead
PROPERTIES IdentityKept NewestForward
SYMMETRY IngestSymmetry
\* With every friend revoked and the clock at its bound nothing is left to do.
CHECK_DEADLOCK FALSE
