\* A friend who pushes a view of others.
SPECIFICATION GossipSpec
CONSTANTS
    None = None
    Friends = {f, g}
    Addrs = {x}
    Ingests = {i1}
    Identities = 1
    Fast = {}
    Skew = 1
    History = 1
    LastTick = 1
    MaxRecords = 2
    MaxBatch = 2
    MayDelete = FALSE
    ReadFails = FALSE
    WriteFails = FALSE
INVARIANT BindsOwn
\* With every friend revoked and the clock at its bound nothing is left to do.
CHECK_DEADLOCK FALSE
