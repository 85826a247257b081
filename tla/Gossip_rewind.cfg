\* Two ingests side by side.
SPECIFICATION GossipSpec
CONSTANTS
    None = None
    Friends = {f}
    Addrs = {x}
    Ingests = {i1, i2}
    Identities = 1
    Fast = {}
    Skew = 1
    History = 1
    LastTick = 1
    MaxRecords = 2
    MaxBatch = 1
    MayDelete = FALSE
    ReadFails = FALSE
    WriteFails = FALSE
PROPERTY NoRewind
\* With every friend revoked and the clock at its bound nothing is left to do.
CHECK_DEADLOCK FALSE
