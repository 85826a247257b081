\* Files upgraded in place, shares that end on a date, torrents of friends, and
\* nothing fails.
CONSTANTS
    NoHash = NoHash
    NoItem = NoItem
    i1 = i1
    arr = arr
    loop = loop
    Items = {i1}
    Sources = {arr}
    SourceOf <- OneSource
    PartialSources = {}
    Files = {i1}
    FileOf <- OwnFile
    Versions = {1, 2}
    FriendFiles = {i1}
    Theirs = {}
    MayRetake = FALSE
    Procs = {loop}
    WebProcs = {}
    WebOps = {}
    Backend = "qbit"
    MayMove = TRUE
    Upheavals = {"tag", "client", "file", "date"}
    MaxClock = 2
SPECIFICATION Spec
INVARIANT OwnTorrentOwned
INVARIANT NoOrphan
