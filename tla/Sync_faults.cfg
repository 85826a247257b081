\* One item under failures and crashes, among torrents the operator adds, removes
\* and relocates.
CONSTANTS
    NoHash = NoHash
    NoItem = NoItem
    i1 = i1
    arr = arr
    loop = loop
    Items = {i1}
    Sources = {arr}
    SourceOf <- OneSource
    PartialSources = {}
    Files = {i1}
    FileOf <- OwnFile
    Versions = {1}
    FriendFiles = {i1}
    Theirs = {"friend"}
    MayRetake = FALSE
    Procs = {loop}
    WebProcs = {}
    WebOps = {}
    Backend = "qbit"
    MayMove = TRUE
    Upheavals = {"tag", "client", "fault", "crash"}
    MaxClock = 1
SPECIFICATION Spec
INVARIANT RemovesOnlyOwn
INVARIANT AdoptedServable
INVARIANT NoOrphan
