\* A handler's pass beside the loop's leaves a torrent nobody owns.
CONSTANTS
    NoHash = NoHash
    NoItem = NoItem
    i1 = i1
    arr = arr
    loop = loop
    web = web
    Items = {i1}
    Sources = {arr}
    SourceOf <- OneSource
    PartialSources = {}
    Files = {i1}
    FileOf <- OwnFile
    Versions = {1}
    FriendFiles = {}
    Theirs = {}
    MayRetake = FALSE
    Procs = {loop, web}
    WebProcs = {web}
    WebOps = {"retry"}
    Backend = "qbit"
    MayMove = FALSE
    Upheavals = {"tag"}
    MaxClock = 1
SPECIFICATION Spec
INVARIANT NoOrphan
