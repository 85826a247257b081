\* A client that reports a duplicate add as success, and an operator who adds a
\* friend's torrent while a pass is about to add it too.
CONSTANTS
    NoHash = NoHash
    NoItem = NoItem
    i1 = i1
    arr = arr
    loop = loop
    Items = {i1}
    Sources = {arr}
    SourceOf <- OneSource
    PartialSources = {}
    Files = {i1}
    FileOf <- OwnFile
    Versions = {1}
    FriendFiles = {i1}
    Theirs = {"friend"}
    MayRetake = FALSE
    Procs = {loop}
    WebProcs = {}
    WebOps = {}
    Backend = "transmission"
    MayMove = FALSE
    Upheavals = {"tag", "client"}
    MaxClock = 1
SPECIFICATION Spec
INVARIANT RemovesOnlyOwn
