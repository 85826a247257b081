\* The loop under failures of every kind, which then end.
CONSTANTS
    NoHash = NoHash
    NoItem = NoItem
    i1 = i1
    arr = arr
    loop = loop
    Items = {i1}
    Sources = {arr}
    SourceOf <- OneSource
    PartialSources = {}
    Files = {i1}
    FileOf <- OwnFile
    Versions = {1}
    FriendFiles = {}
    Theirs = {}
    MayRetake = FALSE
    Procs = {loop}
    WebProcs = {}
    WebOps = {}
    Backend = "qbit"
    MayMove = FALSE
    Upheavals = {"tag", "file", "date", "client", "fault", "end"}
    MaxClock = 1
SPECIFICATION FairSpec
PROPERTY Converges
