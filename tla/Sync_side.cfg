\* The background loop beside the item page's handlers, while tags come and go
\* and a source may answer in part or not at all.
CONSTANTS
    NoHash = NoHash
    NoItem = NoItem
    i1 = i1
    arr = arr
    loop = loop
    web = web
    Items = {i1}
    Sources = {arr}
    SourceOf <- OneSource
    PartialSources = {arr}
    Files = {i1}
    FileOf <- OwnFile
    Versions = {1}
    FriendFiles = {}
    Theirs = {}
    MayRetake = FALSE
    Procs = {loop, web}
    WebProcs = {web}
    WebOps = {"unshare", "rebuild"}
    Backend = "qbit"
    MayMove = FALSE
    Upheavals = {"tag", "scan"}
    MaxClock = 1
SPECIFICATION Spec
INVARIANT TypeOK
INVARIANT WithdrawsOnlyUntagged
