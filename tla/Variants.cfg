CONSTANTS
    Absent = Absent
    Bare = Bare
    MaxDuration = 63
    Second = 1
    Fields = {"Accept"}
    Urls = {"/a", "/b", "/x"}
    Values = {"", "en", "EN", "fr"}
    NoValue = ""
    Star = "*"
    Normalize <- MCNormalize
    VaryHash <- MCVaryHash
    Clients = {c1}
    Workers = {}
    Origin <- MCOrigin
    Requests <- VariantRequests
    Replies <- VariantReplies
    Faults = {"upstream", "get", "set"}
    MaxTime = 1
    MaxVersion = 2
    MaxCalls = 3
SPECIFICATION Spec
INVARIANT VarySound
INVARIANT EveryEntryIndexed
INVARIANT IndexedOnce
