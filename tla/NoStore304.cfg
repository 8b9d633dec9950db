CONSTANTS
    Absent = Absent
    Bare = Bare
    MaxDuration = 63
    Second = 1
    Fields = {}
    Urls = {"/a"}
    Values = {""}
    NoValue = ""
    Star = "*"
    Normalize <- MCNormalize
    VaryHash <- MCVaryHash
    Clients = {c1}
    Workers = {}
    Origin <- MCOrigin
    Requests <- RaceRequests
    Replies <- NoStore304Replies
    Faults = {}
    MaxTime = 0
    MaxVersion = 2
    MaxCalls = 3
SPECIFICATION Spec
INVARIANT NoStoreNeverStored
