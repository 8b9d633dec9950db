CONSTANTS
    Absent = Absent
    Bare = Bare
    MaxDuration = 63
    Second = 1
    Fields = {"Accept", "*"}
    Urls = {"/a"}
    Values = {"", "en", "EN", "fr"}
    NoValue = ""
    Star = "*"
    Normalize <- MCNormalize
    VaryHash <- MCVaryHash
    Clients = {c1, c2}
    Workers = {}
    Origin <- MCOrigin
    Requests <- RaceRequests
    Replies <- RaceReplies
    Faults = {}
    MaxTime = 0
    MaxVersion = 3
    MaxCalls = 3
SYMMETRY Symmetry
SPECIFICATION Spec
INVARIANT TypeOK
INVARIANT InvalidationEffective
INVARIANT RevalidatedIsCurrent
INVARIANT VarySound
