CONSTANTS
    Absent = Absent
    Bare = Bare
    MaxDuration = 63
    Second = 1
    Fields = {}
    Urls = {"/a"}
    Values = {""}
    NoValue = ""
    Star = "*"
    Normalize <- MCNormalize
    VaryHash <- MCVaryHash
    Clients = {c1}
    Workers = {w1}
    Origin <- MCOrigin
    Requests <- SwrRequests
    Replies <- SwrReplies
    Faults = {"upstream", "getRefs", "setRefs", "delete"}
    MaxTime = 2
    MaxVersion = 2
    MaxCalls = 3
SPECIFICATION FairSpec
INVARIANT InvalidationEffective
INVARIANT UsableWithoutContact
INVARIANT StoredBodiesWhole
PROPERTY RevalidationEnds
