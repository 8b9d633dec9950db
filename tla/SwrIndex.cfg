CONSTANTS
    Absent = Absent
    Bare = Bare
    MaxDuration = 63
    Second = 1
    Fields = {"Accept"}
    Urls = {"/a"}
    Values = {"", "en", "EN", "fr"}
    NoValue = ""
    Star = "*"
    Normalize <- MCNormalize
    VaryHash <- MCVaryHash
    Clients = {c1}
    Workers = {w1}
    Origin <- MCOrigin
    Requests <- SwrVariantRequests
    Replies <- SwrVariantReplies
    Faults = {}
    MaxTime = 2
    MaxVersion = 1
    MaxCalls = 4
SPECIFICATION Spec
PROPERTY StoreKeepsOtherVariants
