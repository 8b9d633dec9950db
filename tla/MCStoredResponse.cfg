CONSTANTS
    Absent = Absent
    Bare = Bare
    MaxDuration = 63
    Second = 2
    Fields = {}
    Templates <- MCTemplates
    Freshenings <- MCFreshenings
    ReqCCs <- MCReqCCs
    Codes = {200, 302}
    MaxTransit = 3
    MaxSkew = 4
    MaxTime = 9
SPECIFICATION Spec
CHECK_DEADLOCK FALSE
INVARIANT TypeOK
INVARIANT AgeNeverUnderestimated
INVARIANT FreshOnlyWithinAllowance
PROPERTY StaleStaysStale
