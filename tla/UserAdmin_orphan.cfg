SPECIFICATION Spec
CONSTANTS
    Users = {"ann"}
    NumNodes = 1
    Tags = {"out"}
    Notes = {"none"}
    Payloads <- AccessIn
    Slots = {s1, s2}
    Kinds = {"create", "update", "delete"}
    MaxRequests = 3
    MaxDeaths = 0
    Null = Null
CHECK_DEADLOCK FALSE
INVARIANT NoOrphanAccess
