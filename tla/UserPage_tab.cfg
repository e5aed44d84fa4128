SPECIFICATION PageSpec
CONSTANTS
    Users = {"ann"}
    NumNodes = 2
    Tags = {"out", "old"}
    Shown = {"out"}
    Notes = {"never"}
    Payloads <- MCPayloads
    Blank = "never"
    Slots = {form, card}
    Form = form
    Card = card
    Kinds = {"create", "update", "delete", "sub-token"}
    MaxRequests = 3
    MaxDeaths = 1
    MaxEdits = 2
    Null = Null
CHECK_DEADLOCK FALSE
INVARIANTS TypeOK NoOrphanAccess RevokesFirst UuidForEveryGrant
PROPERTIES UuidsStable  AccessIsAuthoritative EditsKeepToken HiddenTagsSurvive
