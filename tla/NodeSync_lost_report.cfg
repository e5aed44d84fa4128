SPECIFICATION FairSpec
CONSTANTS
    Authored = {"good", "bad"}
    Malformed = {}
    Failing = {"bad"}
    Members = {"m1"}
    Versions = {"v1"}
    Address = "ip"
    Slots = {s1, s2}
    OkStages = {"started"}
    FailStages = {"test"}
    ProgressStages = {"fetched"}
    MayOmitHash = FALSE
    MaxEdits = 2
    MaxLate = 0
    MaxLost = 1
    MaxCrashes = 0
    Null = Null
PROPERTY ErrorClears
