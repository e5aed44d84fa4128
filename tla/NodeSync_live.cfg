SPECIFICATION FairSpec
CONSTANTS
    Authored = {"good", "bad", "broken"}
    Malformed = {"broken"}
    Failing = {"bad"}
    Members = {"m1", "m2"}
    Versions = {"v1"}
    Address = "ip"
    Slots = {s1, s2}
    OkStages = {"started"}
    FailStages = {"test"}
    ProgressStages = {}
    MayOmitHash = FALSE
    MaxEdits = 2
    MaxLate = 0
    MaxLost = 1
    MaxCrashes = 1
    Null = Null
PROPERTIES Converges BoardSettles
