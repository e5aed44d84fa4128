SPECIFICATION Spec
CONSTANTS
    Authored = {"good", "bad"}
    Malformed = {}
    Failing = {"bad"}
    Members = {"m1"}
    Versions = {"v1"}
    Address = "ip"
    Slots = {s1, s2}
    OkStages = {"started"}
    FailStages = {"test"}
    ProgressStages = {"fetched"}
    MayOmitHash = TRUE
    MaxEdits = 2
    MaxLate = 1
    MaxLost = 1
    MaxCrashes = 1
    Null = Null
SYMMETRY SlotSymmetry
INVARIANTS TypeOK ProtocolInv ClaimsWereRun DiagnosisIsWhole
PROPERTIES ShowsWhatRan  ReportsNeverUndo
