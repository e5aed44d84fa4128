SPECIFICATION Spec
CONSTANTS
    Absent = Absent
    Unusable = Unusable
    NoAddress = NoAddress
    Numeric = Numeric
    PatternTakes <- MCPatternTakes
    Nodes = {"tokyo", "osaka"}
    Users = {"ann", "bob"}
    Viewed = "ann"
    Configs <- FragileConfigs
    Addresses <- MCAddresses
    Profiles <- FragileProfiles
    AccessLists <- MCAccessLists
    Expiries <- MCExpiries
    Edited = {"ann"}
    Start <- PublicStart
    Changes = {"config", "profile"}
    MaxEdits = 1
    MaxClock = 1
CHECK_DEADLOCK FALSE
INVARIANT NeverAnError
