SPECIFICATION FairSpec
CONSTANTS
    Absent = Absent
    Unusable = Unusable
    NoAddress = NoAddress
    Numeric = Numeric
    PatternTakes <- MCPatternTakes
    Nodes = {"tokyo", "osaka"}
    Users = {"ann", "bob"}
    Viewed = "ann"
    Configs <- MCConfigs
    Addresses <- MCAddresses
    Profiles <- MCProfiles
    AccessLists <- MCAccessLists
    Expiries <- MCExpiries
    Edited = {"ann"}
    Start <- MCStart
    Changes = {"config", "address", "profile", "key", "access", "user", "token"}
    MaxEdits = 2
    MaxClock = 2
INVARIANTS TypeOK LinksWork EveryClientHasLink NodesApart RoutesAreRenamed
PROPERTIES AtomicIfUndisturbed LinksSettle
