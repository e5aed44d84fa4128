SPECIFICATION Spec
CONSTANTS
    Nodes = {"tokyo01"}
    Ids = {"cdn"}
    Tags = {"in", "in-tokyo01"}
    Qualified = {"in-tokyo01"}
    Configs = {{"in"}, {"in-tokyo01"}}
    Labels = {"Tokyo"}
    Addresses = {"", "vpn"}
    Reports = {"ip"}
    Slots = {s1, s2}
    MaxRequests = 6
    MaxDeaths = 1
    MaxGiveUps = 1
    Null = Null
SYMMETRY SlotSymmetry
CHECK_DEADLOCK FALSE
INVARIANTS TypeOK RotationIsImmediate ShownTokenWorks ProfilesNameDeclared
PROPERTIES ColumnOwners OnlyCreatesMakeProfiles
