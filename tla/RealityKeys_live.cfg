SPECIFICATION FairSpec
CONSTANTS
    Tags = {"t1", "t2"}
    Slots = {s1, s2}
    Rotations = {"rotate-one", "rotate-all"}
    MaxEdits = 1
    MaxRotations = 1
    MaxKeys = 3
    MaxDeaths = 1
    Null = Null
INVARIANTS TypeOK KeysInv NoPlaceholderServed
PROPERTIES SettledKeysStay LinksMatchServed
