SPECIFICATION Spec
CONSTANTS
    Tags = {"t1"}
    Slots = {s1, s2}
    Rotations = {}
    MaxEdits = 0
    MaxRotations = 0
    MaxKeys = 3
    MaxDeaths = 0
    Null = Null
PROPERTY StableUnlessRotated
