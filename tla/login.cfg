SPECIFICATION Spec
CONSTANTS
    i1 = i1
    i2 = i2
    i3 = i3
    Ids = {i1, i2, i3}
    NoId = NoId
    Ring <- MCRing
    MaxLate = 2
    Faults = {"network", "memory", "rate", "reset", "persist"}
INVARIANTS
    AuthTruth
    CancelOwned
PROPERTIES
    RepeatRecognised
    AuthSettles
