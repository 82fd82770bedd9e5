SPECIFICATION Spec
CONSTANTS
    c1 = c1
    c2 = c2
    r1 = r1
    r2 = r2
    k1 = k1
    Cameras = {c1, c2}
    Regions = {r1, r2}
    CameraRegion <- MCCameraRegion
    DefaultRegion = r1
    Clients = {}
    Requests = {"region"}
    Faults = {"cloud", "persist"}
    NoCamera = NoCamera
    NoRegion = NoRegion
    NoSource = NoSource
    NoWork = NoWork
    NoJob = NoJob
INVARIANTS
    RetryingBacked
    InProgressOwnedAuthenticated
    RetryKeepsInput
PROPERTIES
    NewestRegionOnly
