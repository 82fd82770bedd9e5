SPECIFICATION Spec
CONSTANTS
    c1 = c1
    c2 = c2
    r1 = r1
    r2 = r2
    k1 = k1
    Cameras = {c1}
    Regions = {r1}
    CameraRegion <- MCOneCamera
    DefaultRegion = r1
    Clients = {k1}
    Requests = {"rtsp"}
    Faults = {}
    NoCamera = NoCamera
    NoRegion = NoRegion
    NoSource = NoSource
    NoWork = NoWork
    NoJob = NoJob
PROPERTIES
    RtspAnswered
    AiAttaches
