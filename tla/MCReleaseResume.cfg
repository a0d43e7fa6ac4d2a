SPECIFICATION Spec
CONSTANTS
    Versions = {1}
    MaxAttempts = 2
    MaxPushes = 1
    MaxMishaps = 1
    MaxTroubles = 1
    Meddling = {}
    None = None
PROPERTIES
    ResumesItsOwn
CHECK_DEADLOCK FALSE
