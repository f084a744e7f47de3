SPECIFICATION Spec
CONSTANTS
    h1 = h1
    h2 = h2
    i1 = i1
    i2 = i2
    offline = offline
    corrupted = corrupted
    manifestKey = manifestKey
    Handlers = {h1, h2}
    Items = {i1}
    Codes = {offline, corrupted}
    RetryableCodes = {offline}
    Manifest = manifestKey
    LeaseMin = 1
    LeaseMax = 2
    MaxAttempts = 2
    LateHeartbeats = TRUE
    MaxLeases = 2
    MaxClock = 3
SYMMETRY Symmetry
CHECK_DEADLOCK FALSE
INVARIANTS ActiveIsReclaimable
