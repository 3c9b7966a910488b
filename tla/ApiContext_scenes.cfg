CONSTANTS
    d0 = d0
    d1 = d1
    Requests = {r1, r2}
    Batches = {}
    Cancellable = {}
    Credentials <- TwoCredentials
    Devices = {d0, d1}
    Platforms <- BothPlatforms
    MaxDeviceRetries = 2
    Lifetime = 1
    MaxEpoch = 2
    MaxClock = 1
    MaxInvalidations = 1
    NoQimei = NoQimei
    NoSession = NoSession
    NoCredential = NoCredential
    NoPayload = NoPayload
    NoRequest = NoRequest
SPECIFICATION SceneSpec
SYMMETRY Symmetry
INVARIANTS OneDevice NoWriteBack AppliesOnce OneAccount SingleFlight UsableWhenCalled
PROPERTIES GivesUpForCause
