CONSTANTS
    d0 = d0
    d1 = d1
    Requests = {r1, r2}
    Batches = {r2}
    Cancellable = {r2}
    Credentials <- OnlyOut
    Devices = {d0, d1}
    Platforms <- BothPlatforms
    MaxDeviceRetries = 2
    Lifetime = 1
    MaxEpoch = 1
    MaxClock = 0
    MaxInvalidations = 0
    NoQimei = NoQimei
    NoSession = NoSession
    NoCredential = NoCredential
    NoPayload = NoPayload
    NoRequest = NoRequest
SPECIFICATION StillSpec
INVARIANTS IInv
PROPERTIES BoundAtOnce
