CONSTANTS
    d0 = d0
    d1 = d1
    Requests = {r1}
    Batches = {}
    Cancellable = {}
    Credentials <- OnlyOut
    Devices = {d0, d1}
    Platforms <- Android
    MaxDeviceRetries = 2
    Lifetime = 1
    MaxEpoch = 0
    MaxClock = 0
    MaxInvalidations = 1
    NoQimei = NoQimei
    NoSession = NoSession
    NoCredential = NoCredential
    NoPayload = NoPayload
    NoRequest = NoRequest
SPECIFICATION Spec
INVARIANTS InvalidationSticks
