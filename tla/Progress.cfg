CONSTANTS
    Requests = {r1, r2}
    Batches = {r2}
    Cancellable = {}
    Devices = {d0}
    Platforms = {"android"}
    MaxDeviceRetries = 2
    Lifetime = 1
    MaxEpoch = 1
    MaxClock = 0
    MaxInvalidations = 0
    NoQimei = NoQimei
    NoSession = NoSession
    NoCredential = NoCredential
    NoPayload = NoPayload
    NoRequest = NoRequest
    Refreshers = {r1}
    Ensurers = {r2}
    Appliers = {}
    StoreAccounts = {1}
    MaxTurns = 2
    NoTask = NoTask
    NoLock = NoLock
    NoAccount = NoAccount
    MaxIssued = 2
    MaxSwitches = 2
    MaxRestarts = 1
    Interval = 2
    ScannedInterval = 1
    ErrorInterval = 3
    Timeout = 4
    MaxBackoffExp = 1
    NoTime = NoTime
    NoEvent = NoEvent
    MaxQrClock = 1
    LifeTime = 1
    OwnKeepAlive = 1
    KeepAlives = {0}
    MaxHops = 1
    Ids = {1}
    Messages <- MCMessages
    NoMessage = NoMessage
    NoDeadline = NoDeadline
    MaxPublished = 1
    MaxLink = 1
    MaxMqttClock = 1
SPECIFICATION Spec
CHECK_DEADLOCK FALSE
PROPERTIES
    CallsEnd
