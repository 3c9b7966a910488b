CONSTANTS
    home = home
    other = other
    mock = mock
    unknown = unknown
    Requests = {r1}
    Waiters = {r1, w2, w3}
    Kinds <- AllKinds
    Origins = {home, other, mock, unknown}
    ProductionHosts = {home, other}
    Configured = {mock}
    Statuses = {200, 302, 307, 308, 404, 429, 500}
    RetryMax = 1
    MaxRedirects = 2
    NoLimit = NoLimit
    NoSend = NoSend
    MaxBody = 2
    Unit = 3
    Rate = 2
    Capacity = 2
    Second = 4
    MaxIdle = 1
    MaxLate = 1
SPECIFICATION MCSpec
CHECK_DEADLOCK FALSE
INVARIANTS WindowRule SecretsStayHome WriteAtMostOnce
PROPERTIES SilentOnceCancelled EveryCallEnds
