CONSTANTS
    Interval = 2
    ScannedInterval = 1
    ErrorInterval = 3
    Timeout = 4
    MaxBackoffExp = 1
    NoTime = NoTime
    NoEvent = NoEvent
    MaxQrClock = 5
    LifeTime = 1
    OwnKeepAlive = 1
    KeepAlives = {0}
    MaxHops = 1
    Ids = {1}
    Messages <- MCMessages
    NoMessage = NoMessage
    NoDeadline = NoDeadline
    MaxPublished = 2
    MaxLink = 2
    MaxMqttClock = 1
    Uploads = {u1, u2}
    Shas = {"a", "b"}
    Lists <- MCLists
    Margin = 1
    Validity = 2
    NoPlan = NoPlan
    Nobody = Nobody
    MaxPlans = 2
    MaxUpClock = 1
    Absent = Absent
    Limit = 2
    MaxTotal = 3
    MaxPage = 3
    PageLimits = {Absent, 0, 2}
    NoParams = NoParams
    Attempts = {w1, w2}
    ReadRetries = 1
    MaxRedirects = 1
    MaxCalls = 2
    Accounts = {a1, a2}
    Guest = Guest
    Placeholder = Placeholder
    NoArgument = NoArgument
    NoAccount = NoAccount
    NoEndpoint = NoEndpoint
    Resends = 1
    Qualities = {1, 2, 3}
    Encrypted = {1, 2}
    NoQuality = NoQuality
    FileNames = {f1, f2}
    MaxFileRows = 2
    Radix = 2
    MaxVarint = 3
    MaxPacket = 3
    Bodies <- MCBodies
    FirstByte = 3
    NoVarint = NoVarint
    MaxSent = 3
    Keys <- MCKeys
    LongKey = 2
    FirstSegment = 2
    Segment = 3
    Wrap = 4
    MaxAudio = 7
    Texts = {"none", "a"}
    Rows <- MCRows
    Empty = "none"
    Probes = {0, 500, 1000, 2000, 3000}
    MaxRows = 3
SPECIFICATION Spec
INVARIANTS
    ListWellFormed
    DeliveredOnce
    NothingLost
    EventsWellFormed
    RightObject
    FinishedWhole
    WalkComplete
    PagerConsecutive
    OnlyOwnCookies
    CodeNotReplayed
    ExplicitIsWhole
    AnswerMeansEffect
    BestIsBest
    FramesExact
    PiecesMakeWhole
    OneLineAtATime
PROPERTIES
    PollsSpaced
    SilentAfterCancel
CHECK_DEADLOCK FALSE
