\* Two publishers of one manifest, and two with a manifest each; two segments in two
\* renditions; two streams, of which one starts, and an event log with room for one event.
CONSTANTS
    Parts = {"streams", "own", "playlist", "log"}
    m1 = m1
    m2 = m2
    p1 = p1
    Publishers = {p1, p2}
    Manifests = {m1, m2}
    MidOf <- MCSameMid
    Workers = {w1}
    MaxSessions = 2
    Discovery = TRUE
    MaxPending = 1
    None = None
    Profiles = {v1, v2}
    Source = Source
    Count = 2
    WinSize = 1
    CacheLen = 2
    Segs = {0, 1}
    Len30 = 1
    Kinds = {"memory", "s3", "google"}
    Stored = 2
    SessionCache = 1
    ListLen = 1
    PolicyLife = 1
    MaxTime = 2
    Streams = {"s1", "s2"}
    Sending = {"s1"}
    LogSegs = 0
    LogProfiles = {"v1", "v2"}
    ChanLen = 1
SPECIFICATION MCFairSpec
PROPERTIES
    LockGivenBack
    OwnPublisherServed
    SegmentFinishes
    StreamRegisters
CHECK_DEADLOCK FALSE
