CONSTANTS
    Parts = {"streams"}
    m1 = m1
    m2 = m2
    p1 = p1
    Publishers = {p1, p2, p3}
    Manifests = {m1, m2}
    MidOf <- MCSameMid
    Workers = {w1}
    MaxSessions = 0
    Discovery = TRUE
    MaxPending = 1
    None = None
    Profiles = {v1}
    Source = Source
    Count = 4
    WinSize = 2
    CacheLen = 3
    Segs = {0, 1, 2}
    Len30 = 2
    Kinds = {"memory", "s3", "google"}
    Stored = 2
    SessionCache = 1
    ListLen = 1
    PolicyLife = 1
    MaxTime = 2
    Streams = {"s1", "s2"}
    Sending = {"s1"}
    LogSegs = 1
    LogProfiles = {"v1", "v2"}
    ChanLen = 2
SPECIFICATION MCSpec
INVARIANT OneStreamPerManifest
CHECK_DEADLOCK FALSE
