\* Three publishers that ask for one manifest; four segments against a window of two
\* and a cache of three; three segments against a ring of two;
\* two segments, every pair of storages, policies of an hour;
\* a stream that sends a segment with two renditions, and an event log with room for two events.
CONSTANTS
    Parts = {"streams", "playlist", "census", "storage", "log"}
    m1 = m1
    m2 = m2
    p1 = p1
    Publishers = {p1, p2, p3}
    Manifests = {m1, m2}
    MidOf <- MCSameMid
    Workers = {}
    MaxSessions = 2
    Discovery = TRUE
    MaxPending = 1
    None = None
    Profiles = {v1}
    Source = Source
    Count = 4
    WinSize = 2
    CacheLen = 3
    Segs = {0, 1, 2}
    Len30 = 2
    Kinds = {"memory", "s3", "google"}
    Stored = 2
    SessionCache = 1
    ListLen = 1
    PolicyLife = 1
    MaxTime = 2
    Streams = {"s1"}
    Sending = {"s1"}
    LogSegs = 1
    LogProfiles = {"v1", "v2"}
    ChanLen = 2
SPECIFICATION MCSpec
INVARIANTS
    ListenerOfRegistered
    NothingAfterEnd
    RingLatest
    ListedIsStored
PROPERTIES
    ImplementsLiveStream
    StoryInOrder
CHECK_DEADLOCK FALSE
