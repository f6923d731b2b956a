\* Two transcode loops, two registrations of transcoders, three tasks.
CONSTANTS
    Parts = {"sessions", "remote"}
    m1 = m1
    m2 = m2
    r3 = r3
    c3 = c3
    Manifests = {m1, m2}
    Requests = {r1, r2, r3}
    Chans = {c1, c2, c3}
    ManifestOf <- MCManifestOf
    ChanFor <- MCChanFor
    MaxSessions = 1
    NoChan = NoChan
    NoRequest = NoRequest
    Loops = {l1, l2}
    Transcoders = {t1, t2}
    MaxTasks = 3
    None = None
SPECIFICATION MCSpec
INVARIANTS
    SessionsWithinLimit
    LoopOwnsChannel
    SegmentInOnePlace
    ResultNeverBlocks
SYMMETRY Symmetry
CHECK_DEADLOCK FALSE
