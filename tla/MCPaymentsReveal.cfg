CONSTANTS
    Parts = {"tickets"}
    m1 = m1
    Rands = {r1}
    Manifests = {m1}
    Handlers = {h1, h2}
    Loops = {l1, l2}
    ManifestOf <- MCManifestOf
    LoopFor <- MCLoopFor
    Winning <- MCWinning
    MaxNonce = 2
    MaxEpoch = 1
    NoTicket = NoTicket
    Segments = {s1, s2}
    NumProfiles = 2
    Onchain = TRUE
    Orchs = {o1, o2}
    StartPool <- MCStartPool
    NumOrchestrators = 1
    MaxAge = 1
    MaxTime = 2
    MaxChanges = 2
    None = None
SPECIFICATION MCSpec
PROPERTY NoAcceptanceAfterReveal
CHECK_DEADLOCK FALSE
