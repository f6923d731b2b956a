\* Two PM sessions and two runs of the process, one request and one loop at a time;
\* two segments of nodes that are off chain.
CONSTANTS
    Parts = {"tickets", "exchange"}
    m1 = m1
    Rands = {r1, r2}
    Manifests = {m1}
    Handlers = {h1}
    Loops = {l1}
    ManifestOf <- MCManifestOf
    LoopFor <- MCLoopFor
    Winning <- MCLaterWins
    MaxNonce = 2
    MaxEpoch = 2
    NoTicket = NoTicket
    Segments = {s1, s2}
    NumProfiles = 2
    Onchain = FALSE
    Orchs = {o1, o2}
    StartPool <- MCStartPool
    NumOrchestrators = 1
    MaxAge = 1
    MaxTime = 2
    MaxChanges = 2
    None = None
SPECIFICATION MCFairSpec
INVARIANT WinningTicketTracked
PROPERTIES
    ImplementsLedger
    FiledTicketRedeemed
    SubmitReturns
CHECK_DEADLOCK FALSE
