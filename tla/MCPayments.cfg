\* One PM session whose tickets all win, with two requests and two loops at a time;
\* two paid segments; two orchestrators, of which one is wanted.
CONSTANTS
    Parts = {"tickets", "exchange", "discovery"}
    m1 = m1
    Rands = {r1}
    Manifests = {m1}
    Handlers = {h1, h2}
    Loops = {l1, l2}
    ManifestOf <- MCManifestOf
    LoopFor <- MCLoopFor
    Winning <- MCWinning
    MaxNonce = 2
    MaxEpoch = 1
    NoTicket = NoTicket
    Segments = {s1, s2}
    NumProfiles = 2
    Onchain = TRUE
    Orchs = {o1, o2}
    StartPool <- MCStartPool
    NumOrchestrators = 1
    MaxAge = 1
    MaxTime = 2
    MaxChanges = 2
    None = None
SPECIFICATION MCSpec
INVARIANTS
    RecipientInv
    WorkedForPaidAndSigned
PROPERTY AskedWhileFresh
SYMMETRY Symmetry
CHECK_DEADLOCK FALSE
