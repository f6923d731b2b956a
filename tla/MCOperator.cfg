\* Two requests, at the same time or one after the other: at most four transactions, two
\* rounds, one of which fits in a claim.  Three options of the console, for an account of
\* one token, while three blocks are mined and two rounds end.  Two blocks and a failed
\* subscription; two goroutines with two operations each, two tickets, a lock, and two starts
\* from a new, a current or a later file.
CONSTANTS
    Parts = {"requests", "console", "life", "database"}
    Handlers = {h1, h2}
    Amounts = {1}
    MaxClaims = 1
    MaxRetries = 1
    MaxRequests = 2
    MaxRound = 2
    LastRound = 3
    MaxTxs = 4
    AccountTokens = 1
    MinEscrow = 2
    UnlockPeriod = 1
    Period = 1
    ClaimRounds = 1
    MaxOptions = 3
    MaxBlock = 3
    MaxFunds = 2
    MaxHead = 2
    MaxSubErr = 1
    Goroutines = {g1, g2}
    Tickets = {t1, t2}
    Locks = {l1}
    LivepeerDBVersion = 1
    Versions = {0, 1, 2}
    MaxStarts = 2
    MaxOps = 2
SPECIFICATION MCSpec
INVARIANTS
    ClaimsFit
    RestFits
    MinedInTurn
    
    BlocksAfterReplay
    CleanReturn
    NothingLeftOpen
    ConnectionFreed
SYMMETRY Symmetry
CHECK_DEADLOCK FALSE
