\* Three calls over two nonce managers; two locks, three blocks, a crash and a failed
\* subscription; three rounds; two orchestrators and four blocks in rounds of two;
\* two past events and a new one of each kind; two goroutines that set prices and deposit.
CONSTANTS
    Parts = {"nonces", "unbonding", "reward", "rounds", "events", "client"}
    Calls = {c1, c2, c3}
    Sessions = 2
    Managers = 2
    MaxNonce = 1
    Prices = {9}
    None = None
    Absent = Absent
    NoTx = NoTx
    Ids = {u1, u2}
    MaxBlock = 3
    MaxCrash = 1
    MaxAsk = 0
    MaxSubErr = 1
    MaxRound = 3
    MaxDeadline = 2
    MaxError = 2
    MaxDrop = 2
    n1 = n1
    n2 = n2
    Nodes = {n1, n2}
    Pools <- PoolsOfTwo
    Hashes = {0}
    RoundLength = 2
    BlocksToWait = 1
    MaxHeader = 4
    MaxFail = 1
    Prompt = FALSE
    ChanLen = 1
    Past = 2
    New = 1
    MaxSubFail = 1
    Callers = {g1, g2}
    Amounts = {1}
    MaxPrice = 2
    MaxCalls = 2
    MaxChanges = 1
SPECIFICATION MCSpec
INVARIANTS
    UniqueNonces
    PriceBump
    ReplayComplete
    OneOutstanding
    WatchesAfterRace
    IterationComplete
    OwnValue
SYMMETRY Symmetry
CHECK_DEADLOCK FALSE
