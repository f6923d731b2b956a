\* One lock, three blocks, a crash, a failed subscription and a request of
\* /unbondingLocks; two rounds.
CONSTANTS
    Parts = {"unbonding", "reward"}
    Calls = {c1, c2, c3}
    Sessions = 1
    Managers = 1
    MaxNonce = 1
    Prices = {1}
    None = None
    Absent = Absent
    NoTx = NoTx
    Ids = {u1}
    MaxBlock = 3
    MaxCrash = 1
    MaxAsk = 1
    MaxSubErr = 1
    MaxRound = 2
    MaxDeadline = 2
    MaxError = 1
    MaxDrop = 1
    n1 = n1
    n2 = n2
    Nodes = {n1, n2}
    Pools <- PoolsOfTwo
    Hashes = {0}
    RoundLength = 3
    BlocksToWait = 2
    MaxHeader = 4
    MaxFail = 0
    Prompt = FALSE
    ChanLen = 1
    Past = 2
    New = 1
    MaxSubFail = 1
    Callers = {g1, g2}
    Amounts = {1}
    MaxPrice = 2
    MaxCalls = 2
    MaxChanges = 1
SPECIFICATION MCFairSpec
PROPERTIES
    UsedForGood
    RewardCalled
CHECK_DEADLOCK FALSE
