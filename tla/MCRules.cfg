SPECIFICATION Spec
CONSTANTS
    alice = alice
    bob = bob
    carol = carol
    Key <- MCKey
    Coins <- MCCoins
    Witnesses <- MCWitnesses
    MaxPubkeys = 3
    MaxStack = 7
    MaxOps = 8
    Base = 4
    Width = 6
    Networks <- MCNetworks
    Steps <- MCSteps
    MaxHeight = 5
    ChainId = 1
    MaxDepth = 3
    SizeBits = 3
    Nonces = {0, 1}
    Sizes = {0, 1, 2, 3, 4}
    Indices = {0, 1, 2, 3}
    TreeHeights = {0, 1, 2}
    Transactions = {0, 1, 2, 3, 4}
    Address = {alice, bob}
    Nobody = nobody
    InitialSubsidy = 5
    HalvingInterval = 2
    CoinbaseMaturity = 1
    MinOutputValue = 1
    MaxMoney = 20
    Payments <- MCPayments
    Rewards = {5, 3}
    LockTimes = {0, 3}
    MaxChain = 3
    MaxSize = 2
    Thread = {t1, t2, t3}
    Stored = {"b1", "b2", "b3"}
    Size <- MCSize
    MaxBlocks = 2
    MaxBytes = 4
INVARIANTS
    BooksBalance
    CacheIsSound
    HeaderAndBlockAgree
    TargetStaysInBounds
    ScriptIsExact
    ProofIsExact
CHECK_DEADLOCK FALSE
