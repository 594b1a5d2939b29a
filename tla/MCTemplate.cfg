CONSTANTS
    Tx = {"r", "s", "x", "y", "z", "f"}
    NoTx = "none"
    Coin <- MCCoin
    Inputs <- MCInputs
    Outputs <- MCOutputs
    Fee <- MCFee
    Size <- MCSize
    LockTime <- MCLockTime
    Replaceable <- MCReplaceable
    Malformed = {}
    Block = {"g", "n1", "n2", "m1", "m2"}
    Genesis = "g"
    Parent <- MCParent
    Work <- MCWork
    BlockTxs <- MCBlockTxs
    Reward <- MCReward
    MatureAt <- MCMatureAt
    MinRelayFeePerKb = 1000
    MaxBytes = 6
    MaxVerified = 1
    MaxBlockBytes = 5
SPECIFICATION TSpec
INVARIANTS
    SpendIndexExact
    PoolIsValid
    StandaloneReturn
PROPERTIES
    RefusalChangesNothing
    TemplateConnects
