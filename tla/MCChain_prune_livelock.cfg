CONSTANTS
    Block = {"g", "r1", "a2", "a3", "a4", "b2", "b3", "b4"}
    Genesis = "g"
    NoBlock = "none"
    Parent <- MCParent
    BlockWork <- MCBlockWork
    Timestamp <- MCTimestamp
    CoinbaseHeight <- MCCoinbaseHeight
    Early <- MCEarly
    Late <- MCLate
    Unconnectable <- MCUnconnectable
    Alterable = {}
    Coin <- MCCoin
    Creates <- MCCreates
    Spends <- MCSpends
    Transient <- MCTransient
    Tx <- MCTx
    Txs <- MCTxs
    Clock = {0}
    MaxFutureTime = 0
    MaxCandidates = 64
    MaxInvalid = 100
    UndoKeep = 100
    PruneKeep = 2
SPECIFICATION FairSpec
PROPERTIES
    AddBlockReturns
