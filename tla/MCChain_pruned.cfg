CONSTANTS
    Block = {"g", "r1", "a2", "a3", "b2", "b3", "f4", "i2", "i3", "i4", "l4", "x3"}
    Genesis = "g"
    NoBlock = "none"
    Parent <- MCParent
    BlockWork <- MCBlockWork
    Timestamp <- MCTimestamp
    CoinbaseHeight <- MCCoinbaseHeight
    Early <- MCEarly
    Late <- MCLate
    Unconnectable <- MCUnconnectable
    Alterable <- MCAlterable
    Coin <- MCCoin
    Creates <- MCCreates
    Spends <- MCSpends
    Transient <- MCTransient
    Tx <- MCTx
    Txs <- MCTxs
    Clock = {0}
    MaxFutureTime = 0
    MaxCandidates = 64
    MaxInvalid = 3
    UndoKeep = 1
    PruneKeep = 1
SPECIFICATION Spec
PROPERTIES
    ImplementsLedger
