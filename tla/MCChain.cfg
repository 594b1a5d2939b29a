CONSTANTS
    Block = {"g", "r1", "a2", "a3", "a4", "b2", "b3", "b4", "e5", "n2"}
    Genesis = "g"
    NoBlock = "none"
    Parent <- MCParent
    BlockWork <- MCBlockWork
    Timestamp <- MCTimestamp
    CoinbaseHeight <- MCCoinbaseHeight
    Early <- MCEarly
    Late <- MCLate
    Unconnectable <- MCUnconnectable
    Alterable <- MCAlterable
    Coin <- MCCoin
    Creates <- MCCreates
    Spends <- MCSpends
    Transient <- MCTransient
    Tx <- MCTx
    Txs <- MCTxs
    Clock = {0, 1}
    MaxFutureTime = 0
    MaxCandidates = 64
    MaxInvalid = 3
    UndoKeep = 100
    PruneKeep = 100
SPECIFICATION FairSpec
INVARIANTS
    ActiveChainIsPath
    UtxoMatchesChain
    NoDoubleSpend
    MostWorkIsActive
    RejectionIsJustified
    ListenersFollow
PROPERTIES
    TipWorkGrows
    AddBlockReturns
    ImplementsLedger
