SPECIFICATION MCSpec
CONSTANTS
    t1 = t1  t2 = t2  c1 = c1
    Txs <- MCTxs
    TxSeq <- MCTxSeq
    Captures = {c1}
    Requests <- AllOrNone
    Torn = Torn
    MaxPruned = 1
    MaxDamage = 1
    Tools <- BothTools
    MaxSales = 2
    MaxChanges = 2
    MaxTroubles = 2
    RPC_ATTEMPTS = 2
    RETRY_BUDGET = 3
INVARIANTS NoFalseAccusation GreenWasTrue
PROPERTIES HeldBytesAreKept
