CONSTANTS
    alice = alice
    bob = bob
    n1 = n1
    n2 = n2
    n3 = n3
    NoPayment = NoPayment
    Payers <- MCPayers
    Nonces <- MCNonces
    Payments <- FewPayments
    Days = {0, 1}
    LastDay = 1
    Amounts = {1, 2}
    PriceSingle = 1
    PriceDayPass = 2
    Cap = 2
    U64Max = 4
    Attempts = 2
    MaxCrashes = 2
    Forks = FALSE
    ReplyLoss = FALSE
    LogFaults = {"drop", "torn", "unread"}
SPECIFICATION FairSpec
INVARIANTS LogIsInLedger MoneyInPlayIsMetered DefiniteMeansNothingMoves RestoredIsLowerBound
PROPERTIES EveryRequestEnds
