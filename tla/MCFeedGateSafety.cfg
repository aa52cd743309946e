CONSTANTS
    alice = alice
    bob = bob
    n1 = n1
    n2 = n2
    n3 = n3
    NoPayment = NoPayment
    Payers <- MCPayers
    Nonces <- MCNonces
    Payments <- SafetyPayments
    Days = {0, 1}
    LastDay = 1
    Amounts = {1, 2}
    PriceSingle = 1
    PriceDayPass = 2
    Cap = 2
    U64Max = 4
    Attempts = 1
    MaxCrashes = 2
    Forks = TRUE
    ReplyLoss = TRUE
    LogFaults = {}
SPECIFICATION Spec
PROPERTIES ImplementsSaleContract
