CONSTANTS
    alice = alice
    bob = bob
    merchant = merchant
    n1 = n1
    n2 = n2
    n3 = n3
    NoNonce = NoNonce
    Payers <- MCPayers
    Nonces <- MCNonces
    Days <- MCDays
    Amounts <- MCAmounts
    Cap = 3
    U64Max = 5
    Wallets <- MCPayers
    Gate = merchant
    Delegates <- MCDelegates
    Funds <- MCFunds
    Single = 1
    DayPass = 2
    Presentable <- MCPresentable
SPECIFICATION GateSpec
CHECK_DEADLOCK FALSE
INVARIANTS HoldsWithinCap RowsAddUp MeteredIsPaid HonestIsAccepted
PROPERTIES RedeemedStayBurned
