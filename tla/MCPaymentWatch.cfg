CONSTANTS
    old = old
    payment = payment
    failing = failing
    phantom = phantom
    noise = noise
    dust = dust
    Txs <- MCTxs
    Matching <- MCMatching
    Failed <- MCFailed
    Phantoms <- MCPhantoms
    Unreadable <- MCUnreadable
    Before <- MCBefore
    FirstCursor = 1
    PageSize = 1
    MaxPages = 3
    Endpoints = 2
    MaxFaults = 1
SPECIFICATION FairSpec
INVARIANTS
    NothingSkipped
    PaidIsReal
PROPERTIES
    PaymentIsReported
CHECK_DEADLOCK FALSE
