CONSTANTS
    s1 = s1
    s2 = s2
    outgoing = outgoing
    Signatures <- MCSignatures
    Settlements <- MCSettlements
    Limit = 3
    MaxFaults = 2
    BareMeta <- OnlyOutgoing
SPECIFICATION FairSpec
INVARIANTS RecordedWasSent
PROPERTIES RecordedNeverSentAgain EverySettlementAnnounced
