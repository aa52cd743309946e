CONSTANTS
    r1 = r1
    scheduled = scheduled
    agents = agents
    temperature = temperature
    humidity = humidity
    Runs = {r1}
    RunNonce = scheduled
    AgentNonce = agents
    Kinds <- BothKinds
    FeedKind = temperature
    U64Max = 2
    MaxAge = 1
    StaleAfter = 0
    ReadFailures = {"silence"}
    FirstInstant = 1
    LastInstant = 3
    MaxNonce = 2
    MaxFiles = 1
    MaxFaults = 1
SPECIFICATION FairSpec
INVARIANTS
    ActsOnSignedReading
    AlarmIsTrue
PROPERTIES
    ImplementsFeedContract
    FeedKeepsClimbing
