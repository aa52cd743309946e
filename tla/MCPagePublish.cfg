SPECIFICATION MCSpec
CONSTANTS
    s1 = s1  s2 = s2
    index = index  bundle = bundle  style = style  headers = headers
    cA = cA  cB = cB  cLeak = cLeak  cBig = cBig  cHole = cHole  cStale = cStale  cRef = cRef  cLink = cLink
    docA = docA  docB = docB  docRef = docRef
    code = code  sheet = sheet  big = big  leak = leak  rules = rules
    None = None  Empty = Empty  Mixed = Mixed
    Index = index
    Sessions <- MCSessions
    Commits <- MCCommits
    Serve <- MCServe
    Special <- MCSpecial
    Blob <- MCBlob
    Refs <- MCRefs
    Size <- MCSize
    Leaky <- MCLeaky
    Oversized <- MCOversized
    Unbuilt <- MCUnbuilt
    Irregular <- MCIrregular
    UploadAttempts = 2
    BatchFiles = 2
    BatchBytes = 2
    MaxFaults = 2
    ChunkBlocks = 2
    MaxBlocks = 40
INVARIANTS PlanIsUploaded LivePageIsWhole RootIsTree
PROPERTY FailedUploadLeavesNoPlan
CHECK_DEADLOCK FALSE
