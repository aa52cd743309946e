SPECIFICATION DeploySpec
CONSTANTS
    skill = skill  sop = sop  paylink = paylink  unit = unit  source = source
    good = good  wrong = wrong
    timer = timer  job = job  agent = agent
    None = None
    Source = source
    PinSource = paylink
    Entries <- MCEntries
    MIN_FILES = 2
    UnitFiles <- MCUnitFiles
    Prose <- MCProse
    Scripts <- MCScripts
    Contents <- MCContents
    OtherNetwork <- MCWrong
    Foreign <- MCNone
    Pinned <- MCContents
    Timers <- MCTimers
    Oneshots <- MCOneshots
    Daemons <- MCDaemons
    MaxEdits = 1
    MaxCommits = 2
    MaxTools = 2
    MaxDrift = 1
ACTION_CONSTRAINT RepoStepsCommute
PROPERTIES GreenMeansDeployed MarkerNamesTheBox CorrectBoxTurnsGreen DriftTurnsRed
CHECK_DEADLOCK FALSE
