SPECIFICATION MCSpec
CONSTANTS
    shop = shop
    other = other
    owner = owner
    agent = agent
    usdc = usdc
    dollar = dollar
    groceries = groceries
    rent = rent
    nonce = nonce
    m1 = m1
    m2 = m2
    feed = feed
    None = None
    Wallets <- MCWallets
    Mints <- MCMints
    Pools <- MCPools
    Agent = agent
    Owner = owner
    Receiver = shop
    Mint = usdc
    Delegation = groceries
    Ceiling = 2
    Nonce = nonce
    OracleProgram = "oracle"
    Feed = feed
    Worlds <- MCWorlds
    Menus <- MCMenus
    Memos <- MCMemos
    Prices <- MCPrices
    DefaultUnits = 2
    MaxPriority = 8
    PoolSize = 3
    MaxBuilds = 2
    Forged <- MCForged
    ForgedPublish <- MCForgedPublish
    Absent = Absent
    Blank = Blank
    ReadMints = {usdc, oldMint, Blank}
    recalled = recalled
    oldMint = oldMint
    name = name
    oldName = oldName
    MERCHANT = shop
    MINT = usdc
    LABEL = name
    MAX_WALKBACK_DAYS = 1
    MIN_PLAUSIBLE = 30
    MAX_PLAUSIBLE = 100
    MIN_ORDER_BRL = 1
    MAX_ORDER_BRL = 12
    Rates <- MCRates
    Orders <- MCOrders
    Values <- MCValues
    Recipients = {shop, recalled}
    Labels = {name, oldName}
INVARIANTS OnlyTheConfiguredPayment LinkAsksTheOrder
PROPERTIES HonestIsSigned HonestOrderIsLinked
CHECK_DEADLOCK FALSE
