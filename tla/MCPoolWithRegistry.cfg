SPECIFICATION FairPRSpec
CONSTANTS
    Providers = {lp}
    Amounts = {8}
    InitialConfig <- MCConfig
    Configs <- MCConfigs
    Offers <- MCOffers
    Premium <- MCPremium
    Readings = {8, 9}
    Gifts = {}
    BPS = 10
    PRECISION = 10
    DAY = 1
    FRESH = 1
    MaxPolicies = 2
    MaxTime = 2
    MaxCapital = 8
    Addresses = {pool, otherPool, boss}
    PoolAddress = pool
    RegistryAdmin = boss
    Holders = {h}
    Premiums = {1}
    ChangeDelays = {1}
    None = None
    MaxForeignCalls = 1
INVARIANTS
    NothingInForceUnlisted
    RegistryNeverBlocksPayout
PROPERTIES
    PoliciesSettle
CHECK_DEADLOCK FALSE
