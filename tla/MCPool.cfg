SPECIFICATION PoolSpec
CONSTANTS
    alice = alice
    bob = bob
    Providers = {alice, bob}
    Amounts = {4}
    InitialConfig <- MCConfig
    Configs <- MCConfigs
    Offers <- OneOffer
    Premium <- MCPremium
    Readings = {1}
    Gifts = {4}
    BPS = 10
    PRECISION = 10
    DAY = 1
    FRESH = 1
    MaxPolicies = 2
    MaxTime = 2
    MaxCapital = 8
SYMMETRY ProviderSymmetry
INVARIANTS
    PoolInv
    PolicyholdersCovered
PROPERTIES
    SharePriceHolds
CHECK_DEADLOCK FALSE
