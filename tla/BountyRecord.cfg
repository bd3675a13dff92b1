\* One report, rewarded twice.
SPECIFICATION BountySpec
CONSTANTS
    Addresses = {a, b}
    Reports = {r1}
    Commitments = {c1}
    Amounts = {1}
    Fundings = {2}
    BINDING_TTL = 0
    None = None
    MaxTime = 0
    MaxPayouts = 1
    MaxFunded = 2
PROPERTIES
    AwardsImmutable
CHECK_DEADLOCK FALSE
