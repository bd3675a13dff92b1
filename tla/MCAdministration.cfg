\* Three signers and three proposals; three addresses for admins and pools; two relayers, one feed.
SPECIFICATION MCSpec
CONSTANTS
    None = None
    MaxTime = 5
    a = a
    b = b
    c = c
    Signers = {a, b, c}
    SelfCallsRun = TRUE
    OwnerLists <- MCOwnerLists
    Payloads <- MCPayloads
    MaxProposals = 3
    Addresses = {a1, a2, a3}
    Holders = {h1, h2}
    Ids = {1, 2}
    Premiums = {1, 2}
    ChangeDelays = {0, 2}
    OracleAdmins = {a1, a2, a3}
    Relays = {r1, r2}
    Feeds = {usdc}
    Values = {1}
    Thresholds = {1}
    Deltas <- MCDeltas
    NOTICE = 2
    STALENESS = 2
    INTERVAL = 2
    INITIAL = 2
    FLOOR = 1
    CEILING = 3
    Roles = {"Pool", "Oracle"}
    Keys = {"paused", "custom"}
    WellKnown = {"paused"}
    Default = 0
    Settings = {1}
SYMMETRY MCSymmetry
INVARIANTS
    DistinctQuorum
    RelayersGaveNotice
    ServesNewest
    CountersAgree
    LockdownHolds
PROPERTIES
    RepointWaits
CHECK_DEADLOCK FALSE
