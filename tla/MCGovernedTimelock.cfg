\* Three holders and one proposal, or one holder and two proposals whose target obeys the
\* timelock alone, or anyone.
CONSTANTS
    alice = alice
    bob = bob
    carol = carol
    Holders = {alice, bob, carol}
    gov = gov
    vegov = vegov
    Tokens = {gov, vegov}
    Supplies <- MCSupplies
    Configs <- MCConfigs
    MaxProposals = 2
    MaxTransfers = 2
    MaxTime = 3
    Delays = {1}
    MaxOps = 3
    Etas = {2, 3}
    KeeperRewards = {1}
    KeeperCaps = {1}
    EpochLens = {2}
    TargetAdmins = {"timelock", "anyone"}
    Payloads <- MCPayloads
    NoKeeper = NoKeeper
SPECIFICATION MCSpec
INVARIANTS
    OutcomeStands
    CallsWaitForDelay
    CallTakesEffectOnce
PROPERTIES
