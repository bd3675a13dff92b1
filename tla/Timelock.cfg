\* Two operations: every interleaving of forwarding, failing, retrying, cancelling,
\* expiring and rewarding, under keepers that keep sweeping.
CONSTANTS
    MaxOps = 2
    MaxTime = 3
    Etas = {0, 1, 2, 3, 4}
    MaxReverts = 1
    Delays = {0, 1}
    KeeperRewards = {0, 1}
    KeeperCaps = {1}
    EpochLens = {0, 2}
    NoKeeper = NoKeeper
SPECIFICATION FairSpec
INVARIANTS
    Inv
    KeeperCap
PROPERTIES
    FinalStatuses
    ImplementsDelayedCalls
    DueOpsResolve
