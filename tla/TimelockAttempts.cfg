\* One operation that is executed, retried and swept while its callee reverts.
CONSTANTS
    MaxOps = 1
    MaxTime = 2
    Etas = {1}
    MaxReverts = 2
    Delays = {1}
    KeeperRewards = {1}
    KeeperCaps = {1}
    EpochLens = {2}
    NoKeeper = NoKeeper
SPECIFICATION Spec
INVARIANT
    AttemptsRecorded
CHECK_DEADLOCK FALSE
