\* Two lockers, locks of up to three ticks, two distributions; two stakers, two lots, a premium
\* share of one half.
SPECIFICATION MCSpec
CONSTANTS
    None = None
    MaxTime = 3
    Lockers = {alice, bob}
    Amounts = {2, 3}
    Durations = {1, 3}
    Fees = {2, 3}
    MAX_LOCK_TIME = 3
    SCALE = 10
    MaxLocked = 8
    MaxFees = 5
    BackstopTime = 1
    Stakers = {s1, s2}
    StakeAmounts = {2}
    FlowAmounts = {1, 2}
    Lockups = {1}
    SplitBps = {2}
    BpsDenom = 2
    PremiumShareBps = 1
    MaxLots = 2
    MaxShares = 4
    MaxReserve = 5
    MaxFlow = 1
    QueueStakers = {q1, q2}
    QueueShares = {1, 3}
    QueueCapital = {0, 1, 2, 5}
    MaxQueued = 3
    Guardians = {g1, g2, g3}
    GuardianDelays = {1}
    LossAmounts = {1, 2}
    MaxEvents = 1
SYMMETRY StakingSymmetry
INVARIANTS
    LocksReturnable
    CapitalRulesHold
PROPERTIES
    LocksHold
    StakersNotDiluted
CHECK_DEADLOCK FALSE
