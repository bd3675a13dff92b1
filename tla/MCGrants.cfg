\* Two grants of two milestones; one grant changed twice; two appeals with two panels each.
SPECIFICATION MCSpec
CONSTANTS
    None = None
    MaxTime = 5
    Grantees = {g1, g2}
    Schedules <- MCSchedules
    AwardTotals = {3}
    MaxGrants = 2
    FeeRates = {0, 4, 6}
    MAX_FEE_BPS = 5
    FeeDenom = 10
    Gifts = {3}
    MaxFunded = 6
    Grantee = grantee
    Governance = gov
    Reviewers = {grantee, v1, v2}
    Quorums = {0, 1}
    FirstSchedule <- MCFirstSchedule
    Amendments <- MCAmendments
    Extensions <- MCExtensions
    EarnedShares = {0, 1}
    BPS_DENOM = 2
    MAX_AMENDMENTS = 2
    Panelists = {w1, w2, original}
    OriginalReviewers = {original}
    Applicant = applicant
    APPEAL_WINDOW = 1
    REREVIEW_TIMEOUT = 1
    MaxRounds = 2
    MaxPanels = 2
INVARIANTS
    ClaimsPaidExactly
    ReviewersIndependent
    AwardConserved
    PanelDecides
PROPERTIES
    TerminatedGrantsClose
    AppealsResolve
CHECK_DEADLOCK FALSE
