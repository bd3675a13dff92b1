\* Two requests over two tokens; two backstops with tokens of others; two withdrawals with
\* overlapping windows; three failed payouts of two sizes; three references for two payees.
SPECIFICATION MCSpec
CONSTANTS
    None = None
    MaxTime = 5
    Accounts = {admin, u}
    Admin = admin
    Tokens = {usd, eur}
    PayAmounts = {1, 2}
    Backstops = {b1, b2}
    MaxRequests = 2
    MaxDeposit = 2
    MaxOthers = 1
    Assets = {usdc, xlm}
    Feeds = {f1, f2}
    Holdings = {0, 3}
    Prices = {0, 1, 3}
    PRICE_SCALE = 2
    Stakeholders = {s1, s2}
    WithdrawalAmounts = {1, 5}
    Threshold = 5
    Window = 2
    MaxWithdrawals = 2
    FULL_BPS = 10
    target_bps = 3
    Inflows = {1, 2, 3}
    Obligations = {0, 5, 10}
    MaxInflow = 9
    Recipients = {r1, r2}
    PaymentAmounts = {1, 2}
    RECLAIM_TIMEOUT = 2
    Endowment = 5
    MaxPayoutRecords = 3
    Principals = {p1, p2}
    Payees = {q1, q2}
    References = {x, y, z}
    PaidAssets = {usdc, xlm}
    PaidAmounts = {1, 2}
    MAX_PAGE_SIZE = 2
    NoOne = NoOne
SYMMETRY TreasurySymmetry
INVARIANTS
    CustodyExact
    SafeguardsHold
    EarmarkExact
    IndexExact
PROPERTIES
    ImplementsPromises
    OwedImplementsPromises
CHECK_DEADLOCK FALSE
