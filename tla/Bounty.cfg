\* A payout, two pushed awards and two commitments of two tokens each, competing for four;
\* two addresses, so that governance and payout addresses change hands.
SPECIFICATION FairBountySpec
CONSTANTS
    Addresses = {a, b}
    Reports = {r1, r2}
    Commitments = {c1, c2}
    Amounts = {2}
    Fundings = {4}
    BINDING_TTL = 0
    None = None
    MaxTime = 1
    MaxPayouts = 1
    MaxFunded = 4
INVARIANTS
    OutstandingCovered
    OneCommitmentPerReport
PROPERTIES
    SettlementsFinal
    PayoutsSettle
CHECK_DEADLOCK FALSE
