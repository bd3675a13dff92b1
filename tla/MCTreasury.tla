----------------------------- MODULE MCTreasury -----------------------------
(* The treasury crate, the failed-payout ledger of refract-common and the     *)
(* payout registry for TLC.  The parts share no state, so the first state     *)
(* says which one is at work and the others rest.  The treasury itself runs   *)
(* twice: with backstops, seeds and one request, and with every request and   *)
(* an allowlist of one but no backstop.                                       *)
EXTENDS Treasury, Safeguards, FailedPayouts, PayoutRegistry, TLC

VARIABLE part

rest(p) ==
    /\ p \notin {"payments", "seeding"} => UNCHANGED treasuryVars
    /\ p # "nav" => UNCHANGED navVars
    /\ p # "challenges" => UNCHANGED <<stakeholders, withdrawals, nextWithdrawalId, approvedAt, turnedDown>>
    /\ p # "reserve" => UNCHANGED reserveVars
    /\ p # "failed" => UNCHANGED <<coffer, available, liability, payoutRecords, payoutCount, delivered>>
    /\ p # "registry" => UNCHANGED payoutRegistryVars
    /\ p \notin {"challenges", "failed"} => UNCHANGED now

\* Challenge windows need less time than reclaims.
ChallengeTime == 4

MCInit ==
    /\ part \in {"payments", "seeding", "nav", "challenges", "reserve", "failed", "registry"}
    /\ LedgerInit /\ TreasuryInit /\ ChallengesInit /\ ReserveInit
    /\ FailedPayoutsInit /\ PayoutRegistryInit
    /\ IF part = "nav" THEN NavInit ELSE NavInit /\ holding = [t \in Assets |-> 0]

MCNext ==
    /\ UNCHANGED part
    /\ rest(part)
    /\ \/ /\ part = "payments" /\ TreasuryNext
          /\ UNCHANGED <<seeding, others>> /\ screening'[Admin] = None
       \/ part = "seeding" /\ TreasuryNext /\ UNCHANGED screening /\ nextRequestId' <= 1
       \/ part = "nav" /\ NavNext
       \/ part = "challenges" /\ ChallengesNext /\ now' <= ChallengeTime
       \/ part = "reserve" /\ ReserveNext
       \/ part = "failed" /\ FailedPayoutsNext
       \/ part = "registry" /\ PayoutRegistryNext

MCSpec ==
    /\ MCInit
    /\ [][MCNext]_<<part, treasuryVars, navVars, challengeVars, reserveVars, failedPayoutVars,
                    payoutRegistryVars>>

TreasurySymmetry == Permutations(Tokens) \cup Permutations(Backstops)
=============================================================================
