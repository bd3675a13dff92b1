------------------------------- MODULE Grants -------------------------------
(***************************************************************************)
(* RefractGrants (grants/src/contract.rs): the grant book of GrantsModel   *)
(* with tokens.  A claim pays the recipient net of a fee whose rate another*)
(* contract (the parameter registry) serves and may change at any time;    *)
(* fees accrue and anyone sweeps them to the treasury.  Tokens come in by  *)
(* plain transfer: there is no fund entrypoint.  Storage lifetimes (bump)  *)
(* and the reentrancy lock, which keeps a call atomic, are left out.       *)
(***************************************************************************)
EXTENDS GrantsModel

CONSTANTS
    FeeRates,          \* what the parameter registry's fee_bps may answer
    MAX_FEE_BPS, FeeDenom,   \* shared/fee.rs
    Gifts, MaxFunded   \* token transfers to the contract, and their bound

ASSUME GrantsFeeConstants ==
    /\ FeeRates \subseteq Nat /\ MAX_FEE_BPS \in Nat /\ FeeDenom \in Nat \ {0}
    /\ MAX_FEE_BPS <= FeeDenom
    /\ Gifts \subseteq Nat /\ MaxFunded \in Nat

VARIABLES
    grantBook,       \* DataKey::Grant(id), by id
    grantScreening,  \* DataKey::RecipientStatus(recipient)
    feeRegistry,     \* DataKey::ParameterRegistry is set (with DataKey::Treasury)
    feeRate,         \* external: the fee_bps the registry serves
    accruedFees,     \* DataKey::AccruedFees(token)
    grantTokens,     \* tokens the token contract holds for this contract
    grantsFunded, grantsPaid, feesSwept   \* history: tokens in, to recipients, to the treasury

grantMoney == <<accruedFees, grantTokens, grantsFunded, grantsPaid, feesSwept>>
grantSettings == <<grantScreening, feeRegistry, feeRate>>
grantsVars == <<grantBook, grantMoney, grantSettings>>

GrantsInit ==
    /\ grantBook = <<>>
    /\ grantScreening = [r \in Grantees |-> None]
    /\ feeRegistry = FALSE /\ feeRate = 0
    /\ accruedFees = 0 /\ grantTokens = 0
    /\ grantsFunded = 0 /\ grantsPaid = 0 /\ feesSwept = 0

set_fee_config ==
    /\ feeRegistry' = TRUE
    /\ UNCHANGED <<grantBook, grantMoney, grantScreening, feeRate>>

\* External: governance changes the rate in the parameter registry.
SetFeeRate(rate) ==
    /\ feeRate' = rate
    /\ UNCHANGED <<grantBook, grantMoney, grantScreening, feeRegistry>>

\* External: a transfer to the contract.
Fund(amount) ==
    /\ grantsFunded + amount <= MaxFunded
    /\ grantTokens' = grantTokens + amount
    /\ grantsFunded' = grantsFunded + amount
    /\ UNCHANGED <<grantBook, accruedFees, grantsPaid, feesSwept, grantSettings>>

\* The recipient is screened here, and not again when it claims.
create_grant(recipient, total, amounts) ==
    /\ Len(grantBook) < MaxGrants
    /\ ValidGrant(total, amounts)
    /\ grantScreening[recipient] = "Allowed"
    /\ grantBook' = Created(grantBook, recipient, total, amounts)
    /\ UNCHANGED <<grantMoney, grantSettings>>

confirm_milestone(id, k) ==
    /\ CanConfirm(grantBook, id, k)
    /\ grantBook' = Confirmed(grantBook, id, k)
    /\ UNCHANGED <<grantMoney, grantSettings>>

\* A rate above the cap is an error, so claims wait for a lower one.
fee_bps == IF feeRegistry THEN feeRate ELSE 0

assess_fee(gross, rate) ==
    (gross \div FeeDenom) * rate + ((gross % FeeDenom) * rate) \div FeeDenom

\* Mutant: the fee is set aside but the recipient is paid in full.
claimGross(id) ==
    LET gross == grantBook[id].claimable
        fee == assess_fee(gross, fee_bps)
    IN
    /\ gross > 0
    /\ fee_bps <= MAX_FEE_BPS
    /\ gross <= grantTokens
    /\ grantBook' = Claimed(grantBook, id)
    /\ accruedFees' = accruedFees + fee
    /\ grantTokens' = grantTokens - gross
    /\ grantsPaid' = grantsPaid + gross
    /\ UNCHANGED <<grantsFunded, feesSwept, grantSettings>>

claim(id) ==
    LET gross == grantBook[id].claimable
        fee == assess_fee(gross, fee_bps)
    IN
    /\ gross > 0
    /\ fee_bps <= MAX_FEE_BPS
    /\ gross - fee <= grantTokens
    /\ grantBook' = Claimed(grantBook, id)
    /\ accruedFees' = accruedFees + fee
    /\ grantTokens' = grantTokens - (gross - fee)
    /\ grantsPaid' = grantsPaid + (gross - fee)
    /\ UNCHANGED <<grantsFunded, feesSwept, grantSettings>>

\* Permissionless; the transfer needs the tokens to be there still.
sweep_fees ==
    /\ accruedFees > 0
    /\ feeRegistry
    /\ accruedFees <= grantTokens
    /\ accruedFees' = 0
    /\ grantTokens' = grantTokens - accruedFees
    /\ feesSwept' = feesSwept + accruedFees
    /\ UNCHANGED <<grantBook, grantsFunded, grantsPaid, grantSettings>>

\* allow_recipient, block_recipient and remove_recipient.
screen_grantee(r, status) ==
    /\ grantScreening' = [grantScreening EXCEPT ![r] = status]
    /\ UNCHANGED <<grantBook, grantMoney, feeRegistry, feeRate>>

GrantsNext ==
    \/ set_fee_config \/ sweep_fees
    \/ \E rate \in FeeRates : SetFeeRate(rate)
    \/ \E amount \in Gifts : Fund(amount)
    \/ \E r \in Grantees, total \in AwardTotals, s \in Schedules : create_grant(r, total, s)
    \/ \E id \in DOMAIN grantBook : claim(id) \/ \E k \in DOMAIN grantBook[id].milestones : confirm_milestone(id, k)
    \/ \E r \in Grantees, status \in {"Allowed", "Blocked", None} : screen_grantee(r, status)

\* The contract, and the model's book beside it.
GrantsSpec ==
    /\ GrantsInit /\ GrantsModelInit
    /\ [][\/ GrantsNext /\ UNCHANGED modelBook
          \/ GrantsModelNext /\ UNCHANGED grantsVars]_<<grantsVars, modelBook>>

-----------------------------------------------------------------------------
PaidOut(m) == IF m.claimed THEN m.amount ELSE 0
PaidOutIn(ms) == SumOver([k \in DOMAIN ms |-> PaidOut(ms[k])], DOMAIN ms)
PaidOutOf(b) == SumOver([id \in DOMAIN b |-> PaidOutIn(b[id].milestones)], DOMAIN b)

(* INV-GRAN-07 (docs/INVARIANTS.md) with fees, whatever the rate was at    *)
(* each claim and whoever swept when: what recipients received and what    *)
(* was set aside or swept as fees is exactly the claimed milestones, and   *)
(* nothing else leaves the contract, whose book stays exact (claim,        *)
(* confirm_milestone, sweep_fees, assess_fee); with GrantBookExact.        *)
ClaimsPaidExactly ==
    /\ GrantBookExact
    /\ BookExact(grantBook)
    /\ grantsPaid + accruedFees + feesSwept = PaidOutOf(grantBook)
    /\ grantTokens = grantsFunded - grantsPaid - feesSwept
    /\ grantTokens >= 0
=============================================================================
