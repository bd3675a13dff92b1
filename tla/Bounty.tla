------------------------------- MODULE Bounty -------------------------------
(***************************************************************************)
(* RefractBountyEscrow (bounty/src/lib.rs): one pool of tokens out of      *)
(* which governance rewards disclosures in three ways: at once (award), by *)
(* a record its recipient claims before anybody sweeps it (create_payout), *)
(* and by a commitment whose secret unlocks the reward for the address     *)
(* bound to it (award_commitment).                                         *)
(*                                                                         *)
(* SHA-256 is taken to be injective, so a commitment is named by its       *)
(* secret.  A call that returns an error leaves no trace.  The source ends *)
(* inside get_award: the screening of recipients and the private helpers   *)
(* behind it are external, modelled from their uses.                       *)
(***************************************************************************)
EXTENDS LedgerClock, Collections

CONSTANTS
    Addresses,     \* governance, researchers and payout addresses
    Reports,       \* report hashes
    Commitments,   \* commitments, named by their secret preimages
    Amounts,       \* rewards
    Fundings,      \* arguments of fund
    BINDING_TTL,   \* DEFAULT_BINDING_TTL_SECS
    MaxPayouts, MaxFunded    \* bounds of the model

ASSUME BountyConstants ==
    /\ Amounts \subseteq Nat \ {0} /\ Fundings \subseteq Nat \ {0}
    /\ BINDING_TTL \in Nat /\ MaxPayouts \in Nat /\ MaxFunded \in Nat
    /\ IsFiniteSet(Commitments)
    /\ None \notin Addresses \cup Commitments

VARIABLES
    governance,    \* DataKey::Governance
    escrow,        \* DataKey::Balance
    reserved,      \* DataKey::Reserved
    nextPayoutId,  \* DataKey::NextPayoutId
    payouts,       \* DataKey::Payout(id)
    allowed,       \* the addresses whose DataKey::RecipientStatus is Allowed
    awards,        \* DataKey::Award(report_hash)
    disclosures,   \* DataKey::DisclosureCommitment(report_hash)
    used,          \* the commitments with a DataKey::UsedCommitment
    bindings,      \* DataKey::PayoutBinding(commitment)
    cawards,       \* DataKey::CommitmentAward(commitment)
    frozen,        \* the addresses whose DataKey::FrozenAddress is true
    tokenBalance,  \* tokens the token contract holds for this contract
    funded         \* history: everything fund brought in

pool == <<escrow, reserved, tokenBalance, funded>>
records == <<nextPayoutId, payouts, allowed>>
disclosed == <<disclosures, used, bindings, cawards, frozen>>
bountyVars == <<now, governance, pool, records, awards, disclosed>>

PayoutIds == 0 .. MaxPayouts - 1
PayoutRecord == [recipient : Addresses, amount : Amounts, deadline : Nat,
                 status : {"Pending", "Claimed", "Swept"}]
AwardRecord == [researcher : Addresses, amount : Amounts]
PayoutBindingRecord == [owner : Addresses, payout_address : Addresses, expires_at : Nat]
CommitmentAwardRecord == [report_hash : Reports, amount : Amounts, status : {"Awarded", "Claimed"}]

ASSUME AbsentPayout == None \notin PayoutRecord \cup CommitmentAwardRecord

BountyInit ==
    /\ LedgerInit /\ governance = None
    /\ escrow = 0 /\ reserved = 0 /\ tokenBalance = 0 /\ funded = 0
    /\ nextPayoutId = 0
    /\ payouts = [p \in PayoutIds |-> None]
    /\ allowed = {} /\ frozen = {} /\ used = {}
    /\ awards = [r \in Reports |-> None]
    /\ disclosures = [r \in Reports |-> None]
    /\ bindings = [c \in Commitments |-> None]
    /\ cawards = [c \in Commitments |-> None]

BountyTick ==
    /\ LedgerTick
    /\ UNCHANGED <<governance, pool, records, awards, disclosed>>

initialize(gov) ==
    /\ governance = None
    /\ governance' = gov
    /\ escrow' = 0 /\ reserved' = 0 /\ nextPayoutId' = 0
    /\ UNCHANGED <<now, tokenBalance, funded, payouts, allowed, awards, disclosed>>

set_governance(gov) ==
    /\ governance # None
    /\ governance' = gov
    /\ UNCHANGED <<now, pool, records, awards, disclosed>>

\* Governance lists or unlists an address; only award and create_payout ask.
Screen(a) ==
    /\ governance # None
    /\ allowed' \in {allowed \cup {a}, allowed \ {a}}
    /\ UNCHANGED <<now, governance, pool, nextPayoutId, payouts, awards, disclosed>>

fund(amount) ==
    /\ governance # None
    /\ funded + amount <= MaxFunded
    /\ escrow' = escrow + amount
    /\ tokenBalance' = tokenBalance + amount
    /\ funded' = funded + amount
    /\ UNCHANGED <<now, governance, reserved, records, awards, disclosed>>

\* Mutant: what is reserved counts as available.
AvailableBalanceAll == escrow

available_balance == escrow - reserved

\* The transfer and the deduction of amount, of which `released` was reserved.
PayOut(amount, released) ==
    /\ tokenBalance >= amount
    /\ escrow' = escrow - amount
    /\ reserved' = reserved - released
    /\ tokenBalance' = tokenBalance - amount
    /\ UNCHANGED funded

Reserve(amount) ==
    /\ amount <= available_balance
    /\ reserved' = reserved + amount
    /\ UNCHANGED <<escrow, tokenBalance, funded>>

-----------------------------------------------------------------------------
\* Push and pull payouts.

award(researcher, amount, report) ==
    /\ governance # None
    /\ awards[report] = None
    /\ researcher \in allowed
    /\ amount <= available_balance
    /\ PayOut(amount, 0)
    /\ awards' = [awards EXCEPT ![report] = [researcher |-> researcher, amount |-> amount]]
    /\ UNCHANGED <<now, governance, records, disclosed>>

create_payout(recipient, amount, deadline) ==
    /\ governance # None
    /\ nextPayoutId \in PayoutIds
    /\ deadline > now
    /\ recipient \in allowed
    /\ Reserve(amount)
    /\ nextPayoutId' = nextPayoutId + 1
    /\ payouts' = [payouts EXCEPT ![nextPayoutId] =
                     [recipient |-> recipient, amount |-> amount, deadline |-> deadline,
                      status |-> "Pending"]]
    /\ UNCHANGED <<now, governance, allowed, awards, disclosed>>

Settle(id, status) ==
    /\ PayOut(payouts[id].amount, payouts[id].amount)
    /\ payouts' = [payouts EXCEPT ![id].status = status]
    /\ UNCHANGED <<now, governance, nextPayoutId, allowed, awards, disclosed>>

\* By the recipient, before or after the deadline.
claim(id) ==
    /\ payouts[id] # None
    /\ payouts[id].status = "Pending"
    /\ Settle(id, "Claimed")

\* Mutant: only a second sweep is refused.
sweep_expiredClaimed(id) ==
    /\ payouts[id] # None
    /\ now >= payouts[id].deadline
    /\ payouts[id].status # "Swept"
    /\ Settle(id, "Swept")

\* Mutant: the recipient must still be listed.
sweep_expiredListed(id) ==
    /\ payouts[id] # None
    /\ payouts[id].recipient \in allowed
    /\ now >= payouts[id].deadline
    /\ payouts[id].status = "Pending"
    /\ Settle(id, "Swept")

sweep_expired(id) ==
    /\ payouts[id] # None
    /\ now >= payouts[id].deadline
    /\ payouts[id].status = "Pending"
    /\ Settle(id, "Swept")

-----------------------------------------------------------------------------
\* Rewards by commitment.

submit_disclosure(report, c) ==
    /\ governance # None
    /\ disclosures[report] = None /\ awards[report] = None
    /\ c \notin used
    /\ disclosures' = [disclosures EXCEPT ![report] = c]
    /\ used' = used \cup {c}
    /\ UNCHANGED <<now, governance, pool, records, awards, bindings, cawards, frozen>>

Bind(c, owner, address) ==
    /\ address \notin frozen
    /\ bindings' = [bindings EXCEPT ![c] = [owner |-> owner, payout_address |-> address,
                                            expires_at |-> now + BINDING_TTL]]
    /\ UNCHANGED <<now, governance, pool, records, awards, disclosures, used, cawards, frozen>>

register_payout_address(owner, c, address) ==
    /\ governance # None
    /\ bindings[c] = None
    /\ Bind(c, owner, address)

\* By the binding's owner.
rotate_payout_address(c, address) ==
    /\ bindings[c] # None
    /\ now <= bindings[c].expires_at
    /\ cawards[c] # None => cawards[c].status = "Awarded"
    /\ Bind(c, bindings[c].owner, address)

\* Mutant: a commitment that differs from the disclosed one is accepted.
MatchesAny(report, c) == disclosures[report] = None => c \notin used

\* The report was disclosed with this commitment, or neither was used before.
Matches(report, c) == IF disclosures[report] # None THEN disclosures[report] = c ELSE c \notin used

award_commitment(report, c, amount) ==
    /\ governance # None
    /\ awards[report] = None /\ cawards[c] = None
    /\ Matches(report, c)
    /\ disclosures' = [disclosures EXCEPT ![report] = IF @ = None THEN c ELSE @]
    /\ used' = used \cup {c}
    /\ Reserve(amount)
    /\ cawards' = [cawards EXCEPT ![c] = [report_hash |-> report, amount |-> amount,
                                          status |-> "Awarded"]]
    /\ UNCHANGED <<now, governance, records, awards, bindings, frozen>>

\* By the owner or the payout address of the binding, with the secret.
claim_by_commitment(c) ==
    /\ cawards[c] # None /\ cawards[c].status = "Awarded"
    /\ bindings[c] # None
    /\ now <= bindings[c].expires_at
    /\ bindings[c].payout_address \notin frozen
    /\ PayOut(cawards[c].amount, cawards[c].amount)
    /\ cawards' = [cawards EXCEPT ![c].status = "Claimed"]
    /\ awards' = [awards EXCEPT ![cawards[c].report_hash] =
                    [researcher |-> bindings[c].payout_address, amount |-> cawards[c].amount]]
    /\ UNCHANGED <<now, governance, records, disclosures, used, bindings, frozen>>

freeze_payout_address(a) ==
    /\ governance # None
    /\ frozen' \in {frozen \cup {a}, frozen \ {a}}
    /\ UNCHANGED <<now, governance, pool, records, awards, disclosures, used, bindings, cawards>>

BountyNext ==
    \/ BountyTick
    \/ \E a \in Addresses : \/ initialize(a)
                            \/ set_governance(a)
                            \/ Screen(a)
                            \/ freeze_payout_address(a)
    \/ \E amount \in Fundings : fund(amount)
    \/ \E a \in Addresses, amount \in Amounts, r \in Reports : award(a, amount, r)
    \/ \E a \in Addresses, amount \in Amounts, d \in 1 .. MaxTime : create_payout(a, amount, d)
    \/ \E id \in PayoutIds : claim(id) \/ sweep_expired(id)
    \/ \E r \in Reports, c \in Commitments : submit_disclosure(r, c)
    \/ \E o \in Addresses, a \in Addresses, c \in Commitments : register_payout_address(o, c, a)
    \/ \E a \in Addresses, c \in Commitments : rotate_payout_address(c, a)
    \/ \E r \in Reports, c \in Commitments, amount \in Amounts : award_commitment(r, c, amount)
    \/ \E c \in Commitments : claim_by_commitment(c)

BountySpec == BountyInit /\ [][BountyNext]_bountyVars

\* Ledgers keep closing, and somebody sweeps what has expired (sweep_expired is
\* permissionless).  Nothing is assumed of governance or of the recipients.
FairBountySpec ==
    /\ BountySpec
    /\ WF_bountyVars(BountyTick)
    /\ \A id \in PayoutIds : WF_bountyVars(sweep_expired(id))

-----------------------------------------------------------------------------
\* Type of the storage.
BountyTypeOK ==
    /\ now \in 0 .. MaxTime /\ governance \in Addresses \cup {None}
    /\ escrow \in Nat /\ reserved \in Nat /\ tokenBalance \in Nat /\ funded \in Nat
    /\ nextPayoutId \in 0 .. MaxPayouts
    /\ payouts \in [PayoutIds -> PayoutRecord \cup {None}]
    /\ allowed \subseteq Addresses /\ frozen \subseteq Addresses /\ used \subseteq Commitments
    /\ awards \in [Reports -> AwardRecord \cup {None}]
    /\ disclosures \in [Reports -> Commitments \cup {None}]
    /\ bindings \in [Commitments -> PayoutBindingRecord \cup {None}]
    /\ cawards \in [Commitments -> CommitmentAwardRecord \cup {None}]

PendingAmount(p) ==
    IF payouts[p] # None /\ payouts[p].status = "Pending" THEN payouts[p].amount ELSE 0
PendingPayouts == SumOver([p \in PayoutIds |-> PendingAmount(p)], PayoutIds)

AwardedAmount(c) ==
    IF cawards[c] # None /\ cawards[c].status = "Awarded" THEN cawards[c].amount ELSE 0
AwardedCommitments == SumOver([c \in Commitments |-> AwardedAmount(c)], Commitments)

\* Reserved is exactly what pending payouts and awarded commitments may still
\* take, although create_payout, award_commitment, claim, sweep_expired and
\* claim_by_commitment each adjust it on their own.
ReservedExact == BountyTypeOK /\ reserved = PendingPayouts + AwardedCommitments

\* "the same funds cannot be double-committed": in every order of awards, claims
\* and sweeps, everybody who may still claim can be paid, all of them together,
\* and the balance on record is in the contract's hands; with ReservedExact.
OutstandingCovered ==
    ReservedExact /\ PendingPayouts + AwardedCommitments <= escrow /\ escrow <= tokenBalance

\* A report and the commitment it is rewarded under belong to each other and to
\* nothing else, whether submit_disclosure or award_commitment tied them: no
\* report has two rewards waiting.
OneCommitmentPerReport ==
    /\ \A c \in Commitments : cawards[c] # None => disclosures[cawards[c].report_hash] = c
    /\ \A q, r \in Reports : (disclosures[q] # None /\ disclosures[q] = disclosures[r]) => q = r

\* A payout that was claimed is never swept, one that was swept never claimed, and
\* a claimed commitment is never claimed again.
SettlementsFinal ==
    [][/\ \A p \in PayoutIds : payouts[p] # None /\ payouts[p].status # "Pending" =>
            payouts'[p] = payouts[p]
       /\ \A c \in Commitments : cawards[c] # None /\ cawards[c].status = "Claimed" =>
            cawards'[c] = cawards[c]]_bountyVars

\* Funds reserved for a recipient who never claims come free: every payout is
\* settled, whatever happens to the screening of its recipient meanwhile.
PayoutsSettle ==
    \A p \in PayoutIds : payouts[p] # None ~> payouts[p] # None /\ payouts[p].status # "Pending"

\* "Immutable, timestamped record that a specific disclosure was rewarded"
\* (AwardRecord): once a report is rewarded, its record stands.
AwardsImmutable == [][\A r \in Reports : awards[r] # None => awards'[r] = awards[r]]_bountyVars
=============================================================================
