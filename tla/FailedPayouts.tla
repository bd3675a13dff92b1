--------------------------- MODULE FailedPayouts ---------------------------
(***************************************************************************)
(* The non-reverting payouts of refract-common (common/src/payout.rs) and  *)
(* the contract that uses them.  A transfer that fails leaves a record and *)
(* an earmark (liability) instead of a trap; the record is retried,        *)
(* redirected, or reclaimed after a timeout.                               *)
(*                                                                         *)
(* The host contract follows the rule of pay's comment: it takes the       *)
(* amount out of what it regards as available before the call and puts a   *)
(* reclaimed amount back.  Any transfer may fail, for as long as the token *)
(* likes; why it failed, how often and when last is diagnostic data and    *)
(* left out.                                                               *)
(***************************************************************************)
EXTENDS LedgerClock, Collections

CONSTANTS
    Recipients,
    PaymentAmounts,   \* amounts the host pays
    RECLAIM_TIMEOUT,  \* RECLAIM_TIMEOUT_SECS
    Endowment,        \* what the host contract starts with
    MaxPayoutRecords  \* bound of the model

ASSUME FailedPayoutsConstants ==
    /\ PaymentAmounts \subseteq Nat \ {0} /\ RECLAIM_TIMEOUT \in Nat
    /\ Endowment \in Nat /\ MaxPayoutRecords \in Nat

VARIABLES
    coffer,           \* tokens the token contract holds for the host
    available,        \* what the host regards as free to spend
    liability,        \* PayoutKey::PayoutLiability
    payoutRecords,    \* PayoutKey::PayoutRecord(id), ids 0 .. PayoutNextId - 1
    payoutCount,      \* PayoutKey::PayoutNextId
    delivered         \* history: tokens transferred for a record

failedPayoutVars == <<coffer, available, liability, payoutRecords, payoutCount, delivered, now>>

RecordIds == 0 .. MaxPayoutRecords - 1
FailedRecord == [recipient : Recipients, amount : PaymentAmounts,
                 status : {"Failed", "Paid", "Reclaimed"}, first_failed_at : Nat]

ASSUME AbsentRecord == None \notin FailedRecord

FailedPayoutsInit ==
    /\ coffer = Endowment /\ available = Endowment /\ liability = 0
    /\ payoutRecords = [i \in RecordIds |-> None]
    /\ payoutCount = 0
    /\ delivered = [i \in RecordIds |-> 0]

\* try_transfer: a success moves the tokens, a failure is rolled back.
try_transfer(amount, ok) ==
    /\ ok => amount <= coffer
    /\ coffer' = IF ok THEN coffer - amount ELSE coffer

pay(recipient, amount, ok) ==
    /\ amount <= available
    /\ available' = available - amount
    /\ try_transfer(amount, ok)
    /\ IF ok THEN UNCHANGED <<liability, payoutRecords, payoutCount>>
       ELSE /\ payoutCount \in RecordIds
            /\ payoutRecords' = [payoutRecords EXCEPT ![payoutCount] =
                 [recipient |-> recipient, amount |-> amount, status |-> "Failed",
                  first_failed_at |-> now]]
            /\ payoutCount' = payoutCount + 1
            /\ liability' = liability + amount
    /\ UNCHANGED <<delivered, now>>

Open(i) == payoutRecords[i] # None /\ payoutRecords[i].status = "Failed"

sub_liability(amount) == IF amount < liability THEN liability - amount ELSE 0

\* Mutant: any record that was not paid is retried, a reclaimed one too.
retryReclaimed(i, ok) ==
    /\ payoutRecords[i] # None /\ payoutRecords[i].status # "Paid"
    /\ LET amount == payoutRecords[i].amount IN
         /\ try_transfer(amount, ok)
         /\ IF ok
            THEN /\ payoutRecords' = [payoutRecords EXCEPT ![i].status = "Paid"]
                 /\ liability' = sub_liability(amount)
                 /\ delivered' = [delivered EXCEPT ![i] = @ + amount]
            ELSE UNCHANGED <<payoutRecords, liability, delivered>>
    /\ UNCHANGED <<available, payoutCount, now>>

retry(i, ok) ==
    /\ Open(i)
    /\ LET amount == payoutRecords[i].amount IN
         /\ try_transfer(amount, ok)
         /\ IF ok
            THEN /\ payoutRecords' = [payoutRecords EXCEPT ![i].status = "Paid"]
                 /\ liability' = sub_liability(amount)
                 /\ delivered' = [delivered EXCEPT ![i] = @ + amount]
            ELSE UNCHANGED <<payoutRecords, liability, delivered>>
    /\ UNCHANGED <<available, payoutCount, now>>

update_recipient(i, recipient) ==
    /\ Open(i)
    /\ payoutRecords[i].recipient # recipient
    /\ payoutRecords' = [payoutRecords EXCEPT ![i].recipient = recipient]
    /\ UNCHANGED <<coffer, available, liability, payoutCount, delivered, now>>

\* Mutant: the earmark of a reclaimed payout stays.
reclaimEarmarked(i) ==
    /\ Open(i)
    /\ now >= payoutRecords[i].first_failed_at + RECLAIM_TIMEOUT
    /\ payoutRecords' = [payoutRecords EXCEPT ![i].status = "Reclaimed"]
    /\ available' = available + payoutRecords[i].amount
    /\ UNCHANGED <<coffer, liability, payoutCount, delivered, now>>

reclaim(i) ==
    /\ Open(i)
    /\ now >= payoutRecords[i].first_failed_at + RECLAIM_TIMEOUT
    /\ payoutRecords' = [payoutRecords EXCEPT ![i].status = "Reclaimed"]
    /\ liability' = sub_liability(payoutRecords[i].amount)
    /\ available' = available + payoutRecords[i].amount
    /\ UNCHANGED <<coffer, payoutCount, delivered, now>>

FailedPayoutsTick ==
    /\ LedgerTick
    /\ UNCHANGED <<coffer, available, liability, payoutRecords, payoutCount, delivered>>

FailedPayoutsNext ==
    \/ \E r \in Recipients, amount \in PaymentAmounts, ok \in BOOLEAN : pay(r, amount, ok)
    \/ \E i \in RecordIds :
         \/ \E ok \in BOOLEAN : retry(i, ok)
         \/ \E r \in Recipients : update_recipient(i, r)
         \/ reclaim(i)
    \/ FailedPayoutsTick

FailedPayoutsSpec == FailedPayoutsInit /\ LedgerInit /\ [][FailedPayoutsNext]_failedPayoutVars

-----------------------------------------------------------------------------
FailedPayoutsTypeOK ==
    /\ now \in Nat /\ coffer \in Nat /\ available \in Nat /\ liability \in Nat
    /\ payoutRecords \in [RecordIds -> FailedRecord \cup {None}]
    /\ payoutCount \in 0 .. MaxPayoutRecords
    /\ \A i \in RecordIds : payoutRecords[i] # None <=> i < payoutCount
    /\ delivered \in [RecordIds -> Nat]

StillOwed(i) == IF Open(i) THEN payoutRecords[i].amount ELSE 0

(* Failed payouts stay covered (payout.rs:13-16, 405-424): the tokens held *)
(* are exactly what is available plus the earmarks, and the earmark is the *)
(* sum of the payouts still owed, through every order of failures,         *)
(* retries, redirections and reclaims.  So neither a retry can fail for    *)
(* lack of tokens nor the host spend what it owes.                         *)
EarmarkExact ==
    /\ FailedPayoutsTypeOK
    /\ coffer = available + liability
    /\ liability = SumOver([i \in RecordIds |-> StillOwed(i)], RecordIds)

\* Failed payouts as promises: the record promises, a retry keeps, a reclaim breaks off.
Owed == INSTANCE Promises WITH
    Ids <- RecordIds, Amounts <- PaymentAmounts,
    promised <- [i \in RecordIds |-> IF payoutRecords[i] = None THEN 0 ELSE payoutRecords[i].amount],
    received <- delivered,
    closed <- {i \in RecordIds : payoutRecords[i] # None /\ payoutRecords[i].status # "Failed"}

(* The failed-payout ledger implements Promises: what failed is delivered  *)
(* in full at most once, and never after it was reclaimed.                 *)
OwedImplementsPromises == Owed!Spec
=============================================================================
