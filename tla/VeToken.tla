------------------------------- MODULE VeToken -------------------------------
(***************************************************************************)
(* RefractVeToken: tokens locked for a time give voting power that decays  *)
(* linearly to zero, and protocol fees are shared by a cumulative amount   *)
(* per unit of power.  The denominator of a distribution is the power      *)
(* recorded at each locker's last lock change; what a locker earns is      *)
(* computed from the live power when its account is settled.               *)
(***************************************************************************)
EXTENDS LedgerClock, Integers, FiniteSets, Collections

CONSTANTS Lockers,
          Amounts,        \* what lock is called with
          Durations,      \* arguments of lock and extend_lock
          Fees,           \* what distribute_fees is called with
          MAX_LOCK_TIME,
          SCALE,          \* 1_000_000_000, the fixed point of acc_fee_per_power
          MaxLocked, MaxFees    \* bounds of the model

ASSUME VeTokenConstants ==
    /\ IsFiniteSet(Lockers)
    /\ Amounts \subseteq Nat \ {0} /\ Durations \subseteq Nat \ {0} /\ Fees \subseteq Nat \ {0}
    /\ MAX_LOCK_TIME \in Nat \ {0} /\ SCALE \in Nat \ {0}
    /\ MaxLocked \in Nat /\ MaxFees \in Nat

VARIABLES initialized,    \* DataKey::Token and DataKey::Treasury are set
          locks,          \* DataKey::Lock(address); amount 0 if absent
          accounts,       \* DataKey::FeeAccount(address)
          checkpoint,     \* DataKey::FeeCheckpoint
          balance,        \* tokens the token contract holds for this contract
          \* History, read by no action:
          distributed,    \* fees routed in
          claimed         \* fees paid out

veVars == <<now, initialized, locks, accounts, checkpoint, balance, distributed, claimed>>

LockInfo == [amount : Nat, unlock_at : Nat]
FeeCheckpoint == [acc_fee_per_power : Nat, total_power : Nat]
FeeAccount == [reward_per_power_paid : Nat, pending : Nat, recorded_power : Nat]

NoLock == [amount |-> 0, unlock_at |-> 0]
NoAccount == [reward_per_power_paid |-> 0, pending |-> 0, recorded_power |-> 0]

VeInit ==
    /\ LedgerInit
    /\ initialized = FALSE
    /\ locks = [a \in Lockers |-> NoLock]
    /\ accounts = [a \in Lockers |-> NoAccount]
    /\ checkpoint = [acc_fee_per_power |-> 0, total_power |-> 0]
    /\ balance = 0 /\ distributed = 0 /\ claimed = 0

VeTick ==
    /\ LedgerTick
    /\ UNCHANGED <<initialized, locks, accounts, checkpoint, balance, distributed, claimed>>

initialize ==
    /\ ~initialized
    /\ initialized' = TRUE
    /\ checkpoint' = [acc_fee_per_power |-> 0, total_power |-> 0]
    /\ UNCHANGED <<now, locks, accounts, balance, distributed, claimed>>

-----------------------------------------------------------------------------
\* voting_power of a lock.
Power(lock) ==
    IF now >= lock.unlock_at THEN 0 ELSE (lock.amount * (lock.unlock_at - now)) \div MAX_LOCK_TIME

\* Mutant: the fees are accrued on the power recorded after the change.
SettledLate(a, newLock) ==
    LET delta == checkpoint.acc_fee_per_power - accounts[a].reward_per_power_paid
    IN [accounts[a] EXCEPT !.pending = @ + (Power(newLock) * delta) \div SCALE,
                           !.reward_per_power_paid = checkpoint.acc_fee_per_power]

\* settle_fee_account, before the lock becomes newLock.
Settled(a, newLock) ==
    LET delta == checkpoint.acc_fee_per_power - accounts[a].reward_per_power_paid
    IN [accounts[a] EXCEPT !.pending = @ + (Power(locks[a]) * delta) \div SCALE,
                           !.reward_per_power_paid = checkpoint.acc_fee_per_power]

\* The denominator refresh_total_power stores.
TotalPower(a, power) == checkpoint.total_power - accounts[a].recorded_power + power

\* settle_fee_account, the change of the lock, and refresh_total_power.
ChangeLock(a, newLock) ==
    /\ locks' = [locks EXCEPT ![a] = newLock]
    /\ accounts' = [accounts EXCEPT ![a] =
                      [Settled(a, newLock) EXCEPT !.recorded_power = Power(newLock)]]
    /\ checkpoint' = [checkpoint EXCEPT !.total_power = TotalPower(a, Power(newLock))]
    /\ UNCHANGED <<now, initialized, distributed, claimed>>

\* Mutant: the new duration replaces the old one.
LaterReplaced(old, new) == new

Later(old, new) == IF old > new THEN old ELSE new

lock(a, amount, duration) ==
    /\ initialized
    /\ duration <= MAX_LOCK_TIME
    /\ balance + amount <= MaxLocked
    /\ ChangeLock(a, [amount |-> locks[a].amount + amount,
                      unlock_at |-> Later(locks[a].unlock_at, now + duration)])
    /\ balance' = balance + amount

extend_lock(a, duration) ==
    LET proposed == Later(locks[a].unlock_at, now) + duration
    IN /\ locks[a].amount > 0
       /\ proposed - now <= MAX_LOCK_TIME
       /\ ChangeLock(a, [locks[a] EXCEPT !.unlock_at = proposed])
       /\ UNCHANGED balance

withdraw(a) ==
    /\ locks[a].amount > 0
    /\ now >= locks[a].unlock_at
    /\ locks[a].amount <= balance
    /\ ChangeLock(a, NoLock)
    /\ balance' = balance - locks[a].amount

distribute_fees(amount) ==
    /\ initialized
    /\ checkpoint.total_power > 0
    /\ distributed + amount <= MaxFees
    /\ balance' = balance + amount
    /\ checkpoint' = [checkpoint EXCEPT !.acc_fee_per_power =
                        @ + (amount * SCALE) \div checkpoint.total_power]
    /\ distributed' = distributed + amount
    /\ UNCHANGED <<now, initialized, locks, accounts, claimed>>

claim_fees(a) ==
    LET account == Settled(a, locks[a])
    IN /\ initialized
       /\ account.pending > 0
       /\ account.pending <= balance
       /\ accounts' = [accounts EXCEPT ![a] = [account EXCEPT !.pending = 0]]
       /\ balance' = balance - account.pending
       /\ claimed' = claimed + account.pending
       /\ UNCHANGED <<now, initialized, locks, checkpoint, distributed>>

VeNext ==
    \/ VeTick
    \/ initialize
    \/ \E a \in Lockers, amount \in Amounts, d \in Durations : lock(a, amount, d)
    \/ \E a \in Lockers, d \in Durations : extend_lock(a, d)
    \/ \E a \in Lockers : withdraw(a)
    \/ \E amount \in Fees : distribute_fees(amount)
    \/ \E a \in Lockers : claim_fees(a)

VeSpec == VeInit /\ [][VeNext]_veVars

-----------------------------------------------------------------------------
\* Type of the storage and the history.
VeTypeOK ==
    /\ now \in Nat /\ initialized \in BOOLEAN
    /\ locks \in [Lockers -> LockInfo]
    /\ accounts \in [Lockers -> FeeAccount]
    /\ checkpoint \in FeeCheckpoint
    /\ balance \in Nat /\ distributed \in Nat /\ claimed \in Nat

\* What claimable_fees reports for a.
Claimable(a) == Settled(a, locks[a]).pending

\* "claims (which use live power) can never exceed the fees distributed"
\* (refresh_total_power): with all that was paid and all that can be claimed now.
FeesCovered == claimed + SumOver([a \in Lockers |-> Claimable(a)], Lockers) <= distributed

\* With their types, non-negative although the code subtracts unchecked: the
\* denominator of distribute_fees is the sum of the recorded powers, and no
\* locker's live power is above its recorded one (refresh_total_power).
PowerRecorded ==
    /\ VeTypeOK
    /\ checkpoint.total_power = SumOver([a \in Lockers |-> accounts[a].recorded_power], Lockers)
    /\ \A a \in Lockers : Power(locks[a]) <= accounts[a].recorded_power

\* Locked tokens and fees are the same token in one balance: whatever was claimed,
\* the contract can still return every lock and pay every claim at once; with FeesCovered and PowerRecorded.
LocksReturnable ==
    /\ FeesCovered /\ PowerRecorded
    /\ balance >= SumOver([a \in Lockers |-> locks[a].amount], Lockers)
                  + SumOver([a \in Lockers |-> Claimable(a)], Lockers)

\* A lock ends no earlier than promised: as long as tokens are locked, neither
\* lock nor extend_lock moves unlock_at back, and they leave only after it.
LocksHold ==
    [][\A a \in Lockers : locks[a].amount > 0 =>
         IF locks'[a].amount >= locks[a].amount
         THEN locks'[a].unlock_at >= locks[a].unlock_at
         ELSE now >= locks[a].unlock_at /\ locks'[a] = NoLock]_veVars
=============================================================================
