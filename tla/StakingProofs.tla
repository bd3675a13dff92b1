---------------------------- MODULE StakingProofs ----------------------------
(***************************************************************************)
(* Proofs about the places capital is staked, for every finite set of      *)
(* lockers, stakers and guardians and every amount, duration and scale.    *)
(* In RefractVeToken locks last as promised and fees are never paid out of *)
(* locked tokens; the backstop's capital is accounted for, the drawdowns   *)
(* the loss events authorize are attested, and those queued get their      *)
(* share.                                                                  *)
(***************************************************************************)
EXTENDS VeToken, CapitalRules, CollectionTheorems

\* What integer division returns.
LEMMA Quotient ==
  ASSUME NEW a \in Nat, NEW b \in Nat \ {0}
  PROVE  a \div b \in Nat /\ (a \div b) * b <= a
  OBVIOUS

\* A quotient does not grow when what is divided shrinks.
LEMMA QuotientMonotone ==
  ASSUME NEW a \in Nat, NEW c \in Nat, NEW b \in Nat \ {0}, a <= c
  PROVE  a \div b <= c \div b
  OBVIOUS

\* A product of naturals is a natural, monotone in its first factor.
LEMMA Product ==
  ASSUME NEW a \in Nat, NEW b \in Nat, NEW c \in Nat
  PROVE  a * c \in Nat /\ (a <= b => a * c <= b * c)
  OBVIOUS

\* What is no larger when scaled up is no larger.
LEMMA Unscaled ==
  ASSUME NEW a \in Nat, NEW b \in Nat, NEW k \in Nat \ {0}, a * k <= b * k
  PROVE  a <= b
  OBVIOUS

\* voting_power at time n.
PowerAt(lk, n) ==
    IF n >= lk.unlock_at THEN 0 ELSE (lk.amount * (lk.unlock_at - n)) \div MAX_LOCK_TIME

\* The power of a lock is a natural and does not grow with time.
LEMMA PowerDecays ==
  ASSUME NEW lk \in LockInfo, NEW t \in Nat, NEW u \in Nat, t <= u
  PROVE  PowerAt(lk, t) \in Nat /\ PowerAt(lk, u) <= PowerAt(lk, t)
  <1>0. PICK amount, end : amount = lk.amount /\ end = lk.unlock_at
    OBVIOUS
  <1>1. MAX_LOCK_TIME \in Nat \ {0} /\ amount \in Nat /\ end \in Nat
    BY <1>0, VeTokenConstants DEF LockInfo
  <1>2. ASSUME NEW n \in Nat, ~(n >= end)
        PROVE  amount * (end - n) \in Nat /\ (amount * (end - n)) \div MAX_LOCK_TIME \in Nat
    <2>1. end - n \in Nat
      BY <1>1, <1>2
    <2>2. amount * (end - n) \in Nat
      BY <1>1, <2>1
    <2> QED  BY <1>1, <2>2, Quotient
  <1>3. ASSUME ~(u >= end)
        PROVE  (amount * (end - u)) \div MAX_LOCK_TIME <= (amount * (end - t)) \div MAX_LOCK_TIME
    <2>1. end - u \in Nat /\ end - t \in Nat /\ end - u <= end - t
      BY <1>1, <1>3
    <2>2. (end - u) * amount <= (end - t) * amount
      BY <1>1, <2>1, Product
    <2>3. amount * (end - u) <= amount * (end - t)
      BY <1>1, <2>1, <2>2
    <2>4. amount * (end - u) \in Nat /\ amount * (end - t) \in Nat
      BY <1>1, <2>1
    <2> QED  BY <1>1, <2>3, <2>4, QuotientMonotone
  <1>4. \A n \in Nat : PowerAt(lk, n) \in Nat
    BY <1>0, <1>2 DEF PowerAt
  <1>5. PowerAt(lk, u) <= PowerAt(lk, t)
    <2>1. CASE u >= end
      <3>1. PowerAt(lk, u) = 0
        BY <1>0, <2>1 DEF PowerAt
      <3> QED  BY <1>4, <3>1
    <2>2. CASE ~(u >= end)
      <3>1. ~(t >= end)
        BY <1>1, <2>2
      <3> QED  BY <1>0, <1>3, <2>2, <3>1 DEF PowerAt
    <2> QED  BY <2>1, <2>2
  <1> QED  BY <1>4, <1>5

-----------------------------------------------------------------------------
\* What account x can claim at most when acc fees were distributed per power, in
\* units of 1 / SCALE, rounded nowhere: its recorded power is what it was counted
\* for in every distribution since it was settled.
Entitlement(x, acc) == x.pending * SCALE + x.recorded_power * (acc - x.reward_per_power_paid)

EntitledIn(xs, acc) == [a \in Lockers |-> Entitlement(xs[a], acc)]
RecordedIn(xs) == [a \in Lockers |-> xs[a].recorded_power]
LockedIn(ls) == [a \in Lockers |-> ls[a].amount]

\* The inductive invariant.  Before initialize nothing is stored.  total_power is
\* the sum of the recorded powers, which live powers never exceed; what was
\* claimed and what the accounts are entitled to is within what was distributed;
\* and the balance is the locked tokens with the fees not yet claimed.
VeInv ==
    /\ VeTypeOK
    /\ ~initialized => /\ \A a \in Lockers : locks[a] = NoLock /\ accounts[a] = NoAccount
                       /\ checkpoint.acc_fee_per_power = 0 /\ checkpoint.total_power = 0
    /\ \A a \in Lockers : /\ PowerAt(locks[a], now) <= accounts[a].recorded_power
                          /\ accounts[a].reward_per_power_paid <= checkpoint.acc_fee_per_power
    /\ checkpoint.total_power = SumOver(RecordedIn(accounts), Lockers)
    /\ claimed * SCALE + SumOver(EntitledIn(accounts, checkpoint.acc_fee_per_power), Lockers)
         <= distributed * SCALE
    /\ balance + claimed = SumOver(LockedIn(locks), Lockers) + distributed

\* Lockers are finitely many.
LEMMA LockersFinite == IsFiniteSet(Lockers) /\ SCALE \in Nat \ {0}
  BY VeTokenConstants

\* An account settled no later than now is entitled to a natural number.
LEMMA EntitlementNat ==
  ASSUME NEW x \in FeeAccount, NEW acc \in Nat, x.reward_per_power_paid <= acc
  PROVE  Entitlement(x, acc) \in Nat
  <1>1. /\ x.pending \in Nat /\ x.recorded_power \in Nat /\ acc - x.reward_per_power_paid \in Nat
        /\ SCALE \in Nat
    BY LockersFinite DEF FeeAccount
  <1>2. x.pending * SCALE \in Nat /\ x.recorded_power * (acc - x.reward_per_power_paid) \in Nat
    BY <1>1, Product
  <1> QED  BY <1>2 DEF Entitlement

\* Settling account x at power p pays out at most what it was entitled to.
LEMMA SettlingWithinEntitlement ==
  ASSUME NEW x \in FeeAccount, NEW acc \in Nat, x.reward_per_power_paid <= acc,
         NEW p \in Nat, p <= x.recorded_power
  PROVE  LET q == x.pending + (p * (acc - x.reward_per_power_paid)) \div SCALE
         IN q \in Nat /\ q * SCALE <= Entitlement(x, acc)
  <1>0. PICK d, y, r : d = acc - x.reward_per_power_paid /\ y = x.pending /\ r = x.recorded_power
    OBVIOUS
  <1>1. d \in Nat /\ y \in Nat /\ r \in Nat /\ p <= r /\ SCALE \in Nat \ {0}
    BY <1>0, LockersFinite DEF FeeAccount
  <1>2. p * d \in Nat /\ r * d \in Nat /\ p * d <= r * d /\ y * SCALE \in Nat
    BY <1>1, Product
  <1>3. PICK z : z = (p * d) \div SCALE
    OBVIOUS
  <1>4. z \in Nat /\ z * SCALE <= p * d /\ z * SCALE \in Nat
    BY <1>1, <1>2, <1>3, Quotient
  <1>5. (y + z) * SCALE = y * SCALE + z * SCALE
    BY <1>1, <1>4
  <1>6. (y + z) * SCALE <= y * SCALE + r * d
    BY <1>2, <1>4, <1>5
  <1>7. y + z \in Nat
    BY <1>1, <1>4
  <1> QED  BY <1>0, <1>3, <1>6, <1>7 DEF Entitlement

\* A change of one account moves the sums over the accounts by as much.
LEMMA AccountMoves ==
  ASSUME NEW A \in [Lockers -> FeeAccount], NEW B \in [Lockers -> FeeAccount], NEW acc \in Nat,
         NEW a \in Lockers, \A b \in Lockers \ {a} : B[b] = A[b],
         \A b \in Lockers : A[b].reward_per_power_paid <= acc, B[a].reward_per_power_paid <= acc
  PROVE  /\ SumOver(EntitledIn(A, acc), Lockers) \in Nat
         /\ SumOver(EntitledIn(B, acc), Lockers)
              = SumOver(EntitledIn(A, acc), Lockers) - Entitlement(A[a], acc) + Entitlement(B[a], acc)
         /\ SumOver(RecordedIn(A), Lockers) \in Nat /\ SumOver(RecordedIn(B), Lockers) \in Nat
         /\ SumOver(RecordedIn(B), Lockers)
              = SumOver(RecordedIn(A), Lockers) - A[a].recorded_power + B[a].recorded_power
  <1>1. \A b \in Lockers : Entitlement(A[b], acc) \in Nat /\ Entitlement(B[b], acc) \in Nat
    BY EntitlementNat
  <1> DEFINE f == EntitledIn(A, acc)
             g == EntitledIn(B, acc)
             p == RecordedIn(A)
             q == RecordedIn(B)
  <1>2. /\ \A b \in Lockers : f[b] \in Nat /\ f[b] \in Int
        /\ g[a] \in Int /\ \A b \in Lockers \ {a} : g[b] = f[b]
        /\ f[a] = Entitlement(A[a], acc) /\ g[a] = Entitlement(B[a], acc)
    BY <1>1 DEF EntitledIn
  <1>3. /\ \A b \in Lockers : p[b] \in Nat /\ p[b] \in Int
        /\ \A b \in Lockers : q[b] \in Nat
        /\ q[a] \in Int /\ \A b \in Lockers \ {a} : q[b] = p[b]
        /\ p[a] = A[a].recorded_power /\ q[a] = B[a].recorded_power
    BY DEF RecordedIn, FeeAccount
  <1> HIDE DEF f, g, p, q
  <1>4. SumOver(f, Lockers) \in Nat
    BY <1>2, LockersFinite, SumNat
  <1>5. SumOver(g, Lockers) = SumOver(f, Lockers) - f[a] + g[a]
    BY <1>2, LockersFinite, SumChange
  <1>6. SumOver(p, Lockers) \in Nat /\ SumOver(q, Lockers) \in Nat
    BY <1>3, LockersFinite, SumNat
  <1>7. SumOver(q, Lockers) = SumOver(p, Lockers) - p[a] + q[a]
    BY <1>3, LockersFinite, SumChange
  <1> QED  BY <1>2, <1>3, <1>4, <1>5, <1>6, <1>7 DEF f, g, p, q

\* A change of one lock moves the sum of the locked tokens by as much.
LEMMA LockMoves ==
  ASSUME NEW L \in [Lockers -> LockInfo], NEW M \in [Lockers -> LockInfo], NEW a \in Lockers,
         \A b \in Lockers \ {a} : M[b] = L[b]
  PROVE  /\ SumOver(LockedIn(L), Lockers) \in Nat
         /\ SumOver(LockedIn(M), Lockers) = SumOver(LockedIn(L), Lockers) - L[a].amount + M[a].amount
  <1> DEFINE p == LockedIn(L)
             q == LockedIn(M)
  <1>1. /\ \A b \in Lockers : p[b] \in Nat /\ p[b] \in Int
        /\ q[a] \in Int /\ \A b \in Lockers \ {a} : q[b] = p[b]
        /\ p[a] = L[a].amount /\ q[a] = M[a].amount
    BY DEF LockedIn, LockInfo
  <1> HIDE DEF p, q
  <1>2. SumOver(p, Lockers) \in Nat
    BY <1>1, LockersFinite, SumNat
  <1>3. SumOver(q, Lockers) = SumOver(p, Lockers) - p[a] + q[a]
    BY <1>1, LockersFinite, SumChange
  <1> QED  BY <1>1, <1>2, <1>3 DEF p, q

\* What is locked adds up to a natural number.
LEMMA LockedNat ==
  ASSUME NEW L \in [Lockers -> LockInfo]
  PROVE  SumOver(LockedIn(L), Lockers) \in Nat
  <1>1. PICK p : p = LockedIn(L)
    OBVIOUS
  <1>2. \A b \in Lockers : p[b] \in Nat
    BY <1>1 DEF LockedIn, LockInfo
  <1> QED  BY <1>1, <1>2, LockersFinite, SumNat

-----------------------------------------------------------------------------
\* The types the steps reason from.
LEMMA VeTypes ==
  ASSUME VeTypeOK
  PROVE  /\ now \in Nat /\ balance \in Nat /\ distributed \in Nat /\ claimed \in Nat
         /\ checkpoint.acc_fee_per_power \in Nat /\ checkpoint.total_power \in Nat
         /\ \A a \in Lockers :
              /\ locks[a] \in LockInfo /\ accounts[a] \in FeeAccount
              /\ locks[a].amount \in Nat /\ locks[a].unlock_at \in Nat
              /\ accounts[a].pending \in Nat /\ accounts[a].recorded_power \in Nat
              /\ accounts[a].reward_per_power_paid \in Nat
  BY DEF VeTypeOK, FeeCheckpoint, LockInfo, FeeAccount

\* What settle_fee_account leaves in a's account.
LEMMA SettledFacts ==
  ASSUME VeInv, NEW a \in Lockers, NEW newLock
  PROVE  /\ Settled(a, newLock) \in FeeAccount
         /\ Settled(a, newLock).reward_per_power_paid = checkpoint.acc_fee_per_power
         /\ Settled(a, newLock).recorded_power = accounts[a].recorded_power
         /\ Settled(a, newLock).pending \in Nat
         /\ Settled(a, newLock).pending * SCALE
              <= Entitlement(accounts[a], checkpoint.acc_fee_per_power)
  <1>1. PICK x, acc, p : x = accounts[a] /\ acc = checkpoint.acc_fee_per_power /\ p = Power(locks[a])
    OBVIOUS
  <1>2. x \in FeeAccount /\ acc \in Nat /\ x.reward_per_power_paid <= acc /\ p = PowerAt(locks[a], now)
    BY <1>1, VeTypes DEF VeInv, Power, PowerAt
  <1>3. p \in Nat /\ p <= x.recorded_power
    BY <1>1, <1>2, VeTypes, PowerDecays DEF VeInv
  <1>4. PICK q : q = x.pending + (p * (acc - x.reward_per_power_paid)) \div SCALE
    OBVIOUS
  <1>5. q \in Nat /\ q * SCALE <= Entitlement(x, acc)
    BY <1>2, <1>3, <1>4, SettlingWithinEntitlement
  <1>6. Settled(a, newLock) = [x EXCEPT !.pending = q, !.reward_per_power_paid = acc]
    BY <1>1, <1>4 DEF Settled
  <1>7. /\ [x EXCEPT !.pending = q, !.reward_per_power_paid = acc] \in FeeAccount
        /\ [x EXCEPT !.pending = q, !.reward_per_power_paid = acc].pending = q
        /\ [x EXCEPT !.pending = q, !.reward_per_power_paid = acc].reward_per_power_paid = acc
        /\ [x EXCEPT !.pending = q, !.reward_per_power_paid = acc].recorded_power = x.recorded_power
    BY <1>2, <1>5 DEF FeeAccount
  <1> QED  BY <1>1, <1>5, <1>6, <1>7

\* lock, extend_lock and withdraw keep the invariant: what the account has earned
\* is fixed at the old power before the new one is recorded.
LEMMA ChangeKeeps ==
  ASSUME VeInv, initialized, NEW a \in Lockers, NEW newLock \in LockInfo, ChangeLock(a, newLock),
         balance' \in Nat, balance' = balance - locks[a].amount + newLock.amount
  PROVE  VeInv'
  <1> USE DEF VeInv
  <1>0. /\ now \in Nat /\ balance \in Nat /\ distributed \in Nat /\ claimed \in Nat
        /\ checkpoint \in FeeCheckpoint /\ VeTypeOK /\ SCALE \in Nat
    BY VeTypes, LockersFinite DEF VeTypeOK
  <1>1. PICK A, B, L, M, acc, x, p :
          /\ A = accounts /\ B = accounts' /\ L = locks /\ M = locks'
          /\ acc = checkpoint.acc_fee_per_power /\ x = Settled(a, newLock) /\ p = Power(newLock)
    OBVIOUS
  <1>2. acc \in Nat /\ p \in Nat /\ p = PowerAt(newLock, now)
    BY <1>0, <1>1, VeTypes, PowerDecays DEF Power, PowerAt
  <1>3. /\ x \in FeeAccount /\ x.reward_per_power_paid = acc /\ x.pending \in Nat
        /\ x.pending * SCALE <= Entitlement(A[a], acc)
    BY <1>1, SettledFacts
  <1>4. PICK y : y = [x EXCEPT !.recorded_power = p]
    OBVIOUS
  <1>5. /\ y \in FeeAccount /\ y.recorded_power = p /\ y.reward_per_power_paid = acc
        /\ y.pending = x.pending
    BY <1>2, <1>3, <1>4 DEF FeeAccount
  <1>6. /\ accounts' = [accounts EXCEPT ![a] = y] /\ locks' = [locks EXCEPT ![a] = newLock]
        /\ checkpoint' = [checkpoint EXCEPT !.total_power = @ - A[a].recorded_power + p]
        /\ UNCHANGED <<now, initialized, distributed, claimed>>
    BY <1>1, <1>4 DEF ChangeLock, TotalPower
  <1>7. /\ A \in [Lockers -> FeeAccount] /\ B \in [Lockers -> FeeAccount]
        /\ L \in [Lockers -> LockInfo] /\ M \in [Lockers -> LockInfo]
        /\ B[a] = y /\ M[a] = newLock
        /\ \A b \in Lockers \ {a} : B[b] = A[b] /\ M[b] = L[b]
    BY <1>1, <1>5, <1>6 DEF VeTypeOK
  <1>8. (\A b \in Lockers : A[b].reward_per_power_paid <= acc) /\ B[a].reward_per_power_paid <= acc
    BY <1>1, <1>2, <1>5, <1>7
  <1>9. /\ SumOver(EntitledIn(A, acc), Lockers) \in Nat
        /\ SumOver(EntitledIn(B, acc), Lockers)
             = SumOver(EntitledIn(A, acc), Lockers) - Entitlement(A[a], acc) + Entitlement(B[a], acc)
        /\ SumOver(RecordedIn(A), Lockers) \in Nat /\ SumOver(RecordedIn(B), Lockers) \in Nat
        /\ SumOver(RecordedIn(B), Lockers)
             = SumOver(RecordedIn(A), Lockers) - A[a].recorded_power + B[a].recorded_power
    BY <1>2, <1>7, <1>8, AccountMoves
  <1>10. /\ SumOver(LockedIn(L), Lockers) \in Nat
         /\ SumOver(LockedIn(M), Lockers) = SumOver(LockedIn(L), Lockers) - L[a].amount + newLock.amount
    BY <1>7, LockMoves
  <1>11. checkpoint'.total_power = SumOver(RecordedIn(B), Lockers)
         /\ checkpoint'.acc_fee_per_power = acc
    <2>1. /\ checkpoint'.total_power = checkpoint.total_power - A[a].recorded_power + p
          /\ checkpoint'.acc_fee_per_power = acc
      BY <1>0, <1>1, <1>6 DEF FeeCheckpoint
    <2> QED  BY <1>1, <1>5, <1>7, <1>9, <2>1
  <1>12. VeTypeOK'
    <2>1. checkpoint' \in FeeCheckpoint
      <3>1. \A n \in Nat : [checkpoint EXCEPT !.total_power = n] \in FeeCheckpoint
        BY <1>0 DEF FeeCheckpoint
      <3>2. checkpoint' = [checkpoint EXCEPT !.total_power = checkpoint'.total_power]
        BY <1>0, <1>6 DEF FeeCheckpoint
      <3> QED  BY <1>9, <1>11, <3>1, <3>2
    <2> QED  BY <1>0, <1>1, <1>6, <1>7, <2>1 DEF VeTypeOK
  <1>13. \A b \in Lockers : /\ PowerAt(M[b], now) <= B[b].recorded_power
                            /\ B[b].reward_per_power_paid <= acc
    <2>1. PowerAt(newLock, now) <= y.recorded_power
      BY <1>2, <1>5
    <2> QED  BY <1>1, <1>7, <1>8, <2>1
  <1>14. claimed * SCALE + SumOver(EntitledIn(B, acc), Lockers) <= distributed * SCALE
    <2>1. Entitlement(y, acc) = x.pending * SCALE
      <3>1. p * (acc - acc) = 0 /\ x.pending * SCALE \in Nat
        BY <1>0, <1>2, <1>3
      <3> QED  BY <1>5, <3>1 DEF Entitlement
    <2>2. /\ Entitlement(A[a], acc) \in Nat /\ claimed * SCALE \in Nat /\ distributed * SCALE \in Nat
          /\ x.pending * SCALE \in Nat
      BY <1>0, <1>2, <1>3, <1>7, <1>8, EntitlementNat
    <2>3. claimed * SCALE + SumOver(EntitledIn(A, acc), Lockers) <= distributed * SCALE
      BY <1>1
    <2> QED  BY <1>3, <1>7, <1>9, <2>1, <2>2, <2>3
  <1>15. balance' + claimed = SumOver(LockedIn(M), Lockers) + distributed
    <2>1. balance + claimed = SumOver(LockedIn(L), Lockers) + distributed
      BY <1>1
    <2>2. newLock.amount \in Nat /\ L[a].amount \in Nat /\ L[a] = locks[a]
      BY <1>1, <1>7 DEF LockInfo
    <2>3. PICK i, o, b : i = newLock.amount /\ o = L[a].amount /\ b = balance'
      OBVIOUS
    <2>4. b = balance - o + i /\ b \in Nat
      BY <2>2, <2>3
    <2>5. PICK n, m, c, d : n = balance /\ m = SumOver(LockedIn(L), Lockers) /\ c = claimed
                            /\ d = distributed
      OBVIOUS
    <2> HIDE DEF VeInv
    <2>6. /\ n \in Int /\ m \in Int /\ c \in Int /\ d \in Int /\ o \in Int /\ i \in Int
          /\ n + c = m + d
      BY <1>0, <1>10, <2>1, <2>2, <2>3, <2>5
    <2>7. n - o + i + c = m - o + i + d
      BY <2>6
    <2>8. b + claimed = SumOver(LockedIn(L), Lockers) - o + i + distributed
      BY <2>4, <2>5, <2>7
    <2> QED  BY <1>10, <2>3, <2>8
  <1> QED  BY <1>1, <1>6, <1>11, <1>12, <1>13, <1>14, <1>15

\* The initial state: nothing is locked, earned or held.
LEMMA VeInvInit == VeInit => VeInv
  <1> SUFFICES ASSUME VeInit  PROVE VeInv
    OBVIOUS
  <1>1. NoLock \in LockInfo /\ NoAccount \in FeeAccount
    BY DEF NoLock, LockInfo, NoAccount, FeeAccount
  <1>2. checkpoint \in FeeCheckpoint
    BY DEF VeInit, FeeCheckpoint
  <1>3. VeTypeOK
    BY <1>1, <1>2 DEF VeInit, LedgerInit, VeTypeOK
  <1>4. \A a \in Lockers : PowerAt(locks[a], now) = 0
    BY DEF VeInit, LedgerInit, NoLock, PowerAt
  <1>5. SumOver(RecordedIn(accounts), Lockers) = 0
    <2>1. PICK f : f = RecordedIn(accounts)
      OBVIOUS
    <2>2. \A a \in Lockers : f[a] = 0
      BY <2>1 DEF VeInit, RecordedIn, NoAccount
    <2> QED  BY <2>1, <2>2, LockersFinite, SumZero
  <1>6. SumOver(EntitledIn(accounts, 0), Lockers) = 0
    <2>1. PICK f : f = EntitledIn(accounts, 0)
      OBVIOUS
    <2>2. Entitlement(NoAccount, 0) = 0
      BY LockersFinite DEF Entitlement, NoAccount
    <2>3. \A a \in Lockers : f[a] = 0
      BY <2>1, <2>2 DEF VeInit, EntitledIn
    <2> QED  BY <2>1, <2>3, LockersFinite, SumZero
  <1>7. SumOver(LockedIn(locks), Lockers) = 0
    <2>1. PICK f : f = LockedIn(locks)
      OBVIOUS
    <2>2. \A a \in Lockers : f[a] = 0
      BY <2>1 DEF VeInit, LockedIn, NoLock
    <2> QED  BY <2>1, <2>2, LockersFinite, SumZero
  <1>8. 0 * SCALE = 0
    BY LockersFinite
  <1> QED  BY <1>3, <1>4, <1>5, <1>6, <1>7, <1>8 DEF VeInit, VeInv, NoAccount

\* distribute_fees keeps the invariant: the quotient, times the power it was
\* divided by, is at most what came in.
LEMMA DistributeKeeps ==
  ASSUME VeInv, NEW amount \in Fees, distribute_fees(amount)
  PROVE  VeInv'
  <1>0. /\ now \in Nat /\ balance \in Nat /\ distributed \in Nat /\ claimed \in Nat
        /\ checkpoint \in FeeCheckpoint /\ VeTypeOK /\ SCALE \in Nat \ {0} /\ amount \in Nat
    BY VeTypes, LockersFinite, VeTokenConstants DEF VeInv, VeTypeOK
  <1>1. PICK A, acc, power, e :
          /\ A = accounts /\ acc = checkpoint.acc_fee_per_power /\ power = checkpoint.total_power
          /\ e = (amount * SCALE) \div power
    OBVIOUS
  <1>2. acc \in Nat /\ power \in Nat \ {0} /\ A \in [Lockers -> FeeAccount]
    BY <1>0, <1>1, VeTypes DEF distribute_fees, VeTypeOK
  <1>3. amount * SCALE \in Nat /\ e \in Nat /\ e * power <= amount * SCALE /\ e * power \in Nat
    BY <1>0, <1>1, <1>2, Quotient, Product
  <1>4. /\ checkpoint' = [checkpoint EXCEPT !.acc_fee_per_power = @ + e]
        /\ balance' = balance + amount /\ distributed' = distributed + amount
        /\ UNCHANGED <<now, initialized, locks, accounts, claimed>> /\ initialized
    BY <1>1 DEF distribute_fees
  <1>5. /\ checkpoint' \in FeeCheckpoint /\ checkpoint'.acc_fee_per_power = acc + e
        /\ checkpoint'.total_power = power
    BY <1>0, <1>1, <1>2, <1>3, <1>4 DEF FeeCheckpoint
  <1>6. VeTypeOK'
    BY <1>0, <1>4, <1>5 DEF VeTypeOK
  <1>7. /\ \A a \in Lockers : A[a].reward_per_power_paid <= acc
        /\ \A a \in Lockers : A[a].reward_per_power_paid <= acc + e
        /\ power = SumOver(RecordedIn(A), Lockers)
        /\ claimed * SCALE + SumOver(EntitledIn(A, acc), Lockers) <= distributed * SCALE
    <2>1. /\ \A a \in Lockers : A[a].reward_per_power_paid <= acc
          /\ power = SumOver(RecordedIn(A), Lockers)
          /\ claimed * SCALE + SumOver(EntitledIn(A, acc), Lockers) <= distributed * SCALE
      BY <1>1 DEF VeInv
    <2>2. \A a \in Lockers : A[a].reward_per_power_paid \in Nat
      BY <1>2 DEF FeeAccount
    <2>3. \A r \in Nat : r <= acc => r <= acc + e
      BY <1>2, <1>3
    <2> QED  BY <2>1, <2>2, <2>3
  <1>8. /\ SumOver(EntitledIn(A, acc), Lockers) \in Nat
        /\ SumOver(EntitledIn(A, acc + e), Lockers)
             = SumOver(EntitledIn(A, acc), Lockers) + power * e
    <2>1. PICK f, g, h, p : /\ f = EntitledIn(A, acc) /\ h = EntitledIn(A, acc + e)
                            /\ p = RecordedIn(A) /\ g = [a \in Lockers |-> A[a].recorded_power * e]
      OBVIOUS
    <2>2. ASSUME NEW a \in Lockers
          PROVE  /\ f[a] \in Nat /\ p[a] \in Int /\ g[a] = p[a] * e /\ g[a] \in Int
                 /\ h[a] = f[a] + g[a]
      <3>1. PICK y, r, w : y = A[a].pending /\ r = A[a].recorded_power
                           /\ w = A[a].reward_per_power_paid
        OBVIOUS
      <3>2. y \in Nat /\ r \in Nat /\ w \in Nat
        BY <1>2, <3>1 DEF FeeAccount
      <3>3. f[a] = y * SCALE + r * (acc - w) /\ h[a] = y * SCALE + r * ((acc + e) - w)
            /\ g[a] = r * e /\ p[a] = r
        <4>1. f[a] = Entitlement(A[a], acc) /\ h[a] = Entitlement(A[a], acc + e)
          BY <2>1 DEF EntitledIn
        <4>2. g[a] = r * e /\ p[a] = r
          BY <2>1, <3>1 DEF RecordedIn
        <4>3. \A k : Entitlement(A[a], k) = y * SCALE + r * (k - w)
          BY <3>1 DEF Entitlement
        <4>4. f[a] = y * SCALE + r * (acc - w) /\ h[a] = y * SCALE + r * ((acc + e) - w)
          BY <4>1, <4>3
        <4> QED  BY <4>2, <4>4
      <3>4. r * ((acc + e) - w) = r * (acc - w) + r * e /\ r * e \in Int /\ r * (acc - w) \in Int
            /\ y * SCALE \in Int
        BY <1>0, <1>2, <1>3, <3>2
      <3>5. f[a] \in Nat
        <4>1. Entitlement(A[a], acc) \in Nat
          BY <1>2, <1>7, EntitlementNat
        <4> QED  BY <2>1, <4>1 DEF EntitledIn
      <3> QED  BY <3>2, <3>3, <3>4, <3>5
    <2>3. SumOver(f, Lockers) \in Nat
      BY <2>2, LockersFinite, SumNat
    <2>4. SumOver(h, Lockers) = SumOver(f, Lockers) + SumOver(g, Lockers)
      <3>1. \A a \in Lockers : f[a] \in Int /\ g[a] \in Int /\ h[a] = f[a] + g[a]
        BY <2>2
      <3> QED  BY <3>1, LockersFinite, SumPlus
    <2>5. SumOver(g, Lockers) = SumOver(p, Lockers) * e
      <3>1. \A a \in Lockers : p[a] \in Int /\ g[a] = p[a] * e
        BY <2>2
      <3>2. e \in Int
        BY <1>3
      <3> QED  BY <3>1, <3>2, LockersFinite, SumScaled
    <2> QED  BY <1>7, <2>1, <2>3, <2>4, <2>5
  <1>9. claimed * SCALE + SumOver(EntitledIn(A, acc + e), Lockers) <= (distributed + amount) * SCALE
    <2>1. /\ (distributed + amount) * SCALE = distributed * SCALE + amount * SCALE
          /\ power * e = e * power
          /\ claimed * SCALE \in Nat /\ distributed * SCALE \in Nat
      BY <1>0, <1>2, <1>3
    <2> QED  BY <1>3, <1>7, <1>8, <2>1
  <1>10. balance + amount + claimed = SumOver(LockedIn(locks), Lockers) + (distributed + amount)
    <2>1. PICK m : m = SumOver(LockedIn(locks), Lockers)
      OBVIOUS
    <2>2. balance + claimed = m + distributed
      BY <2>1 DEF VeInv
    <2>3. m \in Nat
      BY <1>0, <2>1, LockedNat DEF VeTypeOK
    <2> QED  BY <1>0, <2>1, <2>2, <2>3
  <1>11. \A a \in Lockers : PowerAt(locks[a], now) <= accounts[a].recorded_power
    BY DEF VeInv
  <1> QED  BY <1>1, <1>4, <1>5, <1>6, <1>7, <1>9, <1>10, <1>11 DEF VeInv

\* claim_fees keeps the invariant: what leaves was part of the entitlement.
LEMMA ClaimKeeps ==
  ASSUME VeInv, NEW a \in Lockers, claim_fees(a)
  PROVE  VeInv'
  <1>0. /\ now \in Nat /\ balance \in Nat /\ distributed \in Nat /\ claimed \in Nat
        /\ checkpoint \in FeeCheckpoint /\ VeTypeOK /\ SCALE \in Nat \ {0}
    BY VeTypes, LockersFinite DEF VeInv, VeTypeOK
  <1>1. PICK A, B, acc, x, q : /\ A = accounts /\ B = accounts' /\ acc = checkpoint.acc_fee_per_power
                               /\ x = Settled(a, locks[a]) /\ q = x.pending
    OBVIOUS
  <1>2. /\ x \in FeeAccount /\ x.reward_per_power_paid = acc /\ q \in Nat
        /\ x.recorded_power = A[a].recorded_power /\ q * SCALE <= Entitlement(A[a], acc)
    BY <1>1, SettledFacts
  <1>3. PICK y : y = [x EXCEPT !.pending = 0]
    OBVIOUS
  <1>4. /\ y \in FeeAccount /\ y.pending = 0 /\ y.reward_per_power_paid = acc
        /\ y.recorded_power = A[a].recorded_power
    BY <1>2, <1>3 DEF FeeAccount
  <1>5. /\ accounts' = [accounts EXCEPT ![a] = y] /\ q <= balance
        /\ balance' = balance - q /\ claimed' = claimed + q
        /\ UNCHANGED <<now, initialized, locks, checkpoint, distributed>> /\ initialized
    BY <1>1, <1>3 DEF claim_fees
  <1>6. /\ acc \in Nat /\ A \in [Lockers -> FeeAccount] /\ B \in [Lockers -> FeeAccount]
        /\ B[a] = y /\ \A b \in Lockers \ {a} : B[b] = A[b]
    BY <1>0, <1>1, <1>4, <1>5, VeTypes DEF VeTypeOK
  <1>7. /\ \A b \in Lockers : A[b].reward_per_power_paid <= acc
        /\ \A b \in Lockers : B[b].reward_per_power_paid <= acc
        /\ \A b \in Lockers : PowerAt(locks[b], now) <= B[b].recorded_power
        /\ checkpoint.total_power = SumOver(RecordedIn(A), Lockers)
        /\ claimed * SCALE + SumOver(EntitledIn(A, acc), Lockers) <= distributed * SCALE
    <2>1. /\ \A b \in Lockers : A[b].reward_per_power_paid <= acc
          /\ \A b \in Lockers : PowerAt(locks[b], now) <= A[b].recorded_power
          /\ checkpoint.total_power = SumOver(RecordedIn(A), Lockers)
          /\ claimed * SCALE + SumOver(EntitledIn(A, acc), Lockers) <= distributed * SCALE
      BY <1>1 DEF VeInv
    <2> QED  BY <1>4, <1>6, <2>1
  <1>8. /\ SumOver(EntitledIn(A, acc), Lockers) \in Nat
        /\ SumOver(EntitledIn(B, acc), Lockers)
             = SumOver(EntitledIn(A, acc), Lockers) - Entitlement(A[a], acc) + Entitlement(y, acc)
        /\ SumOver(RecordedIn(A), Lockers) \in Nat
        /\ SumOver(RecordedIn(B), Lockers)
             = SumOver(RecordedIn(A), Lockers) - A[a].recorded_power + y.recorded_power
    BY <1>6, <1>7, AccountMoves
  <1>9. Entitlement(y, acc) = 0 /\ A[a].recorded_power \in Nat
    <2>1. A[a].recorded_power \in Nat
      BY <1>6 DEF FeeAccount
    <2>2. A[a].recorded_power * (acc - acc) = 0 /\ 0 * SCALE = 0
      BY <1>0, <1>6, <2>1
    <2> QED  BY <1>4, <2>1, <2>2 DEF Entitlement
  <1>10. SumOver(RecordedIn(B), Lockers) = SumOver(RecordedIn(A), Lockers)
    BY <1>4, <1>8, <1>9
  <1>11. (claimed + q) * SCALE + SumOver(EntitledIn(B, acc), Lockers) <= distributed * SCALE
    <2>1. /\ (claimed + q) * SCALE = claimed * SCALE + q * SCALE
          /\ claimed * SCALE \in Nat /\ distributed * SCALE \in Nat /\ q * SCALE \in Nat
      BY <1>0, <1>2
    <2>2. Entitlement(A[a], acc) \in Nat
      BY <1>6, <1>7, EntitlementNat
    <2> QED  BY <1>2, <1>7, <1>8, <1>9, <2>1, <2>2
  <1>12. VeTypeOK' /\ balance' + claimed' = balance + claimed
    <2>1. balance - q \in Nat /\ claimed + q \in Nat /\ balance - q + (claimed + q) = balance + claimed
      BY <1>0, <1>2, <1>5
    <2> QED  BY <1>0, <1>1, <1>5, <1>6, <2>1 DEF VeTypeOK
  <1> QED  BY <1>1, <1>5, <1>7, <1>10, <1>11, <1>12 DEF VeInv

\* The three changes of a lock keep the invariant.
LEMMA LockStepsKeep ==
  ASSUME VeInv, NEW a \in Lockers,
         \/ \E amount \in Amounts, d \in Durations : lock(a, amount, d)
         \/ \E d \in Durations : extend_lock(a, d)
         \/ withdraw(a)
  PROVE  VeInv'
  <1>0. /\ now \in Nat /\ balance \in Nat /\ locks[a] \in LockInfo
        /\ locks[a].amount \in Nat /\ locks[a].unlock_at \in Nat
    BY VeTypes DEF VeInv
  <1>1. ASSUME NEW amount \in Amounts, NEW d \in Durations, lock(a, amount, d)  PROVE VeInv'
    <2>1. amount \in Nat /\ d \in Nat
      BY VeTokenConstants
    <2>2. PICK n : n = [amount |-> locks[a].amount + amount,
                        unlock_at |-> Later(locks[a].unlock_at, now + d)]
      OBVIOUS
    <2>3. n \in LockInfo /\ n.amount = locks[a].amount + amount
      BY <1>0, <2>1, <2>2 DEF LockInfo, Later
    <2>4. initialized /\ ChangeLock(a, n) /\ balance' = balance + amount
      BY <1>1, <2>2 DEF lock
    <2>5. balance' \in Nat /\ balance' = balance - locks[a].amount + n.amount
      BY <1>0, <2>1, <2>3, <2>4
    <2> QED  BY <2>3, <2>4, <2>5, ChangeKeeps
  <1>2. ASSUME locks[a].amount > 0  PROVE initialized
    BY <1>2 DEF VeInv, NoLock
  <1>3. ASSUME NEW d \in Durations, extend_lock(a, d)  PROVE VeInv'
    <2>1. d \in Nat
      BY VeTokenConstants
    <2>2. PICK e : e = Later(locks[a].unlock_at, now) + d
      OBVIOUS
    <2>3. e \in Nat
      BY <1>0, <2>1, <2>2 DEF Later
    <2>4. PICK n : n = [locks[a] EXCEPT !.unlock_at = e]
      OBVIOUS
    <2>5. n \in LockInfo /\ n.amount = locks[a].amount
      BY <1>0, <2>3, <2>4 DEF LockInfo
    <2>6. initialized /\ ChangeLock(a, n) /\ balance' = balance
      BY <1>2, <1>3, <2>2, <2>4 DEF extend_lock
    <2>7. balance' \in Nat /\ balance' = balance - locks[a].amount + n.amount
      BY <1>0, <2>5, <2>6
    <2> QED  BY <2>5, <2>6, <2>7, ChangeKeeps
  <1>4. ASSUME withdraw(a)  PROVE VeInv'
    <2>1. NoLock \in LockInfo /\ NoLock.amount = 0
      BY DEF NoLock, LockInfo
    <2>2. /\ initialized /\ ChangeLock(a, NoLock) /\ balance' = balance - locks[a].amount
          /\ locks[a].amount <= balance
      BY <1>2, <1>4 DEF withdraw
    <2>3. balance' \in Nat /\ balance' = balance - locks[a].amount + NoLock.amount
      BY <1>0, <2>1, <2>2
    <2> QED  BY <2>1, <2>2, <2>3, ChangeKeeps
  <1> QED  BY <1>1, <1>3, <1>4

\* VeInv is inductive.
LEMMA VeInvStep == VeInv /\ [VeNext]_veVars => VeInv'
  <1> SUFFICES ASSUME VeInv, [VeNext]_veVars  PROVE VeInv'
    OBVIOUS
  <1>1. CASE VeTick
    <2>1. now' = now + 1 /\ now \in Nat /\ now + 1 \in Nat /\ now <= now + 1
      BY <1>1, VeTypes DEF VeTick, LedgerTick, VeInv
    <2>2. UNCHANGED <<initialized, locks, accounts, checkpoint, balance, distributed, claimed>>
      BY <1>1 DEF VeTick
    <2>3. ASSUME NEW a \in Lockers  PROVE PowerAt(locks[a], now + 1) <= accounts[a].recorded_power
      <3>1. locks[a] \in LockInfo /\ accounts[a].recorded_power \in Nat
        BY VeTypes DEF VeInv
      <3>2. /\ PowerAt(locks[a], now) \in Nat /\ PowerAt(locks[a], now + 1) \in Nat
            /\ PowerAt(locks[a], now + 1) <= PowerAt(locks[a], now)
        BY <2>1, <3>1, PowerDecays
      <3>3. PowerAt(locks[a], now) <= accounts[a].recorded_power
        BY DEF VeInv
      <3> QED  BY <3>1, <3>2, <3>3
    <2>4. VeTypeOK'
      BY <2>1, <2>2 DEF VeInv, VeTypeOK
    <2> QED  BY <2>1, <2>2, <2>3, <2>4 DEF VeInv
  <1>2. CASE initialize
    <2>1. /\ checkpoint' = [acc_fee_per_power |-> 0, total_power |-> 0] /\ initialized'
          /\ UNCHANGED <<now, locks, accounts, balance, distributed, claimed>>
          /\ checkpoint.acc_fee_per_power = 0 /\ checkpoint.total_power = 0
      BY <1>2 DEF initialize, VeInv
    <2>2. checkpoint' \in FeeCheckpoint /\ checkpoint'.acc_fee_per_power = 0
          /\ checkpoint'.total_power = 0
      BY <2>1 DEF FeeCheckpoint
    <2>3. VeTypeOK'
      BY <2>1, <2>2 DEF VeInv, VeTypeOK
    <2> QED  BY <2>1, <2>2, <2>3 DEF VeInv
  <1>3. CASE UNCHANGED veVars
    BY <1>3 DEF veVars, VeInv, VeTypeOK
  <1> QED  BY <1>1, <1>2, <1>3, LockStepsKeep, DistributeKeeps, ClaimKeeps DEF VeNext

\* In every state the invariant holds.
LEMMA VeInvHolds == VeSpec => []VeInv
  BY VeInvInit, VeInvStep, PTL DEF VeSpec

\* For every instance: however locks, extensions, distributions, claims and the
\* decay of power interleave, the contract can return every lock and pay every
\* claim at once, although both are one token in one balance, and claims at the
\* live power stay within fees shared by the recorded one.
THEOREM LocksAlwaysReturnable == VeSpec => []LocksReturnable
  <1>1. VeInv => LocksReturnable
    <2> SUFFICES ASSUME VeInv  PROVE LocksReturnable
      OBVIOUS
    <2>0. /\ balance \in Nat /\ distributed \in Nat /\ claimed \in Nat /\ VeTypeOK
          /\ SCALE \in Nat \ {0} /\ IsFiniteSet(Lockers)
      BY VeTypes, LockersFinite DEF VeInv
    <2>1. PICK f, h, g, acc, C, L :
            /\ f = [a \in Lockers |-> Claimable(a)] /\ h = [a \in Lockers |-> Claimable(a) * SCALE]
            /\ acc = checkpoint.acc_fee_per_power /\ g = EntitledIn(accounts, acc)
            /\ C = SumOver(f, Lockers) /\ L = SumOver(LockedIn(locks), Lockers)
      OBVIOUS
    <2>2. ASSUME NEW a \in Lockers
          PROVE  /\ f[a] \in Nat /\ f[a] \in Int /\ h[a] = f[a] * SCALE /\ h[a] \in Int
                 /\ g[a] \in Int /\ h[a] <= g[a]
      <3>1. /\ Claimable(a) \in Nat
            /\ Claimable(a) * SCALE <= Entitlement(accounts[a], acc)
        BY <2>1, SettledFacts DEF Claimable
      <3>2. /\ f[a] = Claimable(a) /\ h[a] = Claimable(a) * SCALE
            /\ g[a] = Entitlement(accounts[a], acc)
        BY <2>1 DEF EntitledIn
      <3>3. Entitlement(accounts[a], acc) \in Nat
        BY <2>1, VeTypes, EntitlementNat DEF VeInv
      <3> QED  BY <2>0, <3>1, <3>2, <3>3
    <2>3. C \in Nat
      BY <2>0, <2>1, <2>2, SumNat
    <2>4. SumOver(h, Lockers) = C * SCALE
      <3>1. \A a \in Lockers : f[a] \in Int /\ h[a] = f[a] * SCALE
        BY <2>2
      <3>2. SCALE \in Int
        BY <2>0
      <3> QED  BY <2>0, <2>1, <3>1, <3>2, SumScaled
    <2>5. SumOver(h, Lockers) <= SumOver(g, Lockers) /\ SumOver(g, Lockers) \in Int
      <3>1. \A a \in Lockers : h[a] \in Int /\ g[a] \in Int /\ h[a] <= g[a]
        BY <2>2
      <3> QED  BY <2>0, <3>1, SumDominated, SumInt
    <2>6. claimed * SCALE + SumOver(g, Lockers) <= distributed * SCALE
      BY <2>1 DEF VeInv
    <2>7. (claimed + C) * SCALE <= distributed * SCALE
      <3>1. (claimed + C) * SCALE = claimed * SCALE + C * SCALE /\ claimed * SCALE \in Nat
            /\ C * SCALE \in Nat /\ distributed * SCALE \in Nat
        BY <2>0, <2>3
      <3> QED  BY <2>4, <2>5, <2>6, <3>1
    <2>8. claimed + C <= distributed
      <3>1. claimed + C \in Nat
        BY <2>0, <2>3
      <3> QED  BY <2>0, <2>7, <3>1, Unscaled
    <2>9. FeesCovered
      BY <2>1, <2>8 DEF FeesCovered
    <2>10. balance >= L + C
      <3>1. balance + claimed = L + distributed
        BY <2>1 DEF VeInv
      <3>2. L \in Nat
        BY <2>0, <2>1, LockedNat DEF VeTypeOK
      <3> QED  BY <2>0, <2>3, <2>8, <3>1, <3>2
    <2>11. PowerRecorded
      <3>1. \A a \in Lockers : Power(locks[a]) = PowerAt(locks[a], now)
        BY DEF Power, PowerAt
      <3> QED  BY <2>0, <3>1 DEF PowerRecorded, VeInv, RecordedIn
    <2> QED  BY <2>1, <2>9, <2>10, <2>11 DEF LocksReturnable, LockedIn
  <1> QED  BY <1>1, VeInvHolds, PTL

\* For every instance: no sequence of lock, extend_lock and withdraw lets locked
\* tokens out before the time their owner was promised, or moves that time back.
THEOREM LocksAlwaysHold == VeSpec => LocksHold
  <1> DEFINE Held(a) ==
        locks[a].amount > 0 =>
          IF locks'[a].amount >= locks[a].amount
          THEN locks'[a].unlock_at >= locks[a].unlock_at
          ELSE now >= locks[a].unlock_at /\ locks'[a] = NoLock
  <1>1. ASSUME VeInv, [VeNext]_veVars  PROVE \A a \in Lockers : Held(a)
    <2> SUFFICES ASSUME NEW b \in Lockers  PROVE Held(b)
      OBVIOUS
    <2>0. /\ locks \in [Lockers -> LockInfo] /\ now \in Nat
          /\ \A a \in Lockers : locks[a].amount \in Nat /\ locks[a].unlock_at \in Nat
      BY <1>1, VeTypes DEF VeInv, VeTypeOK
    <2>1. CASE locks'[b] = locks[b]
      BY <2>0, <2>1
    <2>2. ASSUME NEW a \in Lockers, NEW amount \in Amounts, NEW d \in Durations, lock(a, amount, d)
          PROVE  Held(b)
      <3>1. amount \in Nat /\ d \in Nat
        BY VeTokenConstants
      <3>2. locks' = [locks EXCEPT ![a] = [amount |-> locks[a].amount + amount,
                                           unlock_at |-> Later(locks[a].unlock_at, now + d)]]
        BY <2>2 DEF lock, ChangeLock
      <3> QED  BY <2>0, <2>1, <3>1, <3>2 DEF Later
    <2>3. ASSUME NEW a \in Lockers, NEW d \in Durations, extend_lock(a, d)  PROVE Held(b)
      <3>1. d \in Nat
        BY VeTokenConstants
      <3>2. locks' = [locks EXCEPT ![a] =
                        [locks[a] EXCEPT !.unlock_at = Later(locks[a].unlock_at, now) + d]]
        BY <2>3 DEF extend_lock, ChangeLock
      <3> QED  BY <2>0, <2>1, <3>1, <3>2 DEF Later, LockInfo
    <2>4. ASSUME NEW a \in Lockers, withdraw(a)  PROVE Held(b)
      <3>1. locks' = [locks EXCEPT ![a] = NoLock] /\ now >= locks[a].unlock_at
        BY <2>4 DEF withdraw, ChangeLock
      <3> QED  BY <2>0, <2>1, <3>1 DEF NoLock
    <2>5. CASE UNCHANGED locks
      BY <2>1, <2>5
    <2> QED  BY <1>1, <2>2, <2>3, <2>4, <2>5
             DEF VeNext, VeTick, initialize, distribute_fees, claim_fees, veVars
  <1> QED  BY <1>1, VeInvHolds, PTL DEF VeSpec, LocksHold
-----------------------------------------------------------------------------
(* Loss events. *)

\* A guardian set whose threshold its members can reach.
Reachable(set) ==
  /\ set = [members |-> set.members, threshold |-> set.threshold]
  /\ set.members \in SUBSET Guardians
  /\ set.threshold \in 1 .. Cardinality(set.members)

\* An event as it is stored, and a signature as the history keeps it.
LossEvent == [amount : Nat, attesters : SUBSET Guardians, attested_at : Nat \cup {None}]
Signature == [by : Guardians, at : Nat]

\* Of one event: the attesters are those that signed, all of the panel; once it
\* counts as attested, a threshold of them had signed by then.
Attested(e, sig, time, set) ==
  /\ IsFiniteSet(sig)
  /\ \A x \in sig : x.at <= time /\ x.by \in set.members
  /\ e.attesters = {x.by : x \in sig}
  /\ e.attested_at # None =>
       /\ e.attested_at \in Nat /\ e.attested_at <= time
       /\ Cardinality({x \in sig : x.at <= e.attested_at}) >= set.threshold

LossInv ==
  /\ now \in Nat
  /\ guardians # None => Reachable(guardians)
  /\ panel # None => Reachable(panel.set) /\ panel.delay \in Nat
  /\ panel = None => events = <<>>
  /\ events \in Seq(LossEvent) /\ signed \in Seq(SUBSET Signature) /\ Len(signed) = Len(events)
  /\ \A i \in DOMAIN events : Attested(events[i], signed[i], now, panel.set)
  /\ \A d \in drawn :
       /\ d.event \in DOMAIN events /\ d.at \in Nat
       /\ events[d.event].attested_at # None
       /\ d.amount <= events[d.event].amount
       /\ d.at >= events[d.event].attested_at + panel.delay

\* Nothing declared, nothing drawn.
LEMMA LossInvInit == LedgerInit /\ LossInit => LossInv
  BY DEF LedgerInit, LossInit, LossInv

\* What every change of a guardian set stores has a reachable threshold.
LEMMA StoredReachable ==
  ASSUME LossInv, NEW members \in SUBSET Guardians, NEW threshold \in Nat,
         threshold \in 1 .. Cardinality(members), Store(members, threshold)
  PROVE  LossInv'
  <1> DEFINE new == [members |-> members, threshold |-> threshold]
  <1>1. guardians' = new /\ UNCHANGED <<now, panel, events, signed, drawn>>
    BY DEF Store
  <1>2. Reachable(new)
    BY DEF Reachable
  <1> HIDE DEF new
  <1>3. guardians' # None => Reachable(guardians')
    BY <1>1, <1>2
  <1> QED  BY <1>1, <1>3 DEF LossInv, Reachable, Attested

\* The size of a guardian set after it gained or lost a member.
LEMMA GuardianCount ==
  ASSUME NEW members \in SUBSET Guardians
  PROVE  /\ IsFiniteSet(members) /\ Cardinality(members) \in Nat
         /\ \A g \in Guardians : g \notin members =>
              Cardinality(members \cup {g}) = Cardinality(members) + 1
         /\ \A g \in members : Cardinality(members \ {g}) = Cardinality(members) - 1
  <1>1. IsFiniteSet(members)
    BY LossEventsConstants, FS_Subset
  <1> QED  BY <1>1, FS_CardinalityType, FS_AddElement, FS_RemoveElement

\* An attestation counts when the threshold of signers is there, and keeps the
\* earlier count otherwise.
LEMMA AttestKeeps ==
  ASSUME LossInv, NEW id \in DOMAIN events, NEW g \in Guardians, attest(id, g)
  PROVE  LossInv'
  <1> DEFINE e == events[id]
             sig == signed[id]
             attesters == e.attesters \cup {g}
             at == IF e.attested_at = None /\ approves(panel.set, attesters) THEN now ELSE e.attested_at
             f == [e EXCEPT !.attesters = attesters, !.attested_at = at]
             more == IF g \in e.attesters THEN sig ELSE sig \cup {[by |-> g, at |-> now]}
  <1>1. /\ now \in Nat /\ Attested(e, sig, now, panel.set) /\ panel # None /\ Reachable(panel.set)
        /\ id \in 1 .. Len(events) /\ id \in 1 .. Len(signed)
        /\ e \in LossEvent /\ sig \in SUBSET Signature
    BY DEF LossInv, attest
  <1>2. /\ g \in panel.set.members /\ UNCHANGED <<now, guardians, panel, drawn>>
        /\ events' = [events EXCEPT ![id] = f]
        /\ signed' = [signed EXCEPT ![id] = more]
    BY DEF attest
  <1>20. /\ f \in LossEvent /\ f.amount = e.amount /\ f.attesters = attesters /\ f.attested_at = at
    <2>1. e \in LossEvent /\ at \in Nat \cup {None} /\ attesters \in SUBSET Guardians
      BY <1>1 DEF LossEvent
    <2> HIDE DEF e, at, attesters
    <2> QED  BY <2>1 DEF LossEvent
  <1>3. /\ IsFiniteSet(more) /\ sig \subseteq more
        /\ \A x \in more : x.at \in Nat /\ x.at <= now /\ x.by \in panel.set.members
        /\ more \in SUBSET Signature
    <2>1. IsFiniteSet(sig \cup {[by |-> g, at |-> now]})
      BY <1>1, FS_AddElement DEF Attested
    <2>2. \A x \in sig : x.at \in Nat
      BY <1>1 DEF Signature
    <2> QED  BY <1>1, <1>2, <2>1, <2>2 DEF Attested, Signature
  <1>4. attesters = {x.by : x \in more}
    <2>0. e.attesters = {x.by : x \in sig}
      BY <1>1 DEF Attested
    <2>1. CASE g \in e.attesters
      BY <2>0, <2>1
    <2>2. CASE g \notin e.attesters
      <3>1. more = sig \cup {[by |-> g, at |-> now]}
        BY <2>2
      <3>2. [by |-> g, at |-> now].by = g
        OBVIOUS
      <3> HIDE DEF more
      <3> QED  BY <2>0, <3>1, <3>2
    <2> QED  BY <2>1, <2>2
  <1>5. Cardinality(attesters) <= Cardinality(more)
    <2> DEFINE k == [x \in more |-> x.by]
    <2>1. k \in Surjection(more, attesters)
      <3> HIDE DEF more
      <3> QED  BY <1>4 DEF Surjection
    <2> QED  BY <1>3, <2>1, FS_Surjection
  <1>6. ASSUME at # None
        PROVE  /\ at \in Nat /\ at <= now
               /\ Cardinality({x \in more : x.at <= at}) >= panel.set.threshold
    <2>1. CASE e.attested_at # None
      <3>1. /\ at = e.attested_at /\ at \in Nat /\ at <= now
            /\ Cardinality({x \in sig : x.at <= at}) >= panel.set.threshold
        BY <1>1, <2>1 DEF Attested
      <3> HIDE DEF at, more, sig
      <3>2. {x \in sig : x.at <= at} \subseteq {x \in more : x.at <= at}
        BY <1>3
      <3>3. IsFiniteSet({x \in more : x.at <= at})
        BY <1>3, FS_Subset
      <3>4. Cardinality({x \in sig : x.at <= at}) <= Cardinality({x \in more : x.at <= at})
        BY <3>2, <3>3, FS_Subset
      <3>5. /\ Cardinality({x \in sig : x.at <= at}) \in Nat
            /\ Cardinality({x \in more : x.at <= at}) \in Nat
        BY <3>2, <3>3, FS_Subset, FS_CardinalityType
      <3>6. panel.set.threshold \in Nat
        BY <1>1, GuardianCount DEF Reachable
      <3> QED  BY <3>1, <3>4, <3>5, <3>6
    <2>2. CASE e.attested_at = None
      <3>1. at = now /\ approves(panel.set, attesters)
        BY <1>6, <2>2
      <3>2. attesters \cap panel.set.members = attesters
        BY <1>1, <1>2 DEF Attested
      <3>3. Cardinality(attesters) >= panel.set.threshold
        BY <3>1, <3>2 DEF approves
      <3> HIDE DEF at, more, attesters
      <3>4. {x \in more : x.at <= at} = more
        BY <1>3, <3>1
      <3>5. Cardinality(more) \in Nat /\ panel.set.threshold \in Nat
        BY <1>1, <1>3, GuardianCount, FS_CardinalityType DEF Reachable
      <3>6. Cardinality(attesters) \in Nat
        <4>1. attesters \subseteq panel.set.members
          BY <3>2
        <4>2. IsFiniteSet(panel.set.members)
          BY <1>1, GuardianCount DEF Reachable
        <4> QED  BY <4>1, <4>2, FS_Subset, FS_CardinalityType
      <3>7. Cardinality(more) >= panel.set.threshold
        BY <1>5, <3>3, <3>5, <3>6
      <3>8. at \in Nat /\ at <= now
        BY <1>1, <3>1
      <3> QED  BY <3>4, <3>7, <3>8
    <2> QED  BY <2>1, <2>2
  <1>7. Attested(f, more, now, panel.set)
    <2> HIDE DEF f, at, more
    <2> QED  BY <1>1, <1>3, <1>4, <1>6, <1>20 DEF Attested
  <1>8. /\ \A i \in 1 .. Len(events) : i # id => events'[i] = events[i] /\ signed'[i] = signed[i]
        /\ events'[id] = f /\ signed'[id] = more /\ f.amount = e.amount
        /\ e.attested_at # None => at = e.attested_at
        /\ Len(events') = Len(events) /\ Len(signed') = Len(events)
        /\ events' \in Seq(LossEvent) /\ signed' \in Seq(SUBSET Signature)
    <2>1. events \in Seq(LossEvent) /\ signed \in Seq(SUBSET Signature) /\ Len(signed) = Len(events)
      BY DEF LossInv
    <2>2. f \in LossEvent
      BY <1>20
    <2>3. more \in SUBSET Signature
      BY <1>3
    <2>4. (e.attested_at # None => at = e.attested_at) /\ f.amount = e.amount
      BY <1>20
    <2> HIDE DEF f, more, at
    <2> QED  BY <1>1, <1>2, <2>1, <2>2, <2>3, <2>4, ExceptSeq
  <1> HIDE DEF f, more, at
  <1>9. \A i \in DOMAIN events' : Attested(events'[i], signed'[i], now', panel'.set)
    <2>1. DOMAIN events' = 1 .. Len(events) /\ DOMAIN events = 1 .. Len(events)
      BY <1>8 DEF LossInv
    <2> QED  BY <1>2, <1>7, <1>8, <2>1 DEF LossInv
  <1>10. ASSUME NEW d \in drawn'
         PROVE  /\ d.event \in DOMAIN events' /\ d.at \in Nat
                /\ events'[d.event].attested_at # None
                /\ d.amount <= events'[d.event].amount
                /\ d.at >= events'[d.event].attested_at + panel'.delay
    <2>1. /\ d.event \in 1 .. Len(events) /\ d.at \in Nat
          /\ events[d.event].attested_at # None
          /\ d.amount <= events[d.event].amount
          /\ d.at >= events[d.event].attested_at + panel.delay
      BY <1>2 DEF LossInv
    <2>2. /\ events'[d.event].amount = events[d.event].amount
          /\ events'[d.event].attested_at = events[d.event].attested_at
      <3>1. f.attested_at = at
        BY <1>20
      <3> QED  BY <1>8, <2>1, <3>1
    <2>3. DOMAIN events' = 1 .. Len(events)
      BY <1>8
    <2> QED  BY <1>2, <2>1, <2>2, <2>3
  <1> QED  BY <1>2, <1>8, <1>9, <1>10 DEF LossInv

\* Changes of the guardian set, declarations, attestations and drawdowns.
LEMMA LossInvStep == LossInv /\ [LossNext]_<<now, lossVars>> => LossInv'
  <1> SUFFICES ASSUME LossInv, [LossNext]_<<now, lossVars>>  PROVE LossInv'
    OBVIOUS
  <1>1. ASSUME NEW members \in SUBSET Guardians, NEW n \in 0 .. Cardinality(Guardians),
               GuardianSetNew(members, n)
        PROVE  LossInv'
    <2>1. Cardinality(Guardians) \in Nat /\ Cardinality(members) \in Nat
      BY GuardianCount
    <2>2. n \in Nat /\ n \in 1 .. Cardinality(members) /\ Store(members, n)
      BY <1>1, <2>1 DEF GuardianSetNew, validate
    <2> QED  BY <2>2, StoredReachable
  <1>2. ASSUME NEW g \in Guardians, guardian_add(g)  PROVE LossInv'
    <2>1. Reachable(guardians) /\ g \notin guardians.members
      BY <1>2 DEF guardian_add, LossInv
    <2>2. /\ Cardinality(guardians.members) \in Nat
          /\ Cardinality(guardians.members \cup {g}) = Cardinality(guardians.members) + 1
      BY <2>1, GuardianCount DEF Reachable
    <2>3. /\ guardians.members \cup {g} \in SUBSET Guardians
          /\ guardians.threshold \in Nat
          /\ guardians.threshold \in 1 .. Cardinality(guardians.members \cup {g})
      BY <2>1, <2>2 DEF Reachable
    <2>4. Store(guardians.members \cup {g}, guardians.threshold)
      BY <1>2 DEF guardian_add
    <2> QED  BY <2>3, <2>4, StoredReachable
  <1>3. ASSUME NEW g \in Guardians, guardian_remove(g)  PROVE LossInv'
    <2>1. Reachable(guardians) /\ g \in guardians.members
          /\ validate(guardians.members \ {g}, guardians.threshold)
          /\ Store(guardians.members \ {g}, guardians.threshold)
      BY <1>3 DEF guardian_remove, LossInv
    <2>2. /\ guardians.members \ {g} \in SUBSET Guardians
          /\ guardians.threshold \in Nat
      BY <2>1, GuardianCount DEF Reachable
    <2>3. Cardinality(guardians.members \ {g}) \in Nat
      BY <2>2, GuardianCount
    <2>4. guardians.threshold \in 1 .. Cardinality(guardians.members \ {g})
      BY <2>1, <2>2, <2>3 DEF validate
    <2> QED  BY <2>1, <2>2, <2>4, StoredReachable
  <1>4. ASSUME NEW old \in Guardians, NEW new \in Guardians, rotate(old, new)  PROVE LossInv'
    <2> DEFINE fewer == guardians.members \ {old}
    <2>1. Reachable(guardians) /\ old \in guardians.members /\ new \notin guardians.members
          /\ Store(fewer \cup {new}, guardians.threshold)
      BY <1>4 DEF rotate, LossInv
    <2>2. /\ Cardinality(guardians.members) \in Nat
          /\ Cardinality(fewer) = Cardinality(guardians.members) - 1
      BY <2>1, GuardianCount DEF Reachable
    <2>3. fewer \in SUBSET Guardians /\ new \notin fewer
      BY <2>1 DEF Reachable
    <2> HIDE DEF fewer
    <2>4. Cardinality(fewer \cup {new}) = Cardinality(fewer) + 1
      BY <2>3, GuardianCount
    <2>5. /\ fewer \cup {new} \in SUBSET Guardians /\ guardians.threshold \in Nat
          /\ guardians.threshold \in 1 .. Cardinality(fewer \cup {new})
      BY <2>1, <2>2, <2>3, <2>4 DEF Reachable
    <2> QED  BY <2>1, <2>5, StoredReachable
  <1>5. ASSUME NEW n \in 0 .. Cardinality(Guardians) + 1, set_threshold(n)  PROVE LossInv'
    <2>1. Reachable(guardians) /\ validate(guardians.members, n) /\ Store(guardians.members, n)
      BY <1>5 DEF set_threshold, LossInv
    <2>2. /\ guardians.members \in SUBSET Guardians /\ Cardinality(guardians.members) \in Nat
          /\ Cardinality(Guardians) \in Nat
      BY <2>1, GuardianCount DEF Reachable
    <2>3. n \in Nat /\ n \in 1 .. Cardinality(guardians.members)
      BY <2>1, <2>2 DEF validate
    <2> QED  BY <2>1, <2>2, <2>3, StoredReachable
  <1>6. ASSUME NEW delay \in GuardianDelays, LossEventsNew(delay)  PROVE LossInv'
    <2>1. /\ panel' = [set |-> guardians, delay |-> delay] /\ delay \in Nat /\ Reachable(guardians)
          /\ events = <<>> /\ UNCHANGED <<now, guardians, events, signed, drawn>>
      BY <1>6, LossEventsConstants DEF LossEventsNew, LossInv
    <2>2. panel'.set = guardians /\ panel'.delay = delay
      BY <2>1
    <2>3. drawn = {}
      BY <2>1 DEF LossInv
    <2> QED  BY <2>1, <2>2, <2>3 DEF LossInv
  <1>7. ASSUME NEW amount \in LossAmounts, declare(amount)  PROVE LossInv'
    <2> DEFINE n == Len(events)
               e == [amount |-> amount, attesters |-> {}, attested_at |-> None]
    <2>1. /\ events' = Append(events, e) /\ signed' = Append(signed, {})
          /\ panel # None /\ UNCHANGED <<now, guardians, panel, drawn>>
      BY <1>7 DEF declare
    <2>2. /\ n \in Nat /\ DOMAIN events = 1 .. n /\ Len(signed) = n
          /\ events \in Seq(LossEvent) /\ signed \in Seq(SUBSET Signature)
      BY DEF LossInv
    <2>3. Attested(e, {}, now, panel.set) /\ e \in LossEvent
      BY LossEventsConstants, FS_EmptySet DEF Attested, LossEvent
    <2> HIDE DEF e
    <2>4. /\ DOMAIN events' = 1 .. n + 1 /\ Len(events') = n + 1 /\ events'[n + 1] = e
          /\ \A i \in 1 .. n : events'[i] = events[i]
          /\ events' \in Seq(LossEvent) /\ signed' \in Seq(SUBSET Signature)
          /\ Len(signed') = n + 1 /\ signed'[n + 1] = {}
          /\ \A i \in 1 .. n : signed'[i] = signed[i]
      <3>1. {} \in SUBSET Signature
        OBVIOUS
      <3> QED  BY <2>1, <2>2, <2>3, <3>1
    <2>5. \A i \in DOMAIN events' : Attested(events'[i], signed'[i], now', panel'.set)
      <3>1. \A i \in 1 .. n : Attested(events[i], signed[i], now, panel.set)
        BY DEF LossInv
      <3> HIDE DEF n
      <3>2. \A i \in 1 .. n + 1 : i \in 1 .. n \/ i = n + 1
        BY <2>2
      <3> QED  BY <2>1, <2>3, <2>4, <3>1, <3>2
    <2>6. \A d \in drawn : d.event \in 1 .. n
      BY <2>2 DEF LossInv
    <2>7. 1 .. n \subseteq 1 .. n + 1
      BY <2>2
    <2>8. \A d \in drawn' :
             /\ d.event \in DOMAIN events' /\ d.at \in Nat
             /\ events'[d.event].attested_at # None
             /\ d.amount <= events'[d.event].amount
             /\ d.at >= events'[d.event].attested_at + panel'.delay
      BY <2>1, <2>4, <2>6, <2>7 DEF LossInv
    <2>9. panel' # None /\ (panel' # None => Reachable(panel'.set) /\ panel'.delay \in Nat)
      BY <2>1 DEF LossInv
    <2> QED  BY <2>1, <2>4, <2>5, <2>8, <2>9 DEF LossInv
  <1>8. ASSUME NEW id \in DOMAIN events, NEW g \in Guardians, attest(id, g)  PROVE LossInv'
    BY <1>8, AttestKeeps
  <1>9. ASSUME NEW id \in DOMAIN events, NEW amount \in LossAmounts, authorize_drawdown(id, amount)
        PROVE  LossInv'
    <2>1. /\ drawn' = drawn \cup {[event |-> id, at |-> now, amount |-> amount]}
          /\ UNCHANGED <<now, guardians, panel, events, signed>>
          /\ events[id].attested_at # None /\ now >= events[id].attested_at + panel.delay
          /\ amount <= events[id].amount
      BY <1>9 DEF authorize_drawdown
    <2> QED  BY <2>1 DEF LossInv
  <1>10. CASE LossTick
    <2>1. now \in Nat /\ now' = now + 1 /\ UNCHANGED lossVars
      BY <1>10 DEF LossTick, LedgerTick, LossInv
    <2>2. ASSUME NEW i \in DOMAIN events
          PROVE  Attested(events[i], signed[i], now', panel.set)
      <3>1. Attested(events[i], signed[i], now, panel.set)
        BY DEF LossInv
      <3>2. signed[i] \in SUBSET Signature /\ events[i] \in LossEvent
        BY DEF LossInv
      <3>3. \A x \in signed[i] : x.at \in Nat /\ x.at <= now'
        BY <2>1, <3>1, <3>2 DEF Attested, Signature
      <3> QED  BY <2>1, <3>1, <3>3 DEF Attested
    <2> QED  BY <2>1, <2>2 DEF LossInv, lossVars
  <1>11. CASE UNCHANGED <<now, lossVars>>
    BY <1>11 DEF lossVars, LossInv
  <1> QED  BY <1>1, <1>2, <1>3, <1>4, <1>5, <1>6, <1>7, <1>8, <1>9, <1>10, <1>11 DEF LossNext

\* A drawdown came a full delay after the threshold of signatures was there.
LEMMA LossInvAttests == LossInv => DrawdownsAttested
  <1> SUFFICES ASSUME LossInv  PROVE DrawdownsAttested
    OBVIOUS
  <1>1. ASSUME NEW d \in drawn
        PROVE  /\ d.amount <= events[d.event].amount
               /\ Cardinality({x \in signed[d.event] : x.at + panel.delay <= d.at
                                                        /\ x.by \in panel.set.members})
                    >= panel.set.threshold
    <2> DEFINE e == events[d.event]
               sig == signed[d.event]
               early == {x \in sig : x.at <= e.attested_at}
               counted == {x \in sig : x.at + panel.delay <= d.at /\ x.by \in panel.set.members}
    <2>1. /\ d.event \in DOMAIN events /\ d.at \in Nat /\ e.attested_at # None
          /\ d.amount <= e.amount /\ d.at >= e.attested_at + panel.delay
          /\ Attested(e, sig, now, panel.set)
      BY DEF LossInv
    <2>2. Reachable(panel.set) /\ panel.delay \in Nat
      BY <2>1 DEF LossInv
    <2>3. e.attested_at \in Nat /\ Cardinality(early) >= panel.set.threshold
      BY <2>1 DEF Attested
    <2>4. early \subseteq counted /\ IsFiniteSet(sig) /\ counted \subseteq sig
      <3>1. sig \in SUBSET Signature
        BY <2>1 DEF LossInv
      <3>2. \A x \in sig : x.at \in Nat
        BY <3>1 DEF Signature
      <3> QED  BY <2>1, <2>2, <2>3, <3>2 DEF Attested
    <2>5. Cardinality(early) <= Cardinality(counted) /\ Cardinality(early) \in Nat
          /\ Cardinality(counted) \in Nat /\ panel.set.threshold \in Nat
      <3> HIDE DEF early, counted, sig
      <3>1. IsFiniteSet(counted)
        BY <2>4, FS_Subset
      <3>2. panel.set.threshold \in Nat
        BY <2>2, GuardianCount DEF Reachable
      <3> QED  BY <2>4, <3>1, <3>2, FS_Subset, FS_CardinalityType
    <2> HIDE DEF early, counted
    <2>6. Cardinality(counted) >= panel.set.threshold
      BY <2>3, <2>5
    <2> QED  BY <2>1, <2>6 DEF counted
  <1>2. ASSUME NEW set \in ({guardians} \cup (IF panel = None THEN {} ELSE {panel.set})) \ {None}
        PROVE  set.threshold \in 1 .. Cardinality(set.members)
    BY DEF LossInv, Reachable
  <1> QED  BY <1>1, <1>2 DEF DrawdownsAttested
-----------------------------------------------------------------------------
(* The withdrawal queue. *)

QueueRequest == [id : Nat, staker : QueueStakers, shares : Nat \ {0}]
AskedRequest == [staker : QueueStakers, shares : Nat, cancelled : Nat]

\* What request id still waits for in a queue, and what waits in all.
WaitsFor(queue, id) ==
  [k \in DOMAIN queue |-> IF queue[k].id = id THEN queue[k].shares ELSE 0]
WaitingIn(queue, id) == SumOver(WaitsFor(queue, id), DOMAIN queue)

\* The queue is in the order of the ids, each of a request that was not cancelled.
QueueInv ==
  /\ requests \in Seq(QueueRequest) /\ asked \in Seq(AskedRequest) /\ filled \in Seq(Nat)
  /\ Len(filled) = Len(asked) /\ Len(requests) <= Len(asked) /\ Len(asked) <= MaxQueued
  /\ \A k \in DOMAIN requests :
       /\ requests[k].id \in 1 .. Len(asked) /\ asked[requests[k].id].cancelled = 0
       /\ \A j \in 1 .. k - 1 : requests[j].id < requests[k].id
  /\ \A id \in 1 .. Len(asked) :
       filled[id] + WaitingIn(requests, id) + asked[id].cancelled = asked[id].shares
  /\ round.paid <= round.available
  /\ round.waiting > 0 => round.paid + MaxQueued > Min({round.available, round.waiting})

\* The smaller of two integers.
LEMMA MinOfIntegers ==
  ASSUME NEW a \in Int, NEW b \in Int
  PROVE  Min({a, b}) = IF a <= b THEN a ELSE b
  <1>1. \E x \in {a, b} : \A y \in {a, b} : x <= y
    OBVIOUS
  <1>2. Min({a, b}) \in {a, b} /\ \A y \in {a, b} : Min({a, b}) <= y
    BY <1>1 DEF Min
  <1> QED  BY <1>2

\* The smaller of two naturals.
LEMMA MinOfTwo ==
  ASSUME NEW a \in Nat, NEW b \in Nat
  PROVE  Min({a, b}) = IF a <= b THEN a ELSE b
  BY MinOfIntegers

\* A sequence without its k-th entry.
LEMMA RemovedAt ==
  ASSUME NEW S, NEW seq \in Seq(S), NEW k \in 1 .. Len(seq)
  PROVE  /\ RemoveAt(seq, k) \in Seq(S) /\ Len(RemoveAt(seq, k)) = Len(seq) - 1
         /\ \A i \in 1 .. Len(seq) - 1 : RemoveAt(seq, k)[i] = seq[IF i < k THEN i ELSE i + 1]
  <1> DEFINE n == Len(seq)
             front == SubSeq(seq, 1, k - 1)
             back == SubSeq(seq, k + 1, n)
  <1>1. n \in Nat /\ k \in Nat
    OBVIOUS
  <1>2. /\ front \in Seq(S) /\ Len(front) = k - 1 /\ \A i \in 1 .. k - 1 : front[i] = seq[i]
    OBVIOUS
  <1>3. /\ back \in Seq(S) /\ Len(back) = n - k /\ \A i \in 1 .. n - k : back[i] = seq[k + i]
    BY SubSeqProperties
  <1> HIDE DEF front, back
  <1>4. /\ front \o back \in Seq(S) /\ Len(front \o back) = Len(front) + Len(back)
        /\ \A i \in 1 .. Len(front) + Len(back) :
             (front \o back)[i] = IF i <= Len(front) THEN front[i] ELSE back[i - Len(front)]
    BY <1>2, <1>3, ConcatProperties
  <1>5. Len(front) + Len(back) = n - 1
    BY <1>1, <1>2, <1>3
  <1>6. ASSUME NEW i \in 1 .. n - 1
        PROVE  (front \o back)[i] = seq[IF i < k THEN i ELSE i + 1]
    <2>1. CASE i < k
      BY <1>1, <1>2, <1>4, <1>5, <2>1
    <2>2. CASE i >= k
      <3>1. (front \o back)[i] = back[i - (k - 1)] /\ i - (k - 1) \in 1 .. n - k
        BY <1>1, <1>2, <1>4, <1>5, <2>2
      <3>2. back[i - (k - 1)] = seq[k + (i - (k - 1))] /\ k + (i - (k - 1)) = i + 1
        BY <1>1, <1>3, <3>1
      <3> QED  BY <1>1, <2>2, <3>1, <3>2
    <2>3. i < k \/ i >= k
      BY <1>1
    <2> QED  BY <2>1, <2>2, <2>3, Zenon
  <1> QED  BY <1>4, <1>5, <1>6 DEF RemoveAt, front, back

\* What waits are amounts.
LEMMA WaitingNat ==
  ASSUME NEW queue \in Seq(QueueRequest), NEW id
  PROVE  /\ IsFiniteSet(DOMAIN queue) /\ DOMAIN queue = 1 .. Len(queue) /\ Len(queue) \in Nat
         /\ \A k \in DOMAIN queue : /\ queue[k].id \in Nat /\ queue[k].shares \in Nat \ {0}
                                    /\ WaitsFor(queue, id)[k] \in Nat
         /\ WaitingIn(queue, id) \in Nat
  <1>1. DOMAIN queue = 1 .. Len(queue) /\ Len(queue) \in Nat
    OBVIOUS
  <1>2. IsFiniteSet(DOMAIN queue)
    BY <1>1, FS_Interval
  <1>3. \A k \in DOMAIN queue : /\ queue[k].id \in Nat /\ queue[k].shares \in Nat \ {0}
                                /\ WaitsFor(queue, id)[k] \in Nat
    <2>1. ASSUME NEW k \in DOMAIN queue  PROVE queue[k] \in QueueRequest
      OBVIOUS
    <2> QED  BY <2>1 DEF QueueRequest, WaitsFor
  <1>4. WaitingIn(queue, id) \in Nat
    BY <1>2, <1>3, SumNat DEF WaitingIn
  <1> QED  BY <1>1, <1>2, <1>3, <1>4

\* A request joins the queue.
LEMMA WaitingAppended ==
  ASSUME NEW queue \in Seq(QueueRequest), NEW r \in QueueRequest, NEW id
  PROVE  WaitingIn(Append(queue, r), id) = WaitingIn(queue, id) + (IF r.id = id THEN r.shares ELSE 0)
  <1> DEFINE n == Len(queue)
             longer == Append(queue, r)
             f == WaitsFor(queue, id)
             g == WaitsFor(longer, id)
  <1>1. /\ n \in Nat /\ DOMAIN queue = 1 .. n /\ DOMAIN longer = 1 .. n + 1
        /\ longer \in Seq(QueueRequest) /\ longer[n + 1] = r
        /\ \A k \in 1 .. n : longer[k] = queue[k]
    OBVIOUS
  <1>2. /\ \A k \in 1 .. n + 1 : g[k] \in Int
        /\ \A k \in 1 .. n : g[k] = f[k]
        /\ g[n + 1] = IF r.id = id THEN r.shares ELSE 0
    <2> HIDE DEF longer, n
    <2>1. \A k \in 1 .. n + 1 : g[k] \in Int
      BY <1>1, WaitingNat
    <2>2. /\ \A k \in 1 .. n : k \in 1 .. n + 1
          /\ n + 1 \in 1 .. n + 1
      BY <1>1
    <2> QED  BY <1>1, <2>1, <2>2 DEF WaitsFor
  <1> HIDE DEF n, longer, f, g
  <1>3. SumOver(g, 1 .. n + 1) = SumOver(f, 1 .. n) + g[n + 1]
    BY <1>1, <1>2, SumNext
  <1> QED  BY <1>1, <1>2, <1>3 DEF WaitingIn, f, g, longer

\* A request leaves the queue.
LEMMA WaitingRemoved ==
  ASSUME NEW queue \in Seq(QueueRequest), NEW k \in DOMAIN queue, NEW id
  PROVE  WaitingIn(queue, id)
           = WaitingIn(RemoveAt(queue, k), id) + (IF queue[k].id = id THEN queue[k].shares ELSE 0)
  <1> DEFINE n == Len(queue)
             shorter == RemoveAt(queue, k)
             f == WaitsFor(queue, id)
             g == WaitsFor(shorter, id)
             T == 1 .. n - 1
             h == [i \in T |-> IF i < k THEN i ELSE i + 1]
  <1>1. /\ n \in Nat /\ DOMAIN queue = 1 .. n /\ k \in 1 .. n
        /\ shorter \in Seq(QueueRequest) /\ Len(shorter) = n - 1 /\ DOMAIN shorter = T
        /\ \A i \in T : shorter[i] = queue[h[i]]
    <2>1. n \in Nat /\ DOMAIN queue = 1 .. n /\ k \in 1 .. n
      OBVIOUS
    <2>2. /\ shorter \in Seq(QueueRequest) /\ Len(shorter) = n - 1
          /\ \A i \in 1 .. n - 1 : shorter[i] = queue[IF i < k THEN i ELSE i + 1]
      BY <2>1, RemovedAt
    <2> HIDE DEF shorter
    <2>3. DOMAIN shorter = T
      BY <2>1, <2>2
    <2> QED  BY <2>1, <2>2, <2>3
  <1>2. {h[i] : i \in T} = (1 .. n) \ {k}
    <2>1. ASSUME NEW j \in (1 .. n) \ {k}  PROVE j \in {h[i] : i \in T}
      <3>1. CASE j < k
        BY <1>1, <3>1
      <3>2. CASE j > k
        <4>1. j - 1 \in T /\ h[j - 1] = j
          BY <1>1, <3>2
        <4> QED  BY <4>1
      <3> QED  BY <1>1, <3>1, <3>2
    <2>2. \A i \in T : h[i] \in (1 .. n) \ {k}
      BY <1>1
    <2> QED  BY <2>1, <2>2
  <1>3. \A i, j \in T : h[i] = h[j] => i = j
    BY <1>1
  <1>4. \A i \in T : h[i] \in 1 .. n
    BY <1>1
  <1>5. IsFiniteSet(T) /\ IsFiniteSet(1 .. n)
    <2>1. T = 1 .. (n - 1) /\ n - 1 \in Int /\ n \in Int
      BY <1>1
    <2>2. n = 0 \/ n - 1 \in Nat
      BY <1>1
    <2> QED  BY <1>1, <2>1, <2>2, FS_Interval
  <1> HIDE DEF n, T, h, shorter
  <1>6. \A i \in T : g[i] \in Int /\ g[i] = f[h[i]]
    <2>1. \A i \in T : g[i] \in Int
      BY <1>1, WaitingNat
    <2> QED  BY <1>1, <1>4, <2>1 DEF WaitsFor
  <1>7. \A i \in 1 .. n : f[i] \in Int
    BY <1>1, WaitingNat
  <1>8. f[k] = IF queue[k].id = id THEN queue[k].shares ELSE 0
    BY DEF WaitsFor
  <1> HIDE DEF f, g
  <1>9. SumOver(g, T) = SumOver(f, (1 .. n) \ {k})
    BY <1>2, <1>3, <1>5, <1>6, SumReindex
  <1>10. SumOver(f, 1 .. n) = f[k] + SumOver(f, (1 .. n) \ {k})
    BY <1>1, <1>5, <1>7, SumRemove
  <1>11. SumOver(g, T) \in Int /\ f[k] \in Int
    BY <1>1, <1>5, <1>6, <1>7, SumInt
  <1> QED  BY <1>1, <1>8, <1>9, <1>10, <1>11 DEF WaitingIn, f, g, shorter

\* An empty queue is exact.
LEMMA QueueInvInit == QueueInit => QueueInv
  <1> SUFFICES ASSUME QueueInit  PROVE QueueInv
    OBVIOUS
  <1>1. /\ requests = <<>> /\ asked = <<>> /\ filled = <<>>
        /\ round.available = 0 /\ round.paid = 0 /\ round.waiting = 0
    BY DEF QueueInit
  <1> QED  BY <1>1, WithdrawalQueueConstants DEF QueueInv

\* A new request, and one cancelled by who made it.
LEMMA RequestKeeps ==
  ASSUME QueueInv, NEW staker \in QueueStakers, NEW shares \in QueueShares, request(staker, shares)
  PROVE  QueueInv'
  <1> DEFINE n == Len(asked)
             r == [id |-> n + 1, staker |-> staker, shares |-> shares]
             a == [staker |-> staker, shares |-> shares, cancelled |-> 0]
             m == Len(requests)
  <1>1. /\ n + 1 <= MaxQueued /\ requests' = Append(requests, r) /\ asked' = Append(asked, a)
        /\ filled' = Append(filled, 0) /\ UNCHANGED round
    BY DEF request
  <1>2. /\ n \in Nat /\ m \in Nat /\ m <= n /\ Len(filled) = n /\ shares \in Nat \ {0}
        /\ requests \in Seq(QueueRequest) /\ asked \in Seq(AskedRequest) /\ filled \in Seq(Nat)
    BY WithdrawalQueueConstants DEF QueueInv
  <1>3. r \in QueueRequest /\ a \in AskedRequest /\ r.id = n + 1 /\ r.shares = shares
        /\ a.shares = shares /\ a.cancelled = 0
    BY <1>2 DEF QueueRequest, AskedRequest
  <1> HIDE DEF r, a
  <1>4. /\ requests' \in Seq(QueueRequest) /\ Len(requests') = m + 1
        /\ DOMAIN requests' = 1 .. m + 1 /\ requests'[m + 1] = r
        /\ \A k \in 1 .. m : requests'[k] = requests[k]
        /\ asked' \in Seq(AskedRequest) /\ Len(asked') = n + 1 /\ asked'[n + 1] = a
        /\ \A k \in 1 .. n : asked'[k] = asked[k]
        /\ filled' \in Seq(Nat) /\ Len(filled') = n + 1 /\ filled'[n + 1] = 0
        /\ \A k \in 1 .. n : filled'[k] = filled[k]
    BY <1>1, <1>2, <1>3
  <1>5. \A k \in 1 .. m : /\ requests[k].id \in 1 .. n /\ asked[requests[k].id].cancelled = 0
                          /\ \A j \in 1 .. k - 1 : requests[j].id < requests[k].id
    BY <1>2 DEF QueueInv
  <1>6. ASSUME NEW k \in DOMAIN requests'
        PROVE  /\ requests'[k].id \in 1 .. Len(asked') /\ asked'[requests'[k].id].cancelled = 0
               /\ \A j \in 1 .. k - 1 : requests'[j].id < requests'[k].id
    <2> HIDE DEF n, m
    <2>1. CASE k \in 1 .. m
      <3>1. /\ requests'[k] = requests[k] /\ requests[k].id \in 1 .. n
            /\ \A j \in 1 .. k - 1 : requests'[j] = requests[j]
        <4>1. requests'[k] = requests[k]
          BY <1>4, <2>1
        <4>2. requests[k].id \in 1 .. n
          BY <1>5, <2>1
        <4>3. \A j \in 1 .. k - 1 : j \in 1 .. m
          BY <1>2, <2>1
        <4>4. \A j \in 1 .. k - 1 : requests'[j] = requests[j]
          BY <1>4, <4>3
        <4> QED  BY <4>1, <4>2, <4>4
      <3>2. /\ asked[requests[k].id].cancelled = 0
            /\ \A j \in 1 .. k - 1 : requests[j].id < requests[k].id
        BY <1>5, <2>1
      <3>3. asked'[requests[k].id] = asked[requests[k].id] /\ requests[k].id \in 1 .. n + 1
        <4>1. requests[k].id \in 1 .. n
          BY <3>1
        <4>2. \A i \in 1 .. n : i \in 1 .. n + 1
          BY <1>2
        <4> QED  BY <1>4, <4>1, <4>2, Zenon
      <3> QED  BY <1>4, <3>1, <3>2, <3>3
    <2>2. CASE k = m + 1
      <3>1. \A j \in 1 .. m : requests'[j].id \in 1 .. n
        BY <1>4, <1>5
      <3>2. \A j \in 1 .. k - 1 : requests'[j].id < n + 1
        BY <1>2, <2>2, <3>1
      <3> QED  BY <1>2, <1>3, <1>4, <2>2, <3>2
    <2> QED  BY <1>2, <1>4, <2>1, <2>2
  <1>7. ASSUME NEW id \in 1 .. Len(asked')
        PROVE  filled'[id] + WaitingIn(requests', id) + asked'[id].cancelled = asked'[id].shares
    <2>1. WaitingIn(requests', id) = WaitingIn(requests, id) + (IF r.id = id THEN r.shares ELSE 0)
      BY <1>1, <1>2, <1>3, WaitingAppended
    <2>2. WaitingIn(requests, id) \in Nat
      BY <1>2, WaitingNat
    <2>3. CASE id = n + 1
      <3>1. \A k \in DOMAIN requests : WaitsFor(requests, id)[k] = 0
        <4>1. DOMAIN requests = 1 .. m
          BY <1>2
        <4>2. \A k \in 1 .. m : requests[k].id # id
          BY <1>2, <1>5, <2>3
        <4> QED  BY <4>1, <4>2 DEF WaitsFor
      <3>2. WaitingIn(requests, id) = 0
        BY <1>2, <3>1, WaitingNat, SumZero DEF WaitingIn
      <3>3. WaitingIn(requests', id) = shares
        BY <1>2, <1>3, <2>1, <2>3, <3>2
      <3> QED  BY <1>2, <1>3, <1>4, <2>3, <3>3
    <2>4. CASE id \in 1 .. n
      <3>1. filled[id] + WaitingIn(requests, id) + asked[id].cancelled = asked[id].shares
        BY <2>4 DEF QueueInv
      <3>2. WaitingIn(requests', id) = WaitingIn(requests, id)
        BY <1>2, <1>3, <2>1, <2>2, <2>4
      <3> QED  BY <1>4, <2>4, <3>1, <3>2
    <2> QED  BY <1>2, <1>4, <2>3, <2>4
  <1>8. /\ Len(filled') = Len(asked') /\ Len(requests') <= Len(asked') /\ Len(asked') <= MaxQueued
    BY <1>1, <1>2, <1>4
  <1>9. /\ round'.paid <= round'.available
        /\ round'.waiting > 0 => round'.paid + MaxQueued > Min({round'.available, round'.waiting})
    BY <1>1 DEF QueueInv
  <1> QED  BY <1>4, <1>6, <1>7, <1>8, <1>9 DEF QueueInv

\* Where entry i of a list of m entries stood before entry k was taken out.
LEMMA PositionBefore ==
  ASSUME NEW m \in Nat, NEW k \in 1 .. m, NEW i \in 1 .. m - 1
  PROVE  LET to(j) == IF j < k THEN j ELSE j + 1
         IN  /\ to(i) \in 1 .. m /\ to(i) # k
             /\ \A j \in 1 .. i - 1 : j \in 1 .. m - 1 /\ to(j) \in 1 .. m /\ to(j) < to(i)
  OBVIOUS

\* What is cancelled of a request stops waiting.
LEMMA CancelledStopsWaiting ==
  ASSUME NEW f \in Nat, NEW w \in Nat, NEW u \in Nat, NEW c \in Nat, NEW s,
         f + w + 0 = s, w = u + c
  PROVE  f + u + c = s
  OBVIOUS

\* What is left of a cancelled request is written down as cancelled.
LEMMA CancelKeeps ==
  ASSUME QueueInv, NEW staker \in QueueStakers, NEW k \in DOMAIN requests, cancel(staker, k)
  PROVE  QueueInv'
  <1> DEFINE n == Len(asked)
             m == Len(requests)
             c == requests[k].id
             a == [asked[c] EXCEPT !.cancelled = requests[k].shares]
             to(i) == IF i < k THEN i ELSE i + 1
  <1>1. /\ requests' = RemoveAt(requests, k) /\ asked' = [asked EXCEPT ![c] = a]
        /\ UNCHANGED <<filled, round>>
    BY DEF cancel
  <1>2. /\ n \in Nat /\ m \in Nat /\ m <= n /\ Len(filled) = n /\ n <= MaxQueued
        /\ requests \in Seq(QueueRequest) /\ asked \in Seq(AskedRequest) /\ filled \in Seq(Nat)
        /\ k \in 1 .. m /\ DOMAIN requests = 1 .. m
    BY DEF QueueInv
  <1>3. \A i \in 1 .. m : /\ requests[i].id \in 1 .. n /\ asked[requests[i].id].cancelled = 0
                          /\ \A j \in 1 .. i - 1 : requests[j].id < requests[i].id
    BY <1>2 DEF QueueInv
  <1>4. /\ c \in 1 .. n /\ asked[c] \in AskedRequest /\ requests[k].shares \in Nat
        /\ asked[c].cancelled = 0
    <2>1. requests[k] \in QueueRequest /\ c \in 1 .. n
      BY <1>2, <1>3
    <2> QED  BY <1>2, <1>3, <2>1 DEF QueueRequest
  <1>5. a \in AskedRequest /\ a.shares = asked[c].shares /\ a.cancelled = requests[k].shares
    BY <1>4 DEF AskedRequest
  <1> HIDE DEF a
  <1>6. /\ asked' \in Seq(AskedRequest) /\ Len(asked') = n /\ asked'[c] = a
        /\ \A i \in 1 .. n : i # c => asked'[i] = asked[i]
    BY <1>1, <1>2, <1>4, <1>5, ExceptSeq
  <1>7. /\ requests' \in Seq(QueueRequest) /\ Len(requests') = m - 1
        /\ DOMAIN requests' = 1 .. m - 1
        /\ \A i \in 1 .. m - 1 : requests'[i] = requests[to(i)]
    <2>1. /\ requests' \in Seq(QueueRequest) /\ Len(requests') = m - 1
          /\ \A i \in 1 .. m - 1 : requests'[i] = requests[IF i < k THEN i ELSE i + 1]
      BY <1>1, <1>2, RemovedAt
    <2>2. DOMAIN requests' = 1 .. m - 1
      BY <2>1
    <2> QED  BY <2>1, <2>2, Zenon
  <1>8. \A i, j \in 1 .. m : i < j => requests[i].id < requests[j].id
    <2> SUFFICES ASSUME NEW i \in 1 .. m, NEW j \in 1 .. m, i < j
                 PROVE  requests[i].id < requests[j].id
      OBVIOUS
    <2>1. i \in 1 .. j - 1
      BY <1>2
    <2> QED  BY <1>3, <2>1
  <1>9. ASSUME NEW i \in DOMAIN requests'
        PROVE  /\ requests'[i].id \in 1 .. Len(asked') /\ asked'[requests'[i].id].cancelled = 0
               /\ \A j \in 1 .. i - 1 : requests'[j].id < requests'[i].id
    <2> HIDE DEF n, m
    <2>1. /\ i \in 1 .. m - 1 /\ to(i) \in 1 .. m /\ to(i) # k
          /\ \A j \in 1 .. i - 1 : j \in 1 .. m - 1 /\ to(j) \in 1 .. m /\ to(j) < to(i)
      <3>1. i \in 1 .. m - 1
        BY <1>7, Zenon
      <3>2. m \in Nat /\ k \in 1 .. m
        BY <1>2
      <3> QED  BY <3>1, <3>2, PositionBefore, Zenon
    <2>2. requests[to(i)].id # c /\ requests[to(i)].id \in 1 .. n
      <3>1. \A x, y \in 1 .. m : x # y => requests[x].id # requests[y].id
        <4> SUFFICES ASSUME NEW x \in 1 .. m, NEW y \in 1 .. m, x < y
                     PROVE  requests[x].id # requests[y].id
          BY <1>2
        <4>1. requests[x].id \in 1 .. n /\ requests[y].id \in 1 .. n
          BY <1>3
        <4> QED  BY <1>2, <1>8, <4>1
      <3> QED  BY <1>2, <1>3, <2>1, <3>1
    <2>3. ASSUME NEW j \in 1 .. i - 1  PROVE requests'[j].id < requests'[i].id
      <3>1. j \in 1 .. m - 1 /\ to(j) \in 1 .. m /\ to(j) < to(i)
        BY <2>1, Zenon
      <3> HIDE DEF to
      <3> QED  BY <1>7, <1>8, <2>1, <3>1
    <2> HIDE DEF to
    <2>4. requests'[i].id = requests[to(i)].id
      BY <1>7, <2>1
    <2> QED  BY <1>3, <1>6, <2>1, <2>2, <2>3, <2>4
  <1>10. ASSUME NEW id \in 1 .. Len(asked')
         PROVE  filled'[id] + WaitingIn(requests', id) + asked'[id].cancelled = asked'[id].shares
    <2>1. WaitingIn(requests, id)
            = WaitingIn(requests', id) + (IF c = id THEN requests[k].shares ELSE 0)
      BY <1>1, <1>2, WaitingRemoved
    <2>2. WaitingIn(requests, id) \in Nat /\ WaitingIn(requests', id) \in Nat
      BY <1>2, <1>7, WaitingNat
    <2>3. filled[id] + WaitingIn(requests, id) + asked[id].cancelled = asked[id].shares
      BY <1>6 DEF QueueInv
    <2>4. filled[id] \in Nat /\ asked[id].cancelled \in Nat /\ filled' = filled
      <3>1. asked[id] \in AskedRequest /\ filled[id] \in Nat
        BY <1>2, <1>6
      <3> QED  BY <1>1, <3>1 DEF AskedRequest
    <2> HIDE DEF c
    <2>5. CASE id = c
      <3>1. PICK f, w, u, x : /\ f = filled[id] /\ w = WaitingIn(requests, id)
                              /\ u = WaitingIn(requests', id) /\ x = requests[k].shares
        OBVIOUS
      <3>2. f \in Nat /\ w \in Nat /\ u \in Nat /\ x \in Nat
        BY <1>4, <2>2, <2>4, <3>1
      <3>3. w = u + x
        BY <2>1, <2>5, <3>1
      <3>4. f + w + 0 = asked[id].shares
        BY <1>4, <2>3, <2>5, <3>1
      <3>5. f + u + x = asked[id].shares
        BY <3>2, <3>3, <3>4, CancelledStopsWaiting
      <3>6. /\ asked'[id].cancelled = x /\ asked'[id].shares = asked[id].shares
            /\ filled'[id] = f
        BY <1>5, <1>6, <2>4, <2>5, <3>1
      <3> QED  BY <3>1, <3>5, <3>6
    <2>6. CASE id # c
      BY <1>6, <2>1, <2>2, <2>3, <2>4, <2>6
    <2> QED  BY <2>5, <2>6
  <1>11. /\ Len(filled') = Len(asked') /\ Len(requests') <= Len(asked') /\ Len(asked') <= MaxQueued
         /\ filled' \in Seq(Nat)
    BY <1>1, <1>2, <1>6, <1>7
  <1>12. /\ round'.paid <= round'.available
         /\ round'.waiting > 0 => round'.paid + MaxQueued > Min({round'.available, round'.waiting})
    BY <1>1 DEF QueueInv
  <1> QED  BY <1>6, <1>7, <1>9, <1>10, <1>11, <1>12 DEF QueueInv

\* What is paid in a round short of capital: no more than there was, and less
\* than one share per request short of it.
LEMMA RoundShares ==
  ASSUME NEW S, IsFiniteSet(S), S # {}, NEW f, NEW g, NEW a \in Nat, NEW T \in Nat \ {0},
         \A x \in S : f[x] \in Nat, T = SumOver(f, S),
         \A x \in S : g[x] = (f[x] * a) \div T
  PROVE  /\ SumOver(g, S) \in Nat /\ SumOver(g, S) <= a
         /\ a < SumOver(g, S) + Cardinality(S)
  <1> DEFINE fa == [x \in S |-> f[x] * a]
             gT == [x \in S |-> g[x] * T]
             one == [x \in S |-> 1]
             g1 == [x \in S |-> g[x] + 1]
             g1T == [x \in S |-> (g[x] + 1) * T]
             gap == [x \in S |-> (g[x] + 1) * T - f[x] * a]
             paid == SumOver(g, S)
             n == Cardinality(S)
  <1>1. ASSUME NEW x \in S
        PROVE  /\ g[x] \in Nat /\ f[x] * a \in Nat /\ g[x] * T \in Nat /\ (g[x] + 1) * T \in Nat
               /\ g[x] * T <= f[x] * a /\ f[x] * a < (g[x] + 1) * T
    <2>1. f[x] * a \in Nat /\ g[x] = (f[x] * a) \div T
      OBVIOUS
    <2>2. /\ g[x] \in Nat /\ g[x] * T <= f[x] * a /\ f[x] * a < (g[x] + 1) * T
      BY <2>1, RoundedDown
    <2>3. \A u, v \in Nat : u * v \in Nat
      OBVIOUS
    <2> QED  BY <2>1, <2>2, <2>3
  <1>2. /\ \A x \in S : fa[x] = f[x] * a /\ fa[x] \in Int /\ gT[x] = g[x] * T /\ gT[x] \in Int
        /\ \A x \in S : gT[x] <= fa[x]
        /\ \A x \in S : one[x] = 1 /\ one[x] \in Int /\ g[x] \in Int /\ g1[x] = g[x] + one[x]
        /\ \A x \in S : g1[x] \in Int /\ g1T[x] = g1[x] * T /\ g1T[x] \in Int
        /\ \A x \in S : gap[x] \in Nat /\ gap[x] >= 1 /\ gap[x] \in Int /\ g1T[x] = fa[x] + gap[x]
    BY <1>1
  <1>3. T \in Int /\ a \in Int /\ \A x \in S : f[x] \in Int /\ g[x] \in Nat
    BY <1>1
  <1> HIDE DEF fa, gT, one, g1, g1T, gap
  <1>4. SumOver(fa, S) = T * a
    BY <1>2, <1>3, SumScaled
  <1>5. SumOver(gT, S) = paid * T
    BY <1>2, <1>3, SumScaled
  <1>6. SumOver(gT, S) <= SumOver(fa, S)
    BY <1>2, SumDominated
  <1>7. paid \in Nat
    BY <1>3, SumNat
  <1>8. n \in Nat /\ SumOver(one, S) = n
    BY <1>2, SumOnes, FS_CardinalityType
  <1>9. SumOver(g1, S) = paid + n
    BY <1>2, <1>8, SumPlus
  <1>10. SumOver(g1T, S) = (paid + n) * T
    BY <1>2, <1>3, <1>9, SumScaled
  <1>11. SumOver(g1T, S) = SumOver(fa, S) + SumOver(gap, S)
    BY <1>2, SumPlus
  <1>12. SumOver(gap, S) \in Nat /\ SumOver(gap, S) >= 1
    <2>1. PICK x \in S : TRUE
      OBVIOUS
    <2>2. gap[x] <= SumOver(gap, S) /\ SumOver(gap, S) \in Nat
      BY <1>2, SumAtLeast, SumNat
    <2> QED  BY <1>2, <2>2
  <1> HIDE DEF paid, n
  <1>13. paid * T <= a * T
    <2>1. T * a = a * T
      OBVIOUS
    <2> QED  BY <1>4, <1>5, <1>6, <2>1
  <1>14. a * T < (paid + n) * T
    <2>1. T * a = a * T /\ a * T \in Nat /\ (paid + n) * T \in Nat
      BY <1>7, <1>8
    <2> QED  BY <1>4, <1>10, <1>11, <1>12, <2>1
  <1>15. paid <= a /\ a < paid + n
    <2>1. paid + n \in Nat
      BY <1>7, <1>8
    <2> QED  BY <1>7, <1>13, <1>14, <2>1, FactorDropped
  <1> QED  BY <1>7, <1>15 DEF paid, n

\* A round moves what it fills from waiting to filled.
LEMMA FillKeeps ==
  ASSUME QueueInv, NEW available \in QueueCapital, fill_pro_rata(available)
  PROVE  QueueInv'
  <1> DEFINE D == DOMAIN requests
             m == Len(requests)
             T == total_requested
             share == [k \in D |-> requests[k].shares]
             fill == [k \in D |-> Fill(requests[k], available)]
             part(id) == [k \in D |-> IF requests[k].id = id THEN fill[k] ELSE 0]
             Filled(id) == SumOver(part(id), D)
             paid == SumOver(fill, D)
  <1>1. /\ available > 0 /\ T # 0 /\ UNCHANGED asked
        /\ requests' = IF available >= T THEN <<>>
                       ELSE [k \in D |-> [requests[k] EXCEPT !.shares = @ - fill[k]]]
        /\ filled' = [id \in DOMAIN filled |-> filled[id] + Filled(id)]
        /\ round' = [available |-> available, waiting |-> T, paid |-> paid]
    BY DEF fill_pro_rata
  <1>2. /\ requests \in Seq(QueueRequest) /\ asked \in Seq(AskedRequest) /\ filled \in Seq(Nat)
        /\ Len(filled) = Len(asked) /\ Len(asked) \in Nat /\ m <= Len(asked)
        /\ Len(asked) <= MaxQueued /\ MaxQueued \in Nat
        /\ m \in Nat /\ D = 1 .. m /\ IsFiniteSet(D) /\ available \in Nat
    BY WithdrawalQueueConstants, WaitingNat DEF QueueInv
  <1>3. \A k \in D : /\ requests[k] \in QueueRequest /\ requests[k].id \in Nat
                     /\ requests[k].shares \in Nat \ {0}
    <2>1. \A k \in D : requests[k] \in QueueRequest
      BY <1>2
    <2> QED  BY <2>1 DEF QueueRequest
  <1>4. T \in Nat \ {0} /\ T = SumOver(share, D)
    <2>1. T = SumOver(share, D)
      BY DEF total_requested
    <2>2. \A k \in D : share[k] \in Nat
      BY <1>3
    <2> HIDE DEF share
    <2>3. SumOver(share, D) \in Nat
      BY <1>2, <2>2, SumNat
    <2> QED  BY <1>1, <2>1, <2>3
  <1>5. D # {} /\ m >= 1 /\ Cardinality(D) = m
    <2>1. D # {}
      BY <1>4, SumEmpty
    <2>2. m >= 1
      BY <1>2, <2>1
    <2>3. Cardinality(1 .. m) = m
      <3>1. m \in Int /\ 1 \in Int /\ m - 1 + 1 = m
        BY <1>2
      <3> HIDE DEF m
      <3> QED  BY <2>2, <3>1, FS_Interval
    <2> QED  BY <1>2, <2>1, <2>2, <2>3
  <1> HIDE DEF T
  <1>6. /\ paid \in Nat /\ paid <= available
        /\ paid + m > Min({available, T})
        /\ \A k \in D : fill[k] \in Nat /\ fill[k] <= requests[k].shares
        /\ available < T => \A k \in D : fill[k] < requests[k].shares
    <2>1. CASE available >= T
      <3>1. \A k \in D : fill[k] = share[k]
        BY <2>1 DEF Fill, T
      <3>2. paid = T
        BY <1>2, <1>4, <3>1, SumSame
      <3>3. Min({available, T}) = T
        BY <1>2, <1>4, <2>1, MinOfTwo
      <3>4. \A k \in D : fill[k] \in Nat /\ fill[k] <= requests[k].shares
        BY <1>3, <3>1
      <3> HIDE DEF paid, fill
      <3> QED  BY <1>2, <1>4, <1>5, <2>1, <3>2, <3>3, <3>4
    <2>2. CASE available < T
      <3>0. \A k \in D : share[k] \in Nat \ {0} /\ share[k] = requests[k].shares
        BY <1>3
      <3>1. \A k \in D : fill[k] = (share[k] * available) \div T
        BY <1>2, <1>4, <2>2 DEF Fill, T
      <3> HIDE DEF fill, share
      <3>2. paid \in Nat /\ paid <= available /\ available < paid + Cardinality(D)
        BY <1>2, <1>4, <1>5, <3>0, <3>1, RoundShares
      <3>3. Min({available, T}) = available
        BY <1>2, <1>4, <2>2, MinOfTwo
      <3>4. ASSUME NEW k \in D  PROVE fill[k] \in Nat /\ fill[k] < share[k]
        <4>1. share[k] \in Nat \ {0} /\ share[k] * available \in Nat
          BY <1>2, <3>0
        <4>2. fill[k] \in Nat /\ fill[k] * T <= share[k] * available
          BY <1>4, <3>1, <4>1, RoundedDown
        <4>3. share[k] * available < share[k] * T /\ share[k] * T \in Nat /\ fill[k] * T \in Nat
          <5>1. \A x \in Nat \ {0} : \A u, v \in Nat : u < v => x * u < x * v
            <6> SUFFICES ASSUME NEW x \in Nat \ {0}, NEW u \in Nat, NEW v \in Nat, u < v
                         PROVE  x * u < x * v
              OBVIOUS
            <6>1. PICK e \in Nat \ {0} : v = u + e
              <7>1. v - u \in Nat \ {0} /\ v = u + (v - u)
                OBVIOUS
              <7> QED  BY <7>1
            <6>2. x * v = x * u + x * e /\ x * e > 0 /\ x * u \in Nat
              BY <6>1
            <6> QED  BY <6>2
          <5>2. \A u, v \in Nat : u * v \in Nat
            OBVIOUS
          <5> QED  BY <1>2, <1>4, <2>2, <4>1, <4>2, <5>1, <5>2
        <4>4. fill[k] * T < share[k] * T
          BY <4>1, <4>2, <4>3
        <4> QED  BY <1>4, <4>1, <4>2, <4>4, FactorDropped
      <3> HIDE DEF paid
      <3>5. \A k \in D : fill[k] \in Nat /\ fill[k] <= requests[k].shares /\ fill[k] < requests[k].shares
        BY <3>0, <3>4
      <3> QED  BY <1>2, <1>4, <1>5, <3>2, <3>3, <3>5
    <2> QED  BY <1>2, <1>4, <2>1, <2>2
  <1> HIDE DEF fill
  <1>7. ASSUME NEW id \in 1 .. Len(asked)
        PROVE  /\ Filled(id) \in Nat
               /\ WaitingIn(requests, id) = WaitingIn(requests', id) + Filled(id)
               /\ WaitingIn(requests', id) \in Nat
    <2> DEFINE before == WaitsFor(requests, id)
    <2>1. \A k \in D : part(id)[k] \in Nat /\ part(id)[k] \in Int
      BY <1>6
    <2>2. Filled(id) \in Nat
      <3> DEFINE p == part(id)
      <3> HIDE DEF part
      <3> QED  BY <1>2, <2>1, SumNat
    <2>3. CASE available >= T
      <3>1. requests' = <<>> /\ DOMAIN requests' = {}
        BY <1>1, <2>3
      <3>2. WaitingIn(requests', id) = 0
        BY <3>1, SumEmpty DEF WaitingIn
      <3>3. \A k \in D : part(id)[k] = before[k]
        BY <2>3 DEF WaitsFor, fill, Fill, T
      <3>4. SumOver(part(id), D) = SumOver(before, D)
        <4> DEFINE p == part(id)
        <4>1. \A k \in D : p[k] = before[k]
          BY <3>3
        <4> HIDE DEF p, before
        <4>2. SumOver(p, D) = SumOver(before, D)
          BY <1>2, <4>1, SumSame
        <4> QED  BY <4>2 DEF p
      <3>5. Filled(id) = WaitingIn(requests, id)
        BY <3>4 DEF WaitingIn
      <3> HIDE DEF Filled
      <3> QED  BY <2>2, <3>2, <3>5
    <2>4. CASE available < T
      <3> DEFINE after == WaitsFor(requests', id)
                 p == part(id)
      <3>1. /\ requests' = [k \in D |-> [requests[k] EXCEPT !.shares = @ - fill[k]]]
            /\ DOMAIN requests' = D
        BY <1>1, <1>2, <1>4, <2>4
      <3>2. \A k \in D : requests'[k].id = requests[k].id
                          /\ requests'[k].shares = requests[k].shares - fill[k]
        BY <1>3, <3>1 DEF QueueRequest
      <3>3. \A k \in D : /\ after[k] \in Nat /\ after[k] \in Int /\ p[k] \in Int
                         /\ before[k] = after[k] + p[k]
        <4> SUFFICES ASSUME NEW k \in D
                     PROVE  /\ after[k] \in Nat /\ p[k] \in Int /\ before[k] = after[k] + p[k]
          OBVIOUS
        <4>1. /\ after[k] = (IF requests[k].id = id THEN requests[k].shares - fill[k] ELSE 0)
              /\ before[k] = (IF requests[k].id = id THEN requests[k].shares ELSE 0)
              /\ p[k] = (IF requests[k].id = id THEN fill[k] ELSE 0)
          BY <3>1, <3>2 DEF WaitsFor
        <4>2. fill[k] \in Nat /\ requests[k].shares \in Nat /\ fill[k] <= requests[k].shares
          BY <1>3, <1>6
        <4> HIDE DEF after, before, p
        <4> QED  BY <4>1, <4>2
      <3> HIDE DEF after, before, p
      <3>4. SumOver(before, D) = SumOver(after, D) + SumOver(p, D)
        <4>1. \A k \in D : after[k] \in Int /\ p[k] \in Int /\ before[k] = after[k] + p[k]
          BY <3>3
        <4>2. IsFiniteSet(D)
          BY <1>2
        <4> HIDE DEF D
        <4> QED  BY <4>1, <4>2, SumPlus
      <3>5. SumOver(after, D) \in Nat
        BY <1>2, <3>3, SumNat
      <3> QED  BY <2>2, <3>1, <3>4, <3>5 DEF WaitingIn, after, before, p
    <2> QED  BY <1>2, <1>4, <2>3, <2>4
  <1> HIDE DEF Filled
  <1>8. /\ filled' \in Seq(Nat) /\ Len(filled') = Len(asked)
        /\ \A id \in 1 .. Len(asked) : filled'[id] = filled[id] + Filled(id)
    <2>1. DOMAIN filled = 1 .. Len(asked) /\ \A id \in 1 .. Len(asked) : filled[id] \in Nat
      BY <1>2
    <2>2. \A id \in 1 .. Len(asked) : filled[id] + Filled(id) \in Nat
      BY <1>7, <2>1
    <2>3. filled' \in [1 .. Len(asked) -> Nat]
      BY <1>1, <2>1, <2>2
    <2> QED  BY <1>1, <1>2, <2>1, <2>3, SeqDef, LenProperties
  <1>9. ASSUME NEW id \in 1 .. Len(asked')
        PROVE  filled'[id] + WaitingIn(requests', id) + asked'[id].cancelled = asked'[id].shares
    <2>1. id \in 1 .. Len(asked) /\ asked' = asked
      BY <1>1
    <2>2. filled[id] + WaitingIn(requests, id) + asked[id].cancelled = asked[id].shares
      BY <2>1 DEF QueueInv
    <2>3. /\ filled[id] \in Nat /\ asked[id].cancelled \in Nat
      <3>1. asked[id] \in AskedRequest /\ filled[id] \in Nat
        BY <1>2, <2>1
      <3> QED  BY <3>1 DEF AskedRequest
    <2>4. /\ WaitingIn(requests, id) = WaitingIn(requests', id) + Filled(id)
          /\ Filled(id) \in Nat /\ WaitingIn(requests', id) \in Nat
      BY <1>7, <2>1
    <2>5. filled'[id] = filled[id] + Filled(id)
      BY <1>8, <2>1
    <2> QED  BY <2>1, <2>2, <2>3, <2>4, <2>5
  <1>10. /\ requests' \in Seq(QueueRequest) /\ Len(requests') <= Len(asked')
         /\ \A k \in DOMAIN requests' :
              /\ requests'[k].id \in 1 .. Len(asked') /\ asked'[requests'[k].id].cancelled = 0
              /\ \A j \in 1 .. k - 1 : requests'[j].id < requests'[k].id
    <2>1. CASE available >= T
      <3>1. requests' = <<>>
        BY <1>1, <2>1
      <3> QED  BY <1>1, <1>2, <3>1
    <2>2. CASE available < T
      <3>1. /\ requests' = [k \in D |-> [requests[k] EXCEPT !.shares = @ - fill[k]]]
            /\ DOMAIN requests' = D
        BY <1>1, <1>2, <1>4, <2>2
      <3>2. ASSUME NEW k \in D
            PROVE  requests'[k] \in QueueRequest /\ requests'[k].id = requests[k].id
        <4>1. /\ requests[k] \in QueueRequest /\ requests[k].shares \in Nat
              /\ fill[k] \in Nat /\ fill[k] < requests[k].shares
          BY <1>3, <1>6, <2>2
        <4>2. requests[k].shares - fill[k] \in Nat \ {0}
          BY <4>1
        <4> QED  BY <3>1, <4>1, <4>2 DEF QueueRequest
      <3>3. requests' \in [1 .. m -> QueueRequest]
        BY <1>2, <3>1, <3>2
      <3>4. requests' \in Seq(QueueRequest) /\ Len(requests') = m
        BY <1>2, <3>3, SeqDef, LenProperties
      <3>5. \A k \in D : /\ requests[k].id \in 1 .. Len(asked) /\ asked[requests[k].id].cancelled = 0
                         /\ \A j \in 1 .. k - 1 : requests[j].id < requests[k].id
        BY DEF QueueInv
      <3>6. \A k \in D : \A j \in 1 .. k - 1 : j \in D
        BY <1>2
      <3> QED  BY <1>1, <1>2, <3>1, <3>2, <3>4, <3>5, <3>6
    <2> QED  BY <1>2, <1>4, <2>1, <2>2
  <1>11. /\ round'.paid <= round'.available
         /\ round'.paid + MaxQueued > Min({round'.available, round'.waiting})
    <2>1. round'.paid = paid /\ round'.available = available /\ round'.waiting = T
      BY <1>1
    <2> HIDE DEF paid
    <2>2. Min({available, T}) \in Nat
      <3>1. available \in Nat /\ T \in Nat
        BY <1>2, <1>4
      <3> HIDE DEF T
      <3>2. Min({available, T}) = IF available <= T THEN available ELSE T
        BY <3>1, MinOfTwo
      <3> QED  BY <3>1, <3>2
    <2> QED  BY <1>2, <1>6, <2>1, <2>2
  <1> QED  BY <1>1, <1>2, <1>8, <1>9, <1>10, <1>11 DEF QueueInv

\* Every call keeps the queue exact.
LEMMA QueueInvStep == QueueInv /\ [QueueNext]_queueVars => QueueInv'
  <1> SUFFICES ASSUME QueueInv, [QueueNext]_queueVars  PROVE QueueInv'
    OBVIOUS
  <1>1. CASE UNCHANGED queueVars
    BY <1>1 DEF queueVars, QueueInv
  <1> QED  BY <1>1, RequestKeeps, CancelKeeps, FillKeeps DEF QueueNext

\* The invariant says what is promised of the queue.
LEMMA QueueInvExact == QueueInv => QueueExact
  <1> SUFFICES ASSUME QueueInv  PROVE QueueExact
    OBVIOUS
  <1>1. \A id : Waiting(id) = WaitingIn(requests, id)
    BY DEF Waiting, WaitingIn, WaitsFor
  <1>2. DOMAIN asked = 1 .. Len(asked) /\ \A k \in DOMAIN requests : requests[k].shares > 0
    <2>1. \A k \in DOMAIN requests : requests[k] \in QueueRequest
      BY DEF QueueInv
    <2> QED  BY <2>1 DEF QueueInv, QueueRequest
  <1> QED  BY <1>1, <1>2 DEF QueueInv, QueueExact

-----------------------------------------------------------------------------
(* The backstop. *)

TrancheState ==
  [total_shares : Nat, total_assets : Nat, mature_shares : Nat, mature_assets : Nat]
ShareBook == [Stakers -> [Tranches -> [Ages -> Nat]]]
LotBook == [LotIds -> DepositLot \cup {None}]
CapitalBook == [tranche : [Tranches -> TrancheState], shares : ShareBook, lots : LotBook]
Totals == [shares : Nat, capital : Int, drawdowns : Nat, premiums : Nat]

\* The shares of a tranche that are mature, or are not.
SharesIn(shares, t, m) == SumOver([s \in Stakers |-> shares[s][t][m]], Stakers)

\* A tranche adds up with the shares and lots on file, and without mature shares
\* there are no mature assets.
TrancheExact(tr, mature, immature, principal) ==
  /\ tr.mature_shares = mature
  /\ tr.total_shares = mature + immature
  /\ tr.total_assets = tr.mature_assets + principal
  /\ mature = 0 => tr.mature_assets = 0

\* Every tranche adds up, and a staker's immature shares are those of the staker's lots.
BookExact(b) ==
  /\ b \in CapitalBook
  /\ \A t \in Tranches : TrancheExact(b.tranche[t], SharesIn(b.shares, t, "mature"),
                                      SharesIn(b.shares, t, "immature"), LotPrincipal(b.lots, t))
  /\ \A s \in Stakers : \A t \in Tranches : b.shares[s][t]["immature"] = LotSharesOf(b.lots, s, t)

\* The backstop's totals are those of its two tranches, and it holds its capital.
BackstopInv ==
  /\ now \in Nat /\ lockup \in Nat /\ juniorBps \in 0 .. BpsDenom
  /\ BookExact(book)
  /\ total \in Totals /\ reserve \in Nat
  /\ total.shares = book.tranche["Junior"].total_shares + book.tranche["Senior"].total_shares
  /\ total.capital + total.drawdowns
       = book.tranche["Junior"].total_assets + book.tranche["Senior"].total_assets
  /\ total.capital <= reserve

\* A lot that is stored has its fields.
LEMMA LotFields ==
  ASSUME NEW lots \in LotBook, NEW i \in LotIds, lots[i] # None
  PROVE  /\ lots[i] \in DepositLot /\ lots[i].staker \in Stakers /\ lots[i].tranche \in Tranches
         /\ lots[i].shares \in Nat /\ lots[i].shares > 0 /\ lots[i].principal \in Nat
         /\ lots[i].matures_at \in Nat
  <1>1. lots[i] \in DepositLot
    BY DEF LotBook
  <1> QED  BY <1>1, BackstopConstants DEF DepositLot

\* What one lot adds to the three sums.
PrincipalAt(lots, t) ==
  [i \in LotIds |-> IF lots[i] # None /\ lots[i].tranche = t THEN lots[i].principal ELSE 0]
SharesAt(lots, t) ==
  [i \in LotIds |-> IF lots[i] # None /\ lots[i].tranche = t THEN lots[i].shares ELSE 0]
SharesOfAt(lots, s, t) ==
  [i \in LotIds |-> IF lots[i] # None /\ lots[i].tranche = t /\ lots[i].staker = s
                    THEN lots[i].shares ELSE 0]

\* The sums over the lots are amounts.
LEMMA LotSums ==
  ASSUME NEW lots \in LotBook, NEW t, NEW s
  PROVE  /\ IsFiniteSet(LotIds) /\ IsFiniteSet(Stakers)
         /\ \A i \in LotIds : /\ PrincipalAt(lots, t)[i] \in Nat /\ SharesAt(lots, t)[i] \in Nat
                              /\ SharesOfAt(lots, s, t)[i] \in Nat
         /\ LotPrincipal(lots, t) = SumOver(PrincipalAt(lots, t), LotIds)
         /\ LotShares(lots, t) = SumOver(SharesAt(lots, t), LotIds)
         /\ LotSharesOf(lots, s, t) = SumOver(SharesOfAt(lots, s, t), LotIds)
         /\ LotPrincipal(lots, t) \in Nat /\ LotShares(lots, t) \in Nat
         /\ LotSharesOf(lots, s, t) \in Nat
  <1>1. IsFiniteSet(LotIds) /\ IsFiniteSet(Stakers)
    <2>1. IsFiniteSet(Stakers) /\ MaxLots \in Nat
      BY BackstopConstants
    <2>2. 1 \in Int /\ MaxLots \in Int
      BY <2>1
    <2>3. IsFiniteSet(1 .. MaxLots)
      BY <2>2, FS_Interval
    <2> QED  BY <2>1, <2>3 DEF LotIds
  <1>2. \A i \in LotIds : /\ PrincipalAt(lots, t)[i] \in Nat /\ SharesAt(lots, t)[i] \in Nat
                          /\ SharesOfAt(lots, s, t)[i] \in Nat
    BY LotFields DEF PrincipalAt, SharesAt, SharesOfAt
  <1>3. /\ LotPrincipal(lots, t) = SumOver(PrincipalAt(lots, t), LotIds)
        /\ LotShares(lots, t) = SumOver(SharesAt(lots, t), LotIds)
        /\ LotSharesOf(lots, s, t) = SumOver(SharesOfAt(lots, s, t), LotIds)
    BY DEF LotPrincipal, LotShares, LotSharesOf, PrincipalAt, SharesAt, SharesOfAt
  <1>4. SumOver(PrincipalAt(lots, t), LotIds) \in Nat
    BY <1>1, <1>2, SumNat
  <1>5. SumOver(SharesAt(lots, t), LotIds) \in Nat
    BY <1>1, <1>2, SumNat
  <1>6. SumOver(SharesOfAt(lots, s, t), LotIds) \in Nat
    BY <1>1, <1>2, SumNat
  <1> QED  BY <1>1, <1>2, <1>3, <1>4, <1>5, <1>6

\* The shares of the lots of a tranche, staker by staker.
LEMMA LotsByStaker ==
  ASSUME NEW lots \in LotBook, NEW t
  PROVE  SumOver([s \in Stakers |-> LotSharesOf(lots, s, t)], Stakers) = LotShares(lots, t)
  <1> DEFINE F == [s \in Stakers |-> SharesOfAt(lots, s, t)]
             col(i) == [s \in Stakers |-> F[s][i]]
             cols == [i \in LotIds |-> SumOver(col(i), Stakers)]
             rows == [s \in Stakers |-> SumOver(F[s], LotIds)]
  <1>1. /\ IsFiniteSet(LotIds) /\ IsFiniteSet(Stakers)
        /\ \A s \in Stakers : \A i \in LotIds : F[s][i] \in Int
    BY LotSums
  <1>2. SumOver(rows, Stakers) = SumOver(cols, LotIds)
    <2> DEFINE table == [i \in LotIds |-> col(i)]
    <2>1. \A s \in Stakers : \A i \in LotIds : F[s][i] \in Int /\ table[i][s] = F[s][i]
      BY <1>1
    <2>2. \A s \in Stakers : rows[s] = SumOver(F[s], LotIds)
      OBVIOUS
    <2>3. \A i \in LotIds : cols[i] = SumOver(table[i], Stakers)
      OBVIOUS
    <2>4. IsFiniteSet(Stakers) /\ IsFiniteSet(LotIds)
      BY <1>1
    <2> HIDE DEF F, rows, cols, table
    <2>5. Table(F, table, Stakers, LotIds, rows, cols)
      BY <2>1, <2>2, <2>3 DEF Table
    <2> QED  BY <2>4, <2>5, SumSwap
  <1>3. ASSUME NEW i \in LotIds
        PROVE  cols[i] = SharesAt(lots, t)[i]
    <2>0. \A s \in Stakers : col(i)[s] =
             IF lots[i] # None /\ lots[i].tranche = t /\ lots[i].staker = s THEN lots[i].shares ELSE 0
      BY DEF SharesOfAt
    <2>1. CASE lots[i] # None /\ lots[i].tranche = t
      <3> DEFINE c == col(i)
                 x == lots[i].staker
      <3>1. x \in Stakers /\ c[x] = lots[i].shares /\ c[x] \in Int /\ \A y \in Stakers \ {x} : c[y] = 0
        BY <2>0, <2>1, LotFields
      <3> HIDE DEF c, x
      <3>2. SumOver(c, Stakers) = c[x]
        BY <1>1, <3>1, SumSingle
      <3>3. SharesAt(lots, t)[i] = lots[i].shares
        BY <2>1 DEF SharesAt
      <3> QED  BY <3>1, <3>2, <3>3 DEF c
    <2>2. CASE ~ (lots[i] # None /\ lots[i].tranche = t)
      <3> DEFINE c == col(i)
      <3>1. \A y \in Stakers : c[y] = 0
        BY <2>0, <2>2
      <3> HIDE DEF c
      <3>2. SumOver(c, Stakers) = 0
        BY <1>1, <3>1, SumZero
      <3>3. SharesAt(lots, t)[i] = 0
        BY <2>2 DEF SharesAt
      <3> QED  BY <3>2, <3>3 DEF c
    <2> QED  BY <2>1, <2>2
  <1>4. SumOver(cols, LotIds) = SumOver(SharesAt(lots, t), LotIds)
    <2> HIDE DEF cols
    <2> QED  BY <1>1, <1>3, SumSame
  <1>5. \A s \in Stakers : rows[s] = LotSharesOf(lots, s, t)
    BY LotSums
  <1>6. SumOver(rows, Stakers) = SumOver([s \in Stakers |-> LotSharesOf(lots, s, t)], Stakers)
    <2> DEFINE g == [s \in Stakers |-> LotSharesOf(lots, s, t)]
    <2>1. \A s \in Stakers : rows[s] = g[s]
      BY <1>5
    <2> HIDE DEF rows, g
    <2>2. SumOver(rows, Stakers) = SumOver(g, Stakers)
      BY <1>1, <2>1, SumSame
    <2> QED  BY <2>2 DEF g
  <1> QED  BY <1>2, <1>4, <1>6, LotSums

\* Lots without shares are no lots: they hold no principal either.
LEMMA NoSharesNoPrincipal ==
  ASSUME NEW lots \in LotBook, NEW t, LotShares(lots, t) = 0
  PROVE  LotPrincipal(lots, t) = 0
  <1>1. ASSUME NEW i \in LotIds  PROVE PrincipalAt(lots, t)[i] = 0
    <2>1. SharesAt(lots, t)[i] <= 0 /\ SharesAt(lots, t)[i] \in Nat
      BY LotSums, SumAtLeast
    <2> QED  BY <2>1, LotFields DEF SharesAt, PrincipalAt
  <1>2. IsFiniteSet(LotIds)
    BY LotSums
  <1>3. SumOver(PrincipalAt(lots, t), LotIds) = 0
    BY <1>1, <1>2, SumZero
  <1> QED  BY <1>3, LotSums

\* Lots parted in two.
LEMMA LotsParted ==
  ASSUME NEW lots \in LotBook, NEW due \in LotBook, NEW rest \in LotBook,
         \A i \in LotIds : \/ due[i] = lots[i] /\ rest[i] = None
                           \/ due[i] = None /\ rest[i] = lots[i],
         NEW t, NEW s
  PROVE  /\ LotPrincipal(lots, t) = LotPrincipal(due, t) + LotPrincipal(rest, t)
         /\ LotShares(lots, t) = LotShares(due, t) + LotShares(rest, t)
         /\ LotSharesOf(lots, s, t) = LotSharesOf(due, s, t) + LotSharesOf(rest, s, t)
  <1>0. /\ IsFiniteSet(LotIds)
        /\ \A i \in LotIds : /\ PrincipalAt(due, t)[i] \in Int /\ PrincipalAt(rest, t)[i] \in Int
                             /\ SharesAt(due, t)[i] \in Int /\ SharesAt(rest, t)[i] \in Int
                             /\ SharesOfAt(due, s, t)[i] \in Int /\ SharesOfAt(rest, s, t)[i] \in Int
    <2>1. \A i \in LotIds : /\ PrincipalAt(due, t)[i] \in Nat /\ SharesAt(due, t)[i] \in Nat
                            /\ SharesOfAt(due, s, t)[i] \in Nat
      BY LotSums
    <2>2. \A i \in LotIds : /\ PrincipalAt(rest, t)[i] \in Nat /\ SharesAt(rest, t)[i] \in Nat
                            /\ SharesOfAt(rest, s, t)[i] \in Nat
      BY LotSums
    <2>3. IsFiniteSet(LotIds)
      BY LotSums
    <2> QED  BY <2>1, <2>2, <2>3
  <1>1. \A i \in LotIds : PrincipalAt(lots, t)[i] = PrincipalAt(due, t)[i] + PrincipalAt(rest, t)[i]
    BY <1>0 DEF PrincipalAt
  <1>2. \A i \in LotIds : SharesAt(lots, t)[i] = SharesAt(due, t)[i] + SharesAt(rest, t)[i]
    BY <1>0 DEF SharesAt
  <1>3. \A i \in LotIds :
           SharesOfAt(lots, s, t)[i] = SharesOfAt(due, s, t)[i] + SharesOfAt(rest, s, t)[i]
    BY <1>0 DEF SharesOfAt
  <1>4. SumOver(PrincipalAt(lots, t), LotIds)
          = SumOver(PrincipalAt(due, t), LotIds) + SumOver(PrincipalAt(rest, t), LotIds)
    BY <1>0, <1>1, SumPlus
  <1>5. SumOver(SharesAt(lots, t), LotIds)
          = SumOver(SharesAt(due, t), LotIds) + SumOver(SharesAt(rest, t), LotIds)
    BY <1>0, <1>2, SumPlus
  <1>6. SumOver(SharesOfAt(lots, s, t), LotIds)
          = SumOver(SharesOfAt(due, s, t), LotIds) + SumOver(SharesOfAt(rest, s, t), LotIds)
    BY <1>0, <1>3, SumPlus
  <1> QED  BY <1>4, <1>5, <1>6, LotSums

\* A lot takes a free id.
LEMMA LotAdded ==
  ASSUME NEW lots \in LotBook, NEW k \in LotIds, lots[k] = None, NEW lot \in DepositLot,
         NEW t, NEW s
  PROVE  LET more == [lots EXCEPT ![k] = lot]
         IN /\ more \in LotBook
            /\ LotPrincipal(more, t) = LotPrincipal(lots, t) + (IF lot.tranche = t THEN lot.principal ELSE 0)
            /\ LotSharesOf(more, s, t) = LotSharesOf(lots, s, t)
                 + (IF lot.tranche = t /\ lot.staker = s THEN lot.shares ELSE 0)
  <1> DEFINE more == [lots EXCEPT ![k] = lot]
  <1>1. /\ more \in LotBook /\ more[k] = lot /\ lot # None
        /\ \A i \in LotIds \ {k} : more[i] = lots[i]
    BY AbsentLot DEF LotBook
  <1> HIDE DEF more
  <1>2. /\ \A i \in LotIds : PrincipalAt(lots, t)[i] \in Int /\ PrincipalAt(more, t)[i] \in Int
        /\ \A i \in LotIds : SharesOfAt(lots, s, t)[i] \in Int /\ SharesOfAt(more, s, t)[i] \in Int
        /\ IsFiniteSet(LotIds)
        /\ LotPrincipal(lots, t) \in Int /\ LotSharesOf(lots, s, t) \in Int
    <2>1. \A i \in LotIds : PrincipalAt(lots, t)[i] \in Nat /\ SharesOfAt(lots, s, t)[i] \in Nat
      BY LotSums
    <2>2. \A i \in LotIds : PrincipalAt(more, t)[i] \in Nat /\ SharesOfAt(more, s, t)[i] \in Nat
      BY <1>1, LotSums
    <2>3. IsFiniteSet(LotIds) /\ LotPrincipal(lots, t) \in Nat /\ LotSharesOf(lots, s, t) \in Nat
      BY LotSums
    <2> QED  BY <2>1, <2>2, <2>3
  <1>3. /\ \A i \in LotIds \ {k} : PrincipalAt(more, t)[i] = PrincipalAt(lots, t)[i]
        /\ PrincipalAt(lots, t)[k] = 0
        /\ PrincipalAt(more, t)[k] = IF lot.tranche = t THEN lot.principal ELSE 0
    BY <1>1 DEF PrincipalAt
  <1>4. /\ \A i \in LotIds \ {k} : SharesOfAt(more, s, t)[i] = SharesOfAt(lots, s, t)[i]
        /\ SharesOfAt(lots, s, t)[k] = 0
        /\ SharesOfAt(more, s, t)[k] = IF lot.tranche = t /\ lot.staker = s THEN lot.shares ELSE 0
    BY <1>1 DEF SharesOfAt
  <1>5. SumOver(PrincipalAt(more, t), LotIds)
          = SumOver(PrincipalAt(lots, t), LotIds) - PrincipalAt(lots, t)[k] + PrincipalAt(more, t)[k]
    BY <1>2, <1>3, SumChange
  <1>6. SumOver(SharesOfAt(more, s, t), LotIds)
          = SumOver(SharesOfAt(lots, s, t), LotIds) - SharesOfAt(lots, s, t)[k]
              + SharesOfAt(more, s, t)[k]
    BY <1>2, <1>4, SumChange
  <1>7. /\ LotPrincipal(more, t) = SumOver(PrincipalAt(more, t), LotIds)
        /\ LotPrincipal(lots, t) = SumOver(PrincipalAt(lots, t), LotIds)
        /\ LotSharesOf(more, s, t) = SumOver(SharesOfAt(more, s, t), LotIds)
        /\ LotSharesOf(lots, s, t) = SumOver(SharesOfAt(lots, s, t), LotIds)
    BY <1>1, LotSums
  <1>8. PrincipalAt(more, t)[k] \in Int /\ SharesOfAt(more, s, t)[k] \in Int
    BY <1>2
  <1>9. LotPrincipal(more, t) = LotPrincipal(lots, t) + PrincipalAt(more, t)[k]
    BY <1>2, <1>3, <1>5, <1>7, <1>8
  <1>10. LotSharesOf(more, s, t) = LotSharesOf(lots, s, t) + SharesOfAt(more, s, t)[k]
    BY <1>2, <1>4, <1>6, <1>7, <1>8
  <1> QED  BY <1>1, <1>3, <1>4, <1>9, <1>10 DEF more

\* The shares of a tranche add up to an amount, which one staker's are part of.
LEMMA SharesNat ==
  ASSUME NEW shares \in ShareBook, NEW t \in Tranches, NEW m \in Ages
  PROVE  /\ SharesIn(shares, t, m) \in Nat
         /\ \A s \in Stakers : shares[s][t][m] \in Nat /\ shares[s][t][m] <= SharesIn(shares, t, m)
  <1> DEFINE f == [s \in Stakers |-> shares[s][t][m]]
  <1>1. IsFiniteSet(Stakers) /\ \A s \in Stakers : f[s] = shares[s][t][m] /\ f[s] \in Nat
    BY BackstopConstants DEF ShareBook
  <1>2. SharesIn(shares, t, m) = SumOver(f, Stakers)
    BY DEF SharesIn
  <1> HIDE DEF f
  <1> QED  BY <1>1, <1>2, SumNat, SumAtLeast

\* When one entry of the shares changes, one sum changes by the difference.
LEMMA SharesMoved ==
  ASSUME NEW old \in ShareBook, NEW new \in ShareBook,
         NEW s \in Stakers, NEW t \in Tranches, NEW m \in Ages,
         \A x \in Stakers : \A u \in Tranches : \A n \in Ages :
            (x # s \/ u # t \/ n # m) => new[x][u][n] = old[x][u][n]
  PROVE  /\ SharesIn(new, t, m) = SharesIn(old, t, m) - old[s][t][m] + new[s][t][m]
         /\ \A u \in Tranches : \A n \in Ages :
              (u # t \/ n # m) => SharesIn(new, u, n) = SharesIn(old, u, n)
  <1>0. IsFiniteSet(Stakers)
    BY BackstopConstants
  <1>1. SharesIn(new, t, m) = SharesIn(old, t, m) - old[s][t][m] + new[s][t][m]
    <2> DEFINE f == [x \in Stakers |-> old[x][t][m]]
               g == [x \in Stakers |-> new[x][t][m]]
    <2>1. /\ \A x \in Stakers : f[x] \in Int
          /\ g[s] \in Int /\ f[s] = old[s][t][m] /\ g[s] = new[s][t][m]
          /\ \A x \in Stakers \ {s} : g[x] = f[x]
      BY DEF ShareBook
    <2>2. SharesIn(new, t, m) = SumOver(g, Stakers) /\ SharesIn(old, t, m) = SumOver(f, Stakers)
      BY DEF SharesIn
    <2> HIDE DEF f, g
    <2>3. SumOver(g, Stakers) = SumOver(f, Stakers) - f[s] + g[s]
      BY <1>0, <2>1, SumChange
    <2> QED  BY <2>1, <2>2, <2>3
  <1>2. ASSUME NEW u \in Tranches, NEW n \in Ages, u # t \/ n # m
        PROVE  SharesIn(new, u, n) = SharesIn(old, u, n)
    <2> DEFINE f == [x \in Stakers |-> old[x][u][n]]
               g == [x \in Stakers |-> new[x][u][n]]
    <2>1. \A x \in Stakers : g[x] = f[x]
      BY <1>2
    <2>2. SharesIn(new, u, n) = SumOver(g, Stakers) /\ SharesIn(old, u, n) = SumOver(f, Stakers)
      BY DEF SharesIn
    <2> HIDE DEF f, g
    <2> QED  BY <1>0, <2>1, <2>2, SumSame
  <1> QED  BY <1>1, <1>2

\* The parts of a book.
LEMMA BookParts ==
  ASSUME NEW b \in CapitalBook
  PROVE  /\ b.tranche \in [Tranches -> TrancheState] /\ b.shares \in ShareBook /\ b.lots \in LotBook
         /\ \A t \in Tranches : /\ b.tranche[t] \in TrancheState
                                /\ b.tranche[t].total_shares \in Nat /\ b.tranche[t].total_assets \in Nat
                                /\ b.tranche[t].mature_shares \in Nat
                                /\ b.tranche[t].mature_assets \in Nat
  BY DEF CapitalBook, TrancheState

\* What matured moves from immature to mature, in shares and in principal.
LEMMA SyncExact ==
  ASSUME now \in Nat, NEW b, BookExact(b)
  PROVE  LET z == _sync_matured(b)
         IN /\ BookExact(z)
            /\ \A t \in Tranches : /\ z.tranche[t].total_shares = b.tranche[t].total_shares
                                   /\ z.tranche[t].total_assets = b.tranche[t].total_assets
                                   /\ z.tranche[t].mature_shares >= b.tranche[t].mature_shares
                                   /\ z.lots = b.lots =>
                                        /\ z.tranche[t].mature_shares = b.tranche[t].mature_shares
                                        /\ z.tranche[t].mature_assets = b.tranche[t].mature_assets
  <1> DEFINE due == [i \in LotIds |-> IF IsDue(b.lots[i]) THEN b.lots[i] ELSE None]
             rest == [i \in LotIds |-> IF IsDue(b.lots[i]) THEN None ELSE b.lots[i]]
             z == _sync_matured(b)
  <1>0. /\ b \in CapitalBook /\ b.lots \in LotBook /\ b.shares \in ShareBook
        /\ \A t \in Tranches : b.tranche[t] \in TrancheState
    BY BookParts DEF BookExact
  <1>1. /\ due \in LotBook /\ rest \in LotBook
        /\ \A i \in LotIds : \/ due[i] = b.lots[i] /\ rest[i] = None
                             \/ due[i] = None /\ rest[i] = b.lots[i]
    BY <1>0 DEF LotBook
  <1>2. /\ z.lots = rest
        /\ z.tranche = [t \in Tranches |->
             [b.tranche[t] EXCEPT !.mature_shares = @ + LotShares(due, t),
                                  !.mature_assets = @ + LotPrincipal(due, t)]]
        /\ z.shares = [s \in Stakers |-> [t \in Tranches |-> [m \in Ages |->
             IF m = "mature" THEN b.shares[s][t][m] + LotSharesOf(due, s, t)
                  ELSE b.shares[s][t][m] - LotSharesOf(due, s, t)]]]
        /\ z = [tranche |-> z.tranche, shares |-> z.shares, lots |-> z.lots]
    BY DEF _sync_matured
  <1> HIDE DEF z, due, rest
  <1>3. ASSUME NEW t \in Tranches
        PROVE  /\ LotPrincipal(b.lots, t) = LotPrincipal(due, t) + LotPrincipal(rest, t)
               /\ LotShares(due, t) \in Nat /\ LotPrincipal(due, t) \in Nat
               /\ LotPrincipal(rest, t) \in Nat
               /\ LotShares(due, t) = 0 => LotPrincipal(due, t) = 0
    <2>1. LotPrincipal(b.lots, t) = LotPrincipal(due, t) + LotPrincipal(rest, t)
      BY <1>0, <1>1, LotsParted
    <2>2. LotShares(due, t) \in Nat /\ LotPrincipal(due, t) \in Nat
      BY <1>1, LotSums
    <2>3. LotPrincipal(rest, t) \in Nat
      BY <1>1, LotSums
    <2>4. LotShares(due, t) = 0 => LotPrincipal(due, t) = 0
      BY <1>1, NoSharesNoPrincipal
    <2> QED  BY <2>1, <2>2, <2>3, <2>4
  <1>4. ASSUME NEW s \in Stakers, NEW t \in Tranches
        PROVE  /\ z.shares[s][t]["mature"] = b.shares[s][t]["mature"] + LotSharesOf(due, s, t)
               /\ b.shares[s][t]["immature"] = z.shares[s][t]["immature"] + LotSharesOf(due, s, t)
               /\ z.shares[s][t]["immature"] = LotSharesOf(rest, s, t)
               /\ LotSharesOf(due, s, t) \in Nat /\ b.shares[s][t]["mature"] \in Nat
               /\ z.shares[s][t]["mature"] \in Nat /\ z.shares[s][t]["immature"] \in Nat
    <2>1. LotSharesOf(b.lots, s, t) = LotSharesOf(due, s, t) + LotSharesOf(rest, s, t)
      BY <1>0, <1>1, LotsParted
    <2>2. LotSharesOf(due, s, t) \in Nat
      BY <1>1, LotSums
    <2>3. LotSharesOf(rest, s, t) \in Nat
      BY <1>1, LotSums
    <2>4. b.shares[s][t]["immature"] = LotSharesOf(b.lots, s, t) /\ b.shares[s][t]["mature"] \in Nat
      BY <1>0 DEF BookExact, ShareBook, Ages
    <2>5. /\ z.shares[s][t]["mature"] = b.shares[s][t]["mature"] + LotSharesOf(due, s, t)
          /\ z.shares[s][t]["immature"] = b.shares[s][t]["immature"] - LotSharesOf(due, s, t)
      <3>0. z.shares[s] = [u \in Tranches |-> [m \in Ages |->
             IF m = "mature" THEN b.shares[s][u][m] + LotSharesOf(due, s, u)
                  ELSE b.shares[s][u][m] - LotSharesOf(due, s, u)]]
        BY <1>2
      <3>1. z.shares[s][t] = [m \in Ages |->
             IF m = "mature" THEN b.shares[s][t][m] + LotSharesOf(due, s, t)
                  ELSE b.shares[s][t][m] - LotSharesOf(due, s, t)]
        BY <3>0
      <3>2. "mature" \in Ages /\ "immature" \in Ages /\ "immature" # "mature"
        BY DEF Ages
      <3> HIDE <1>2
      <3> QED  BY <3>1, <3>2
    <2> QED  BY <2>1, <2>2, <2>3, <2>4, <2>5
  <1>5. z.shares \in ShareBook
    <2>1. \A s \in Stakers : \A t \in Tranches : \A m \in Ages : z.shares[s][t][m] \in Nat
      BY <1>4 DEF Ages
    <2>2. \A s \in Stakers : z.shares[s] \in [Tranches -> [Ages -> Nat]]
      <3> SUFFICES ASSUME NEW s \in Stakers  PROVE z.shares[s] \in [Tranches -> [Ages -> Nat]]
        OBVIOUS
      <3>1. z.shares[s] = [t \in Tranches |-> [m \in Ages |->
             IF m = "mature" THEN b.shares[s][t][m] + LotSharesOf(due, s, t)
                  ELSE b.shares[s][t][m] - LotSharesOf(due, s, t)]]
        BY <1>2
      <3>2. \A t \in Tranches : z.shares[s][t] \in [Ages -> Nat]
        <4> SUFFICES ASSUME NEW t \in Tranches  PROVE z.shares[s][t] \in [Ages -> Nat]
          OBVIOUS
        <4>1. z.shares[s][t] = [m \in Ages |->
               IF m = "mature" THEN b.shares[s][t][m] + LotSharesOf(due, s, t)
                    ELSE b.shares[s][t][m] - LotSharesOf(due, s, t)]
          BY <3>1
        <4>2. \A m \in Ages : z.shares[s][t][m] \in Nat
          BY <2>1
        <4> HIDE <1>2
        <4> QED  BY <4>1, <4>2
      <3> QED  BY <3>1, <3>2
    <2> QED  BY <1>2, <2>2 DEF ShareBook
  <1>6. ASSUME NEW t \in Tranches
        PROVE  /\ SharesIn(z.shares, t, "mature") = SharesIn(b.shares, t, "mature") + LotShares(due, t)
               /\ SharesIn(b.shares, t, "immature") = SharesIn(z.shares, t, "immature") + LotShares(due, t)
    <2> DEFINE moved == [s \in Stakers |-> LotSharesOf(due, s, t)]
               oldT == [s \in Stakers |-> b.shares[s][t]["mature"]]
               newT == [s \in Stakers |-> z.shares[s][t]["mature"]]
               oldF == [s \in Stakers |-> b.shares[s][t]["immature"]]
               newF == [s \in Stakers |-> z.shares[s][t]["immature"]]
    <2>0. IsFiniteSet(Stakers)
      BY BackstopConstants
    <2>1. SumOver(moved, Stakers) = LotShares(due, t)
      BY <1>1, LotsByStaker
    <2>2. /\ \A s \in Stakers : oldT[s] \in Int /\ moved[s] \in Int /\ newT[s] = oldT[s] + moved[s]
          /\ \A s \in Stakers : newF[s] \in Int /\ moved[s] \in Int /\ oldF[s] = newF[s] + moved[s]
      BY <1>4
    <2>3. /\ SharesIn(b.shares, t, "mature") = SumOver(oldT, Stakers)
          /\ SharesIn(b.shares, t, "immature") = SumOver(oldF, Stakers)
          /\ SharesIn(z.shares, t, "mature") = SumOver(newT, Stakers)
          /\ SharesIn(z.shares, t, "immature") = SumOver(newF, Stakers)
      BY DEF SharesIn
    <2> HIDE DEF moved, oldT, newT, oldF, newF
    <2>4. SumOver(newT, Stakers) = SumOver(oldT, Stakers) + SumOver(moved, Stakers)
      BY <2>0, <2>2, SumPlus
    <2>5. SumOver(oldF, Stakers) = SumOver(newF, Stakers) + SumOver(moved, Stakers)
      BY <2>0, <2>2, SumPlus
    <2> QED  BY <2>1, <2>3, <2>4, <2>5
  <1>7. ASSUME NEW t \in Tranches
        PROVE  /\ z.tranche[t] \in TrancheState
               /\ z.tranche[t].total_shares = b.tranche[t].total_shares
               /\ z.tranche[t].total_assets = b.tranche[t].total_assets
               /\ z.tranche[t].mature_shares = b.tranche[t].mature_shares + LotShares(due, t)
               /\ z.tranche[t].mature_assets = b.tranche[t].mature_assets + LotPrincipal(due, t)
    <2>1. b.tranche[t] \in TrancheState
      BY <1>0
    <2>2. b.tranche[t].mature_shares + LotShares(due, t) \in Nat
          /\ b.tranche[t].mature_assets + LotPrincipal(due, t) \in Nat
      BY <1>3, <2>1 DEF TrancheState
    <2>3. z.tranche[t] = [b.tranche[t] EXCEPT !.mature_shares = @ + LotShares(due, t),
                                              !.mature_assets = @ + LotPrincipal(due, t)]
      BY <1>2
    <2> QED  BY <2>1, <2>2, <2>3 DEF TrancheState
  <1>8. ASSUME NEW t \in Tranches
        PROVE  TrancheExact(z.tranche[t], SharesIn(z.shares, t, "mature"),
                            SharesIn(z.shares, t, "immature"), LotPrincipal(z.lots, t))
    <2>1. TrancheExact(b.tranche[t], SharesIn(b.shares, t, "mature"),
                       SharesIn(b.shares, t, "immature"), LotPrincipal(b.lots, t))
      BY DEF BookExact
    <2>2. /\ SharesIn(b.shares, t, "mature") \in Nat
      BY <1>0, SharesNat DEF Ages
    <2>3. /\ SharesIn(z.shares, t, "immature") \in Nat
      BY <1>5, SharesNat DEF Ages
    <2>4. b.tranche[t].mature_assets \in Nat
      BY <1>0, BookParts
    <2>5. /\ LotShares(due, t) \in Nat /\ LotPrincipal(due, t) \in Nat /\ LotPrincipal(rest, t) \in Nat
          /\ z.lots = rest
      BY <1>2, <1>3
    <2>6. /\ z.tranche[t].mature_shares = SharesIn(z.shares, t, "mature")
          /\ z.tranche[t].total_shares
               = SharesIn(z.shares, t, "mature") + SharesIn(z.shares, t, "immature")
      BY <1>6, <1>7, <2>1, <2>2, <2>3, <2>5 DEF TrancheExact
    <2>7. z.tranche[t].total_assets = z.tranche[t].mature_assets + LotPrincipal(rest, t)
      BY <1>3, <1>7, <2>1, <2>4, <2>5 DEF TrancheExact
    <2>8. SharesIn(z.shares, t, "mature") = 0 => z.tranche[t].mature_assets = 0
      BY <1>3, <1>6, <1>7, <2>1, <2>2, <2>4, <2>5 DEF TrancheExact
    <2> QED  BY <2>5, <2>6, <2>7, <2>8 DEF TrancheExact
  <1>9. BookExact(z)
    <2>1. z.tranche \in [Tranches -> TrancheState]
      BY <1>2, <1>7
    <2>2. z \in CapitalBook
      BY <1>1, <1>2, <1>5, <2>1 DEF CapitalBook
    <2> QED  BY <1>2, <1>4, <1>8, <2>2 DEF BookExact
  <1>10. ASSUME NEW t \in Tranches, z.lots = b.lots
         PROVE  LotShares(due, t) = 0 /\ LotPrincipal(due, t) = 0
    <2>1. \A i \in LotIds : due[i] = None
      <3> SUFFICES ASSUME NEW i \in LotIds  PROVE due[i] = None
        OBVIOUS
      <3>1. rest[i] = b.lots[i]
        BY <1>2, <1>10
      <3> HIDE <1>2
      <3> QED  BY <1>1, <3>1
    <2>2. \A i \in LotIds : SharesAt(due, t)[i] = 0
      BY <2>1 DEF SharesAt
    <2>3. LotShares(due, t) = SumOver(SharesAt(due, t), LotIds) /\ IsFiniteSet(LotIds)
      BY <1>1, LotSums
    <2>4. LotShares(due, t) = 0
      BY <2>2, <2>3, SumZero
    <2> QED  BY <1>3, <2>4
  <1>11. ASSUME NEW t \in Tranches
         PROVE  /\ z.tranche[t].mature_shares >= b.tranche[t].mature_shares
                /\ z.lots = b.lots => /\ z.tranche[t].mature_shares = b.tranche[t].mature_shares
                                      /\ z.tranche[t].mature_assets = b.tranche[t].mature_assets
    <2>1. b.tranche[t].mature_shares \in Nat /\ b.tranche[t].mature_assets \in Nat
      BY <1>0, BookParts
    <2> QED  BY <1>3, <1>7, <1>10, <2>1
  <1> QED  BY <1>7, <1>9, <1>11 DEF z

\* The book with a deposit added.
WithDeposit(b, s, t, amount, minted, due, k) ==
  [b EXCEPT !.shares[s][t]["immature"] = @ + minted,
            !.tranche[t].total_shares = @ + minted,
            !.tranche[t].total_assets = @ + amount,
            !.lots[k] = [staker |-> s, tranche |-> t, shares |-> minted,
                         principal |-> amount, matures_at |-> due]]

\* A deposit adds its shares and its principal to one staker, one tranche and the lots.
LEMMA Deposited ==
  ASSUME NEW b, BookExact(b), NEW s \in Stakers, NEW t \in Tranches, NEW amount \in StakeAmounts,
         NEW minted \in Nat \ {0}, NEW due \in Nat, NEW k \in LotIds, b.lots[k] = None
  PROVE  LET z == WithDeposit(b, s, t, amount, minted, due, k)
         IN /\ BookExact(z)
            /\ z.tranche[t].total_shares = b.tranche[t].total_shares + minted
            /\ z.tranche[t].total_assets = b.tranche[t].total_assets + amount
            /\ z.tranche[t].mature_shares = b.tranche[t].mature_shares
            /\ z.tranche[t].mature_assets = b.tranche[t].mature_assets
            /\ \A u \in Tranches \ {t} : z.tranche[u] = b.tranche[u]
  <1> DEFINE lot == [staker |-> s, tranche |-> t, shares |-> minted, principal |-> amount,
                     matures_at |-> due]
             z == [b EXCEPT !.shares[s][t]["immature"] = @ + minted,
                            !.tranche[t].total_shares = @ + minted,
                            !.tranche[t].total_assets = @ + amount,
                            !.lots[k] = lot]
  <1>0. /\ b \in CapitalBook /\ b.lots \in LotBook /\ b.shares \in ShareBook
        /\ b.tranche \in [Tranches -> TrancheState]
        /\ b.tranche[t] \in TrancheState /\ b.tranche[t].total_shares \in Nat
        /\ b.tranche[t].total_assets \in Nat /\ amount \in Nat /\ "immature" \in Ages
        /\ "mature" \in Ages /\ "mature" # "immature"
    BY BookParts, BackstopConstants DEF BookExact, Ages
  <1>1. lot \in DepositLot
    BY DEF DepositLot
  <1>2. /\ z.shares = [b.shares EXCEPT ![s][t]["immature"] = @ + minted]
        /\ z.lots = [b.lots EXCEPT ![k] = lot]
        /\ z.tranche = [b.tranche EXCEPT ![t].total_shares = @ + minted,
                                         ![t].total_assets = @ + amount]
    <2>1. z.shares = [b.shares EXCEPT ![s][t]["immature"] = @ + minted]
      BY <1>0 DEF CapitalBook
    <2>2. z.lots = [b.lots EXCEPT ![k] = lot]
      BY <1>0 DEF CapitalBook
    <2>3. z.tranche = [b.tranche EXCEPT ![t].total_shares = @ + minted,
                                         ![t].total_assets = @ + amount]
      BY <1>0 DEF CapitalBook
    <2> QED  BY <2>1, <2>2, <2>3
  <1>3. b.shares[s][t]["immature"] \in Nat
    BY <1>0, SharesNat
  <1> HIDE DEF z, lot
  <1>4. /\ z.shares \in ShareBook
        /\ z.shares[s][t]["immature"] = b.shares[s][t]["immature"] + minted
        /\ \A x \in Stakers : \A u \in Tranches : \A n \in Ages :
             (x # s \/ u # t \/ n # "immature") => z.shares[x][u][n] = b.shares[x][u][n]
    <2>1. b.shares[s][t]["immature"] + minted \in Nat
      BY <1>3
    <2>2. z.shares = [b.shares EXCEPT ![s][t]["immature"] = b.shares[s][t]["immature"] + minted]
      BY <1>0, <1>2 DEF ShareBook
    <2>3. PICK old, v : old = b.shares /\ v = b.shares[s][t]["immature"] + minted
      OBVIOUS
    <2>4. old \in ShareBook /\ v \in Nat /\ z.shares = [old EXCEPT ![s][t]["immature"] = v]
      BY <1>0, <2>1, <2>2, <2>3
    <2> HIDE <2>2
    <2>5. /\ z.shares \in ShareBook /\ z.shares[s][t]["immature"] = v
          /\ \A x \in Stakers : \A u \in Tranches : \A n \in Ages :
               (x # s \/ u # t \/ n # "immature") => z.shares[x][u][n] = old[x][u][n]
      BY <1>0, <2>4 DEF ShareBook
    <2> QED  BY <2>3, <2>5
  <1>5. /\ z.tranche[t] \in TrancheState
        /\ z.tranche[t].total_shares = b.tranche[t].total_shares + minted
        /\ z.tranche[t].total_assets = b.tranche[t].total_assets + amount
        /\ z.tranche[t].mature_shares = b.tranche[t].mature_shares
        /\ z.tranche[t].mature_assets = b.tranche[t].mature_assets
    <2>1. z.tranche[t] = [b.tranche[t] EXCEPT !.total_shares = @ + minted, !.total_assets = @ + amount]
      BY <1>0, <1>2
    <2>2. b.tranche[t].total_shares + minted \in Nat /\ b.tranche[t].total_assets + amount \in Nat
      BY <1>0
    <2> QED  BY <1>0, <2>1, <2>2 DEF TrancheState
  <1>6. /\ \A u \in Tranches \ {t} : z.tranche[u] = b.tranche[u]
        /\ z.tranche \in [Tranches -> TrancheState]
    <2>1. \A u \in Tranches \ {t} : z.tranche[u] = b.tranche[u]
      BY <1>0, <1>2
    <2>2. \A u \in Tranches : z.tranche[u] \in TrancheState
      BY <1>0, <1>5, <2>1
    <2> QED  BY <1>0, <1>2, <2>1, <2>2
  <1>7. /\ z.lots \in LotBook
        /\ LotPrincipal(z.lots, t) = LotPrincipal(b.lots, t) + amount
        /\ \A u \in Tranches \ {t} : LotPrincipal(z.lots, u) = LotPrincipal(b.lots, u)
        /\ LotSharesOf(z.lots, s, t) = LotSharesOf(b.lots, s, t) + minted
        /\ \A x \in Stakers : \A u \in Tranches :
             (x # s \/ u # t) => LotSharesOf(z.lots, x, u) = LotSharesOf(b.lots, x, u)
    <2>1. ASSUME NEW x \in Stakers, NEW u \in Tranches
          PROVE  /\ z.lots \in LotBook
                 /\ LotPrincipal(z.lots, u) = LotPrincipal(b.lots, u) + (IF u = t THEN amount ELSE 0)
                 /\ LotSharesOf(z.lots, x, u) = LotSharesOf(b.lots, x, u)
                      + (IF u = t /\ x = s THEN minted ELSE 0)
                 /\ LotPrincipal(b.lots, u) \in Nat /\ LotSharesOf(b.lots, x, u) \in Nat
      <3>1. lot.tranche = t /\ lot.staker = s /\ lot.principal = amount /\ lot.shares = minted
        BY DEF lot
      <3>2. LotPrincipal(b.lots, u) \in Nat /\ LotSharesOf(b.lots, x, u) \in Nat
        BY <1>0, LotSums
      <3> QED  BY <1>0, <1>1, <1>2, <3>1, <3>2, LotAdded
    <2> QED  BY <2>1
  <1>8. /\ SharesIn(z.shares, t, "immature") = SharesIn(b.shares, t, "immature") + minted
        /\ SharesIn(z.shares, t, "mature") = SharesIn(b.shares, t, "mature")
        /\ \A u \in Tranches \ {t} : \A n \in Ages : SharesIn(z.shares, u, n) = SharesIn(b.shares, u, n)
    <2>1. SharesIn(b.shares, t, "immature") \in Nat
      BY <1>0, SharesNat
    <2>2. /\ SharesIn(z.shares, t, "immature") = SharesIn(b.shares, t, "immature")
               - b.shares[s][t]["immature"] + z.shares[s][t]["immature"]
          /\ \A u \in Tranches : \A n \in Ages :
              (u # t \/ n # "immature") => SharesIn(z.shares, u, n) = SharesIn(b.shares, u, n)
      <3>1. PICK old, new, m : old = b.shares /\ new = z.shares /\ m = "immature"
        OBVIOUS
      <3>2. /\ old \in ShareBook /\ new \in ShareBook /\ m \in Ages
            /\ \A x \in Stakers : \A u \in Tranches : \A n \in Ages :
                (x # s \/ u # t \/ n # m) => new[x][u][n] = old[x][u][n]
        BY <1>0, <1>4, <3>1
      <3>3. /\ SharesIn(new, t, m) = SharesIn(old, t, m) - old[s][t][m] + new[s][t][m]
            /\ \A u \in Tranches : \A n \in Ages :
                 (u # t \/ n # m) => SharesIn(new, u, n) = SharesIn(old, u, n)
        BY <3>2, SharesMoved
      <3> QED  BY <3>1, <3>3
    <2> QED  BY <1>0, <1>3, <1>4, <2>1, <2>2
  <1>9. ASSUME NEW u \in Tranches
        PROVE  TrancheExact(z.tranche[u], SharesIn(z.shares, u, "mature"),
                            SharesIn(z.shares, u, "immature"), LotPrincipal(z.lots, u))
    <2>1. TrancheExact(b.tranche[u], SharesIn(b.shares, u, "mature"),
                       SharesIn(b.shares, u, "immature"), LotPrincipal(b.lots, u))
      BY DEF BookExact
    <2>2. CASE u # t
      BY <1>0, <1>6, <1>7, <1>8, <2>1, <2>2
    <2>3. CASE u = t
      <3>1. /\ SharesIn(b.shares, t, "mature") \in Nat /\ SharesIn(b.shares, t, "immature") \in Nat
        BY <1>0, SharesNat
      <3>2. LotPrincipal(b.lots, t) \in Nat /\ b.tranche[t].mature_assets \in Nat
        BY <1>0, LotSums, BookParts
      <3> QED  BY <1>0, <1>5, <1>7, <1>8, <2>1, <2>3, <3>1, <3>2 DEF TrancheExact
    <2> QED  BY <2>2, <2>3
  <1>10. BookExact(z)
    <2>1. z \in CapitalBook
      BY <1>0, <1>4, <1>6, <1>7 DEF z, CapitalBook
    <2>2. ASSUME NEW x \in Stakers, NEW u \in Tranches
          PROVE  z.shares[x][u]["immature"] = LotSharesOf(z.lots, x, u)
      <3>1. b.shares[x][u]["immature"] = LotSharesOf(b.lots, x, u)
        BY DEF BookExact
      <3>2. CASE x = s /\ u = t
        BY <1>4, <1>7, <3>1, <3>2
      <3>3. CASE x # s \/ u # t
        BY <1>0, <1>4, <1>7, <3>1, <3>3
      <3> QED  BY <3>2, <3>3
    <2> QED  BY <1>9, <2>1, <2>2 DEF BookExact
  <1> QED  BY <1>5, <1>6, <1>10 DEF z, lot, WithDeposit

\* The book with a withdrawal taken out.
WithWithdrawal(b, s, t, shares, q) ==
  [b EXCEPT !.shares[s][t]["mature"] = @ - shares,
            !.tranche[t] = [total_shares |-> @.total_shares - shares,
                            total_assets |-> @.total_assets - q,
                            mature_shares |-> @.mature_shares - shares,
                            mature_assets |-> @.mature_assets - q]]

\* A withdrawal takes mature shares and mature assets from one staker and one tranche; whoever
\* takes the last mature shares takes the last mature assets.
LEMMA Withdrawn ==
  ASSUME NEW b, BookExact(b), NEW s \in Stakers, NEW t \in Tranches,
         NEW shares \in Nat \ {0}, NEW q \in Nat, shares <= b.shares[s][t]["mature"],
         q <= b.tranche[t].mature_assets,
         shares = b.tranche[t].mature_shares => q = b.tranche[t].mature_assets
  PROVE  LET z == WithWithdrawal(b, s, t, shares, q)
         IN /\ BookExact(z) /\ z.lots = b.lots
            /\ z.tranche[t].total_shares = b.tranche[t].total_shares - shares
            /\ z.tranche[t].total_assets = b.tranche[t].total_assets - q
            /\ z.tranche[t].mature_shares = b.tranche[t].mature_shares - shares
            /\ z.tranche[t].mature_assets = b.tranche[t].mature_assets - q
            /\ \A u \in Tranches \ {t} : z.tranche[u] = b.tranche[u]
  <1> DEFINE z == [b EXCEPT !.shares[s][t]["mature"] = @ - shares,
                            !.tranche[t] = [total_shares |-> @.total_shares - shares,
                                            total_assets |-> @.total_assets - q,
                                            mature_shares |-> @.mature_shares - shares,
                                            mature_assets |-> @.mature_assets - q]]
  <1>0. /\ b \in CapitalBook /\ b.lots \in LotBook /\ b.shares \in ShareBook
        /\ b.tranche \in [Tranches -> TrancheState]
        /\ b.tranche[t] \in TrancheState /\ b.tranche[t].total_shares \in Nat
        /\ b.tranche[t].total_assets \in Nat /\ "immature" \in Ages
        /\ b.tranche[t].mature_shares \in Nat /\ b.tranche[t].mature_assets \in Nat
        /\ "mature" \in Ages /\ "mature" # "immature"
    BY BookParts DEF BookExact, Ages
  <1>1. /\ TrancheExact(b.tranche[t], SharesIn(b.shares, t, "mature"),
                        SharesIn(b.shares, t, "immature"), LotPrincipal(b.lots, t))
        /\ SharesIn(b.shares, t, "mature") \in Nat /\ SharesIn(b.shares, t, "immature") \in Nat
        /\ LotPrincipal(b.lots, t) \in Nat
    <2>1. SharesIn(b.shares, t, "mature") \in Nat /\ SharesIn(b.shares, t, "immature") \in Nat
      BY <1>0, SharesNat
    <2>2. LotPrincipal(b.lots, t) \in Nat
      BY <1>0, LotSums
    <2> QED  BY <2>1, <2>2 DEF BookExact
  <1>2. /\ z.shares = [b.shares EXCEPT ![s][t]["mature"] = @ - shares]
        /\ z.lots = b.lots
        /\ z.tranche = [b.tranche EXCEPT ![t] = [total_shares |-> @.total_shares - shares,
                                                 total_assets |-> @.total_assets - q,
                                                 mature_shares |-> @.mature_shares - shares,
                                                 mature_assets |-> @.mature_assets - q]]
    <2>1. z.shares = [b.shares EXCEPT ![s][t]["mature"] = @ - shares]
      BY <1>0 DEF CapitalBook
    <2>2. z.lots = b.lots
      BY <1>0 DEF CapitalBook
    <2>3. z.tranche = [b.tranche EXCEPT ![t] = [total_shares |-> @.total_shares - shares,
                                                 total_assets |-> @.total_assets - q,
                                                 mature_shares |-> @.mature_shares - shares,
                                                 mature_assets |-> @.mature_assets - q]]
      BY <1>0 DEF CapitalBook
    <2> QED  BY <2>1, <2>2, <2>3
  <1>3. /\ b.shares[s][t]["mature"] \in Nat
        /\ b.shares[s][t]["mature"] <= SharesIn(b.shares, t, "mature")
    BY <1>0, SharesNat
  <1> HIDE DEF z
  <1>4. /\ z.shares \in ShareBook
        /\ z.shares[s][t]["mature"] = b.shares[s][t]["mature"] - shares
        /\ \A x \in Stakers : \A u \in Tranches : \A n \in Ages :
             (x # s \/ u # t \/ n # "mature") => z.shares[x][u][n] = b.shares[x][u][n]
    <2>1. b.shares[s][t]["mature"] - shares \in Nat
      BY <1>3
    <2>2. z.shares = [b.shares EXCEPT ![s][t]["mature"] = b.shares[s][t]["mature"] - shares]
      BY <1>0, <1>2 DEF ShareBook
    <2>3. PICK old, v : old = b.shares /\ v = b.shares[s][t]["mature"] - shares
      OBVIOUS
    <2>4. old \in ShareBook /\ v \in Nat /\ z.shares = [old EXCEPT ![s][t]["mature"] = v]
      BY <1>0, <2>1, <2>2, <2>3
    <2> HIDE <2>2
    <2>5. /\ z.shares \in ShareBook /\ z.shares[s][t]["mature"] = v
          /\ \A x \in Stakers : \A u \in Tranches : \A n \in Ages :
               (x # s \/ u # t \/ n # "mature") => z.shares[x][u][n] = old[x][u][n]
      BY <1>0, <2>4 DEF ShareBook
    <2> QED  BY <2>3, <2>5
  <1>5. /\ z.tranche[t] \in TrancheState
        /\ z.tranche[t].total_shares = b.tranche[t].total_shares - shares
        /\ z.tranche[t].total_assets = b.tranche[t].total_assets - q
        /\ z.tranche[t].mature_shares = b.tranche[t].mature_shares - shares
        /\ z.tranche[t].mature_assets = b.tranche[t].mature_assets - q
    <2>1. z.tranche[t] = [total_shares |-> b.tranche[t].total_shares - shares,
                          total_assets |-> b.tranche[t].total_assets - q,
                          mature_shares |-> b.tranche[t].mature_shares - shares,
                          mature_assets |-> b.tranche[t].mature_assets - q]
      BY <1>0, <1>2
    <2>2. /\ b.tranche[t].total_shares - shares \in Nat /\ b.tranche[t].total_assets - q \in Nat
          /\ b.tranche[t].mature_shares - shares \in Nat /\ b.tranche[t].mature_assets - q \in Nat
      BY <1>0, <1>1, <1>3 DEF TrancheExact
    <2> QED  BY <2>1, <2>2 DEF TrancheState
  <1>6. /\ \A u \in Tranches \ {t} : z.tranche[u] = b.tranche[u]
        /\ z.tranche \in [Tranches -> TrancheState]
    <2>1. \A u \in Tranches \ {t} : z.tranche[u] = b.tranche[u]
      BY <1>0, <1>2
    <2>2. \A u \in Tranches : z.tranche[u] \in TrancheState
      BY <1>0, <1>5, <2>1
    <2> QED  BY <1>0, <1>2, <2>1, <2>2
  <1>8. /\ SharesIn(z.shares, t, "mature") = SharesIn(b.shares, t, "mature") - shares
        /\ SharesIn(z.shares, t, "immature") = SharesIn(b.shares, t, "immature")
        /\ \A u \in Tranches \ {t} : \A n \in Ages : SharesIn(z.shares, u, n) = SharesIn(b.shares, u, n)
    <2>1. PICK old, new, m : old = b.shares /\ new = z.shares /\ m = "mature"
      OBVIOUS
    <2>2. /\ old \in ShareBook /\ new \in ShareBook /\ m \in Ages
          /\ \A x \in Stakers : \A u \in Tranches : \A n \in Ages :
              (x # s \/ u # t \/ n # m) => new[x][u][n] = old[x][u][n]
      BY <1>0, <1>4, <2>1
    <2>3. /\ SharesIn(new, t, m) = SharesIn(old, t, m) - old[s][t][m] + new[s][t][m]
          /\ \A u \in Tranches : \A n \in Ages :
               (u # t \/ n # m) => SharesIn(new, u, n) = SharesIn(old, u, n)
      BY <2>2, SharesMoved
    <2> QED  BY <1>0, <1>1, <1>3, <1>4, <2>1, <2>3
  <1>9. ASSUME NEW u \in Tranches
        PROVE  TrancheExact(z.tranche[u], SharesIn(z.shares, u, "mature"),
                            SharesIn(z.shares, u, "immature"), LotPrincipal(z.lots, u))
    <2>1. TrancheExact(b.tranche[u], SharesIn(b.shares, u, "mature"),
                       SharesIn(b.shares, u, "immature"), LotPrincipal(b.lots, u))
      BY DEF BookExact
    <2>2. CASE u # t
      BY <1>0, <1>2, <1>6, <1>8, <2>1, <2>2
    <2>3. CASE u = t
      <3>1. /\ z.tranche[t].mature_shares = SharesIn(z.shares, t, "mature")
            /\ z.tranche[t].total_shares
                 = SharesIn(z.shares, t, "mature") + SharesIn(z.shares, t, "immature")
        BY <1>0, <1>1, <1>5, <1>8 DEF TrancheExact
      <3>2. z.tranche[t].total_assets = z.tranche[t].mature_assets + LotPrincipal(z.lots, t)
        BY <1>0, <1>1, <1>2, <1>5 DEF TrancheExact
      <3>3. SharesIn(z.shares, t, "mature") = 0 => z.tranche[t].mature_assets = 0
        BY <1>0, <1>1, <1>5, <1>8 DEF TrancheExact
      <3> QED  BY <2>3, <3>1, <3>2, <3>3 DEF TrancheExact
    <2> QED  BY <2>2, <2>3
  <1>10. BookExact(z)
    <2>1. z \in CapitalBook
      BY <1>0, <1>2, <1>4, <1>6 DEF z, CapitalBook
    <2>2. ASSUME NEW x \in Stakers, NEW u \in Tranches
          PROVE  z.shares[x][u]["immature"] = LotSharesOf(z.lots, x, u)
      <3>1. b.shares[x][u]["immature"] = LotSharesOf(b.lots, x, u)
        BY DEF BookExact
      <3> QED  BY <1>0, <1>2, <1>4, <3>1
    <2> QED  BY <1>9, <2>1, <2>2 DEF BookExact
  <1> QED  BY <1>2, <1>5, <1>6, <1>10 DEF z, WithWithdrawal

\* A premium or a loss moves assets only, and none where no share is mature.
OnlyAssetsMoved(b, z, d) ==
  /\ z \in CapitalBook /\ z.shares = b.shares /\ z.lots = b.lots
  /\ \A t \in Tranches : /\ d[t] \in Int
                         /\ b.tranche[t].mature_shares = 0 => d[t] = 0
                         /\ z.tranche[t].total_shares = b.tranche[t].total_shares
                         /\ z.tranche[t].mature_shares = b.tranche[t].mature_shares
                         /\ z.tranche[t].total_assets = b.tranche[t].total_assets + d[t]
                         /\ z.tranche[t].mature_assets = b.tranche[t].mature_assets + d[t]

\* Moving assets so keeps the book exact.
LEMMA AssetsMoved ==
  ASSUME NEW b, BookExact(b), NEW z, NEW d, OnlyAssetsMoved(b, z, d)
  PROVE  BookExact(z)
  <1>1. ASSUME NEW u \in Tranches
        PROVE  TrancheExact(z.tranche[u], SharesIn(z.shares, u, "mature"),
                            SharesIn(z.shares, u, "immature"), LotPrincipal(z.lots, u))
    <2>1. TrancheExact(b.tranche[u], SharesIn(b.shares, u, "mature"),
                       SharesIn(b.shares, u, "immature"), LotPrincipal(b.lots, u))
      BY DEF BookExact
    <2>2. d[u] \in Int /\ b.tranche[u].mature_assets \in Nat /\ LotPrincipal(b.lots, u) \in Nat
      BY BookParts, LotSums DEF BookExact, OnlyAssetsMoved
    <2>3. /\ z.shares = b.shares /\ z.lots = b.lots
          /\ z.tranche[u].total_shares = b.tranche[u].total_shares
          /\ z.tranche[u].mature_shares = b.tranche[u].mature_shares
          /\ z.tranche[u].total_assets = b.tranche[u].total_assets + d[u]
          /\ z.tranche[u].mature_assets = b.tranche[u].mature_assets + d[u]
          /\ b.tranche[u].mature_shares = 0 => d[u] = 0
      BY DEF OnlyAssetsMoved
    <2>4. z.tranche[u].total_assets = z.tranche[u].mature_assets + LotPrincipal(z.lots, u)
      BY <2>1, <2>2, <2>3 DEF TrancheExact
    <2>5. SharesIn(z.shares, u, "mature") = 0 => z.tranche[u].mature_assets = 0
      BY <2>1, <2>2, <2>3 DEF TrancheExact
    <2> QED  BY <2>1, <2>3, <2>4, <2>5 DEF TrancheExact
  <1> QED  BY <1>1 DEF BookExact, OnlyAssetsMoved

\* A withdrawal is quoted at no more than its part of the mature assets, and the last one at
\* all of them.
LEMMA QuoteFacts ==
  ASSUME NEW sh \in Nat \ {0}, NEW all \in Nat, NEW assets \in Nat, sh <= all
  PROVE  LET q == quote_withdrawal(sh, all, assets)
         IN q \in Nat /\ q <= assets /\ q * all <= sh * assets /\ (sh = all => q = assets)
  <1> DEFINE q == quote_withdrawal(sh, all, assets)
             p == sh * assets
  <1>1. p \in Nat /\ all \in Nat \ {0} /\ q = p \div all
    BY DEF quote_withdrawal
  <1> HIDE DEF q, p
  <1>2. q \in Nat /\ q * all <= p /\ p < (q + 1) * all
    BY <1>1, RoundedDown
  <1>3. p = sh * assets /\ p <= assets * all
    <2>1. sh * assets <= all * assets
      BY Product
    <2>2. all * assets = assets * all
      OBVIOUS
    <2> QED  BY <2>1, <2>2 DEF p
  <1>4. q <= assets
    <2>1. q * all <= assets * all
      <3>1. q * all \in Nat /\ assets * all \in Nat
        BY <1>1, <1>2
      <3> QED  BY <1>1, <1>2, <1>3, <3>1
    <2> QED  BY <1>1, <1>2, <2>1, FactorDropped
  <1>5. ASSUME sh = all  PROVE q = assets
    <2>1. assets * all < (q + 1) * all
      <3>1. p = assets * all
        BY <1>3, <1>5
      <3> QED  BY <1>2, <3>1
    <2>2. assets < q + 1
      <3>1. q + 1 \in Nat
        BY <1>2
      <3> QED  BY <1>1, <2>1, <3>1, FactorDropped
    <2> QED  BY <1>2, <1>4, <2>2
  <1> QED  BY <1>2, <1>3, <1>4, <1>5 DEF q

\* A deposit is minted no more than its part of the shares.
LEMMA MintFacts ==
  ASSUME NEW amount \in Nat, NEW shares \in Nat, NEW assets \in Nat
  PROVE  LET m == calc_shares(amount, shares, assets)
         IN m \in Nat /\ (shares # 0 /\ assets # 0 => m * assets <= amount * shares)
  <1>1. amount * shares \in Nat
    OBVIOUS
  <1>2. CASE shares = 0 \/ assets = 0
    BY <1>2 DEF calc_shares
  <1>3. CASE shares # 0 /\ assets # 0
    BY <1>1, <1>3, RoundedDown DEF calc_shares
  <1> QED  BY <1>2, <1>3

\* What is cut from an amount is a part of it.
LEMMA CutFacts ==
  ASSUME NEW amount \in Nat, NEW bps \in 0 .. BpsDenom
  PROVE  split_bps(amount, bps) \in Nat /\ split_bps(amount, bps) <= amount
  <1> DEFINE p == amount * bps
             q == split_bps(amount, bps)
  <1>1. p \in Nat /\ BpsDenom \in Nat \ {0} /\ q = p \div BpsDenom
    BY BackstopConstants DEF split_bps
  <1>2. p <= amount * BpsDenom
    <2>1. bps * amount <= BpsDenom * amount
      BY <1>1, Product
    <2>2. bps * amount = amount * bps /\ BpsDenom * amount = amount * BpsDenom
      BY <1>1
    <2> QED  BY <2>1, <2>2
  <1> HIDE DEF q, p
  <1>3. q \in Nat /\ q * BpsDenom <= p
    BY <1>1, RoundedDown
  <1>4. q * BpsDenom <= amount * BpsDenom
    <2>1. q * BpsDenom \in Nat /\ amount * BpsDenom \in Nat
      BY <1>1, <1>3
    <2> QED  BY <1>1, <1>2, <1>3, <2>1
  <1>5. q <= amount
    BY <1>1, <1>3, <1>4, FactorDropped
  <1> QED  BY <1>3, <1>5 DEF q

\* A tranche without shares has no assets.
LEMMA EmptyTranche ==
  ASSUME NEW b, BookExact(b), NEW t \in Tranches, b.tranche[t].total_shares = 0
  PROVE  b.tranche[t].total_assets = 0
  <1>0. b.lots \in LotBook /\ b.shares \in ShareBook /\ "mature" \in Ages /\ "immature" \in Ages
    BY BookParts DEF BookExact, Ages
  <1>1. SharesIn(b.shares, t, "mature") \in Nat /\ SharesIn(b.shares, t, "immature") \in Nat
    BY <1>0, SharesNat
  <1>2. TrancheExact(b.tranche[t], SharesIn(b.shares, t, "mature"),
                     SharesIn(b.shares, t, "immature"), LotPrincipal(b.lots, t))
    BY DEF BookExact
  <1>3. SharesIn(b.shares, t, "mature") = 0 /\ SharesIn(b.shares, t, "immature") = 0
    BY <1>1, <1>2 DEF TrancheExact
  <1>4. SharesIn(b.shares, t, "immature") = LotShares(b.lots, t)
    <2> DEFINE f == [s \in Stakers |-> b.shares[s][t]["immature"]]
               g == [s \in Stakers |-> LotSharesOf(b.lots, s, t)]
    <2>1. IsFiniteSet(Stakers) /\ \A s \in Stakers : f[s] = g[s]
      BY BackstopConstants DEF BookExact
    <2>2. SharesIn(b.shares, t, "immature") = SumOver(f, Stakers)
      BY DEF SharesIn
    <2>3. SumOver(g, Stakers) = LotShares(b.lots, t)
      BY <1>0, LotsByStaker
    <2> HIDE DEF f, g
    <2> QED  BY <2>1, <2>2, <2>3, SumSame
  <1>5. LotPrincipal(b.lots, t) = 0
    BY <1>0, <1>3, <1>4, NoSharesNoPrincipal
  <1> QED  BY <1>2, <1>3, <1>5 DEF TrancheExact

\* The step takes no value from the other shares of a tranche, as StakersNotDiluted says.
Undiluted(t) ==
  LET a == book.tranche[t]
      z == book'.tranche[t]
  IN /\ z.total_shares > a.total_shares =>
          z.total_assets * a.total_shares >= a.total_assets * z.total_shares
     /\ (/\ z.mature_shares < a.mature_shares \/ total'.premiums > total.premiums
         /\ book'.lots = book.lots) =>
          z.mature_assets * a.mature_shares >= a.mature_assets * z.mature_shares

\* A step that gives no tranche new shares, takes no mature ones and pays no premium dilutes nobody.
LEMMA NothingDiluted ==
  ASSUME NEW t \in Tranches, book \in CapitalBook, book' \in CapitalBook,
         book'.tranche[t].total_shares <= book.tranche[t].total_shares,
         book'.tranche[t].mature_shares >= book.tranche[t].mature_shares,
         total' \in Totals, total \in Totals, total'.premiums = total.premiums
  PROVE  Undiluted(t)
  <1>1. /\ book'.tranche[t].total_shares \in Nat /\ book'.tranche[t].mature_shares \in Nat
    BY BookParts
  <1>2. /\ book.tranche[t].total_shares \in Nat /\ book.tranche[t].mature_shares \in Nat
    BY BookParts
  <1>3. total.premiums \in Nat
    BY DEF Totals
  <1> QED  BY <1>1, <1>2, <1>3 DEF Undiluted

\* The totals and the amounts of the two tranches.
LEMMA BackstopAmounts ==
  ASSUME BackstopInv
  PROVE  /\ now \in Nat /\ lockup \in Nat /\ juniorBps \in 0 .. BpsDenom
         /\ book \in CapitalBook /\ BookExact(book)
         /\ total.shares \in Nat /\ total.capital \in Int /\ total.drawdowns \in Nat
         /\ total.premiums \in Nat /\ reserve \in Nat
         /\ Tranches = {"Junior", "Senior"} /\ "Junior" # "Senior"
         /\ \A t \in Tranches : /\ book.tranche[t].total_shares \in Nat
                                /\ book.tranche[t].total_assets \in Nat
                                /\ book.tranche[t].mature_shares \in Nat
                                /\ book.tranche[t].mature_assets \in Nat
  <1>1. book \in CapitalBook /\ BookExact(book)
    BY DEF BackstopInv, BookExact
  <1> QED  BY <1>1, BookParts DEF BackstopInv, Totals, Tranches

\* The book after what matured has been moved.
LEMMA Synced ==
  ASSUME BackstopInv, NEW b, b = _sync_matured(book)
  PROVE  /\ b \in CapitalBook /\ BookExact(b)
         /\ \A t \in Tranches :
              /\ b.tranche[t].total_shares = book.tranche[t].total_shares
              /\ b.tranche[t].total_assets = book.tranche[t].total_assets
              /\ b.tranche[t].mature_shares >= book.tranche[t].mature_shares
              /\ b.lots = book.lots =>
                   /\ b.tranche[t].mature_shares = book.tranche[t].mature_shares
                   /\ b.tranche[t].mature_assets = book.tranche[t].mature_assets
              /\ b.tranche[t].total_shares \in Nat /\ b.tranche[t].total_assets \in Nat
              /\ b.tranche[t].mature_shares \in Nat /\ b.tranche[t].mature_assets \in Nat
  <1>1. now \in Nat /\ BookExact(book)
    BY DEF BackstopInv
  <1>2. /\ BookExact(b)
        /\ \A t \in Tranches :
              /\ b.tranche[t].total_shares = book.tranche[t].total_shares
              /\ b.tranche[t].total_assets = book.tranche[t].total_assets
              /\ b.tranche[t].mature_shares >= book.tranche[t].mature_shares
              /\ b.lots = book.lots =>
                   /\ b.tranche[t].mature_shares = book.tranche[t].mature_shares
                   /\ b.tranche[t].mature_assets = book.tranche[t].mature_assets
    BY <1>1, SyncExact
  <1>3. b \in CapitalBook
    BY <1>2 DEF BookExact
  <1> QED  BY <1>2, <1>3, BookParts

\* deposit_tranche: the minted shares are worth no more than the deposit.
LEMMA DepositKeeps ==
  ASSUME BackstopInv, NEW s \in Stakers, NEW t \in Tranches, NEW amount \in StakeAmounts,
         deposit_tranche(s, t, amount)
  PROVE  BackstopInv' /\ \A u \in Tranches : Undiluted(u)
  <1>0. amount \in Nat \ {0}
    BY BackstopConstants
  <1>1. PICK b, minted, k, due :
          /\ b = _sync_matured(book) /\ k = NewLot(b.lots) /\ due = now + lockup
          /\ minted = calc_shares(amount, b.tranche[t].total_shares, b.tranche[t].total_assets)
    OBVIOUS
  <1>2. /\ minted > 0 /\ FreeLots(b.lots) # {}
        /\ book' = WithDeposit(b, s, t, amount, minted, due, k)
        /\ total' = [total EXCEPT !.capital = @ + amount, !.shares = @ + minted]
        /\ reserve' = reserve + amount
        /\ UNCHANGED <<now, pendingLoss, lockup, juniorBps>>
    BY <1>1 DEF deposit_tranche, settings, WithDeposit
  <1>3. /\ b \in CapitalBook /\ BookExact(b)
        /\ \A u \in Tranches :
             /\ b.tranche[u].total_shares = book.tranche[u].total_shares
             /\ b.tranche[u].total_assets = book.tranche[u].total_assets
             /\ b.tranche[u].mature_shares >= book.tranche[u].mature_shares
             /\ b.tranche[u].total_shares \in Nat /\ b.tranche[u].total_assets \in Nat
             /\ b.tranche[u].mature_shares \in Nat
    BY <1>1, Synced
  <1>4. /\ minted \in Nat \ {0}
        /\ b.tranche[t].total_shares # 0 /\ b.tranche[t].total_assets # 0 =>
             minted * b.tranche[t].total_assets <= amount * b.tranche[t].total_shares
    BY <1>0, <1>1, <1>2, <1>3, MintFacts
  <1>5. k \in LotIds /\ b.lots[k] = None /\ due \in Nat
    <2>1. k \in FreeLots(b.lots)
      BY <1>1, <1>2 DEF NewLot
    <2> QED  BY <1>1, <2>1, BackstopAmounts DEF FreeLots
  <1>6. /\ BookExact(book')
        /\ book'.tranche[t].total_shares = b.tranche[t].total_shares + minted
        /\ book'.tranche[t].total_assets = b.tranche[t].total_assets + amount
        /\ book'.tranche[t].mature_shares = b.tranche[t].mature_shares
        /\ \A u \in Tranches \ {t} : book'.tranche[u] = b.tranche[u]
    BY <1>2, <1>3, <1>4, <1>5, Deposited
  <1>7. /\ total' \in Totals /\ total'.shares = total.shares + minted
        /\ total'.capital = total.capital + amount
        /\ total'.drawdowns = total.drawdowns /\ total'.premiums = total.premiums
    <2>1. total \in Totals
      BY DEF BackstopInv
    <2>2. total.shares + minted \in Nat /\ total.capital + amount \in Int
      BY <1>0, <1>4, BackstopAmounts
    <2> QED  BY <1>2, <2>1, <2>2 DEF Totals
  <1>8. BackstopInv'
    <2>1. total'.shares = book'.tranche["Junior"].total_shares + book'.tranche["Senior"].total_shares
      BY <1>3, <1>4, <1>6, <1>7, BackstopAmounts DEF BackstopInv
    <2>2. total'.capital + total'.drawdowns
             = book'.tranche["Junior"].total_assets + book'.tranche["Senior"].total_assets
      <3>1. /\ book'.tranche[t].total_assets = book.tranche[t].total_assets + amount
            /\ \A u \in Tranches \ {t} : book'.tranche[u].total_assets = book.tranche[u].total_assets
        BY <1>3, <1>6
      <3>2. total.capital + total.drawdowns
             = book.tranche["Junior"].total_assets + book.tranche["Senior"].total_assets
        BY DEF BackstopInv
      <3> QED  BY <1>0, <1>7, <3>1, <3>2, BackstopAmounts
    <2>3. reserve' \in Nat /\ total'.capital <= reserve'
      BY <1>0, <1>2, <1>7, BackstopAmounts DEF BackstopInv
    <2> QED  BY <1>2, <1>6, <1>7, <2>1, <2>2, <2>3 DEF BackstopInv
  <1>9. ASSUME NEW u \in Tranches  PROVE Undiluted(u)
    <2>0. total \in Totals /\ book \in CapitalBook /\ book' \in CapitalBook
      BY <1>6 DEF BackstopInv, BookExact
    <2>1. CASE u # t
      BY <1>3, <1>6, <1>7, <2>0, <2>1, NothingDiluted
    <2>2. CASE u = t
      <3>1. PICK A, S : A = book.tranche[t].total_assets /\ S = book.tranche[t].total_shares
        OBVIOUS
      <3>2. A \in Nat /\ S \in Nat /\ (S # 0 /\ A # 0 => minted * A <= amount * S)
        BY <1>3, <1>4, <3>1
      <3>3. S = 0 => A = 0
        BY <3>1, EmptyTranche DEF BackstopInv
      <3>4. (A + amount) * S >= A * (S + minted)
        <4>1. CASE A = 0
          BY <1>0, <1>4, <3>2, <4>1
        <4>2. CASE A # 0
          <5>1. minted * A <= amount * S
            BY <3>2, <3>3, <4>2
          <5>2. (A + amount) * S = A * S + amount * S /\ A * (S + minted) = A * S + minted * A
            BY <1>0, <1>4, <3>2
          <5>3. A * S \in Nat /\ amount * S \in Nat /\ minted * A \in Nat
            BY <1>0, <1>4, <3>2
          <5> QED  BY <5>1, <5>2, <5>3
        <4> QED  BY <4>1, <4>2
      <3>5. /\ book'.tranche[t].total_assets = A + amount /\ book'.tranche[t].total_shares = S + minted
            /\ ~ book'.tranche[t].mature_shares < book.tranche[t].mature_shares
            /\ ~ total'.premiums > total.premiums
        BY <1>3, <1>6, <1>7, <3>1, BackstopAmounts
      <3> QED  BY <2>2, <3>1, <3>4, <3>5 DEF Undiluted
    <2> QED  BY <2>1, <2>2
  <1> QED  BY <1>8, <1>9

\* withdraw_tranche: what is paid is worth no more than the shares given up.
LEMMA WithdrawKeeps ==
  ASSUME BackstopInv, NEW s \in Stakers, NEW t \in Tranches, NEW shares \in Nat \ {0},
         withdraw_tranche(s, t, shares)
  PROVE  BackstopInv' /\ \A u \in Tranches : Undiluted(u)
  <1>1. PICK b, q :
          /\ b = _sync_matured(book)
          /\ q = quote_withdrawal(shares, b.tranche[t].mature_shares, b.tranche[t].mature_assets)
    OBVIOUS
  <1>2. /\ shares <= b.shares[s][t]["mature"] /\ q <= total.capital
        /\ book' = WithWithdrawal(b, s, t, shares, q)
        /\ total' = [total EXCEPT !.capital = @ - q, !.shares = @ - shares]
        /\ reserve' = reserve - q
        /\ UNCHANGED <<now, pendingLoss, lockup, juniorBps>>
    BY <1>1 DEF withdraw_tranche, settings, WithWithdrawal
  <1>3. /\ b \in CapitalBook /\ BookExact(b)
        /\ \A u \in Tranches :
              /\ b.tranche[u].total_shares = book.tranche[u].total_shares
              /\ b.tranche[u].total_assets = book.tranche[u].total_assets
              /\ b.tranche[u].mature_shares >= book.tranche[u].mature_shares
              /\ b.lots = book.lots =>
                   /\ b.tranche[u].mature_shares = book.tranche[u].mature_shares
                   /\ b.tranche[u].mature_assets = book.tranche[u].mature_assets
              /\ b.tranche[u].total_shares \in Nat /\ b.tranche[u].total_assets \in Nat
              /\ b.tranche[u].mature_shares \in Nat /\ b.tranche[u].mature_assets \in Nat
    BY <1>1, Synced
  <1>4. /\ shares <= b.tranche[t].mature_shares
        /\ b.tranche[t].mature_shares <= b.tranche[t].total_shares
    <2>1. b.shares \in ShareBook /\ "mature" \in Ages /\ "immature" \in Ages
      BY <1>3, BookParts DEF Ages
    <2>2. SharesIn(b.shares, t, "mature") \in Nat /\ SharesIn(b.shares, t, "immature") \in Nat
          /\ b.shares[s][t]["mature"] \in Nat
          /\ b.shares[s][t]["mature"] <= SharesIn(b.shares, t, "mature")
      BY <2>1, SharesNat
    <2>3. TrancheExact(b.tranche[t], SharesIn(b.shares, t, "mature"),
                       SharesIn(b.shares, t, "immature"), LotPrincipal(b.lots, t))
      BY <1>3 DEF BookExact
    <2> QED  BY <1>2, <2>2, <2>3 DEF TrancheExact
  <1>5. /\ q \in Nat /\ q <= b.tranche[t].mature_assets
        /\ q * b.tranche[t].mature_shares <= shares * b.tranche[t].mature_assets
        /\ shares = b.tranche[t].mature_shares => q = b.tranche[t].mature_assets
    BY <1>1, <1>3, <1>4, QuoteFacts
  <1>6. /\ BookExact(book') /\ book'.lots = b.lots
        /\ book'.tranche[t].total_shares = b.tranche[t].total_shares - shares
        /\ book'.tranche[t].total_assets = b.tranche[t].total_assets - q
        /\ book'.tranche[t].mature_shares = b.tranche[t].mature_shares - shares
        /\ book'.tranche[t].mature_assets = b.tranche[t].mature_assets - q
        /\ \A u \in Tranches \ {t} : book'.tranche[u] = b.tranche[u]
    BY <1>2, <1>3, <1>5, Withdrawn
  <1>7. /\ total' \in Totals /\ total'.shares = total.shares - shares
        /\ total'.capital = total.capital - q
        /\ total'.drawdowns = total.drawdowns /\ total'.premiums = total.premiums
    <2>1. total \in Totals /\ shares <= total.shares
      <3>1. total.shares = book.tranche["Junior"].total_shares + book.tranche["Senior"].total_shares
        BY DEF BackstopInv
      <3>2. shares <= book.tranche[t].total_shares
        BY <1>3, <1>4
      <3> QED  BY <3>1, <3>2, BackstopAmounts DEF BackstopInv
    <2>2. total.shares - shares \in Nat /\ total.capital - q \in Int
      BY <1>2, <1>5, <2>1, BackstopAmounts
    <2> QED  BY <1>2, <2>1, <2>2 DEF Totals
  <1>8. BackstopInv'
    <2>0. /\ book'.tranche[t].total_assets = book.tranche[t].total_assets - q
          /\ book'.tranche[t].total_shares = book.tranche[t].total_shares - shares
          /\ \A u \in Tranches \ {t} :
               /\ book'.tranche[u].total_assets = book.tranche[u].total_assets
               /\ book'.tranche[u].total_shares = book.tranche[u].total_shares
      BY <1>3, <1>6
    <2>1. total'.shares = book'.tranche["Junior"].total_shares + book'.tranche["Senior"].total_shares
      <3>1. total.shares = book.tranche["Junior"].total_shares + book.tranche["Senior"].total_shares
        BY DEF BackstopInv
      <3> QED  BY <1>7, <2>0, <3>1, BackstopAmounts
    <2>2. total'.capital + total'.drawdowns
             = book'.tranche["Junior"].total_assets + book'.tranche["Senior"].total_assets
      <3>1. total.capital + total.drawdowns
             = book.tranche["Junior"].total_assets + book.tranche["Senior"].total_assets
        BY DEF BackstopInv
      <3> QED  BY <1>5, <1>7, <2>0, <3>1, BackstopAmounts
    <2>3. reserve' \in Nat /\ total'.capital <= reserve'
      BY <1>2, <1>5, <1>7, BackstopAmounts DEF BackstopInv
    <2> QED  BY <1>2, <1>6, <1>7, <2>1, <2>2, <2>3 DEF BackstopInv
  <1>9. ASSUME NEW u \in Tranches  PROVE Undiluted(u)
    <2>0. total \in Totals /\ book \in CapitalBook /\ book' \in CapitalBook
      BY <1>6 DEF BackstopInv, BookExact
    <2>1. CASE u # t
      BY <1>3, <1>6, <1>7, <2>0, <2>1, NothingDiluted
    <2>2. CASE u = t
      <3>1. ~ book'.tranche[t].total_shares > book.tranche[t].total_shares
        BY <1>3, <1>6
      <3>2. ASSUME book'.lots = book.lots
            PROVE  book'.tranche[t].mature_assets * book.tranche[t].mature_shares
                     >= book.tranche[t].mature_assets * book'.tranche[t].mature_shares
        <4>1. PICK A, S : A = book.tranche[t].mature_assets /\ S = book.tranche[t].mature_shares
          OBVIOUS
        <4>2. /\ A \in Nat /\ S \in Nat /\ q \in Nat /\ q * S <= shares * A
              /\ book'.tranche[t].mature_assets = A - q /\ book'.tranche[t].mature_shares = S - shares
          BY <1>3, <1>5, <1>6, <3>2, <4>1
        <4>3. (A - q) * S = A * S - q * S /\ A * (S - shares) = A * S - shares * A
          BY <4>2
        <4>4. A * S \in Int /\ q * S \in Int /\ shares * A \in Int
          BY <4>2
        <4>5. (A - q) * S >= A * (S - shares)
          BY <4>2, <4>3, <4>4
        <4> QED  BY <4>1, <4>2, <4>5
      <3> QED  BY <2>2, <3>1, <3>2 DEF Undiluted
    <2> QED  BY <2>1, <2>2
  <1> QED  BY <1>8, <1>9

\* A loss is taken from mature assets, junior first, and never more than there is.
LEMMA LossApplied ==
  ASSUME NEW b, BookExact(b), NEW amount \in Int
  PROVE  LET loss == _apply_loss(b, amount)
         IN /\ BookExact(loss.book) /\ loss.covered \in Nat
            /\ loss.covered <= amount \/ loss.covered = 0
            /\ \A t \in Tranches :
                 /\ loss.book.tranche[t].total_shares = b.tranche[t].total_shares
                 /\ loss.book.tranche[t].mature_shares = b.tranche[t].mature_shares
            /\ loss.book.tranche["Junior"].total_assets + loss.book.tranche["Senior"].total_assets
                 + loss.covered
                 = b.tranche["Junior"].total_assets + b.tranche["Senior"].total_assets
  <1>0. /\ b \in CapitalBook /\ "Junior" \in Tranches /\ "Senior" \in Tranches /\ "Junior" # "Senior"
        /\ b.tranche \in [Tranches -> TrancheState]
        /\ \A t \in Tranches : /\ b.tranche[t] \in TrancheState
                               /\ b.tranche[t].total_shares \in Nat /\ b.tranche[t].total_assets \in Nat
                               /\ b.tranche[t].mature_shares \in Nat
                               /\ b.tranche[t].mature_assets \in Nat
    BY BookParts DEF BookExact, Tranches
  <1> DEFINE J == b.tranche["Junior"].mature_assets
             S == b.tranche["Senior"].mature_assets
             wanted == IF amount > 0 THEN amount ELSE 0
             junior == Min({wanted, J})
             senior == Min({wanted - junior, S})
             taken == [t \in Tranches |-> IF t = "Junior" THEN junior ELSE senior]
             loss == _apply_loss(b, amount)
             z == loss.book
             T == [t \in Tranches |->
                    [b.tranche[t] EXCEPT !.total_assets = @ - taken[t], !.mature_assets = @ - taken[t]]]
  <1>1. /\ loss.covered = junior + senior
        /\ z = [b EXCEPT !.tranche = T]
    <2>1. loss.covered = junior + senior
      BY DEF _apply_loss
    <2>2. z = [b EXCEPT !.tranche = T]
      BY DEF _apply_loss
    <2> QED  BY <2>1, <2>2
  <1>2. J \in Nat /\ S \in Nat
    BY <1>0
  <1> HIDE DEF J, S, loss
  <1>a. wanted \in Nat /\ (wanted <= amount \/ wanted = 0)
    OBVIOUS
  <1> HIDE DEF wanted
  <1>3. junior \in Nat /\ junior <= wanted /\ junior <= J
    BY <1>a, <1>2, MinOfTwo
  <1> HIDE DEF junior
  <1>4. senior \in Nat /\ senior <= wanted - junior /\ senior <= S
    <2>1. wanted - junior \in Nat
      BY <1>a, <1>3
    <2> QED  BY <1>2, <2>1, MinOfTwo
  <1> HIDE DEF senior
  <1>5. ASSUME NEW t \in Tranches
        PROVE  taken[t] \in Nat /\ taken[t] <= b.tranche[t].mature_assets
    BY <1>3, <1>4 DEF J, S, Tranches
  <1>6. taken["Junior"] = junior /\ taken["Senior"] = senior
    BY <1>0
  <1> HIDE DEF taken, z
  <1>7. /\ z.shares = b.shares /\ z.lots = b.lots
        /\ z.tranche = [t \in Tranches |->
             [b.tranche[t] EXCEPT !.total_assets = @ - taken[t], !.mature_assets = @ - taken[t]]]
    <2>1. z.shares = b.shares /\ z.lots = b.lots
      BY <1>0, <1>1 DEF CapitalBook
    <2> HIDE DEF T
    <2>2. z.tranche = T
      BY <1>0, <1>1 DEF CapitalBook
    <2> QED  BY <2>1, <2>2 DEF T
  <1>8. ASSUME NEW t \in Tranches
        PROVE  /\ z.tranche[t].total_shares = b.tranche[t].total_shares
               /\ z.tranche[t].mature_shares = b.tranche[t].mature_shares
               /\ z.tranche[t].total_assets = b.tranche[t].total_assets - taken[t]
               /\ z.tranche[t].mature_assets = b.tranche[t].mature_assets - taken[t]
               /\ z.tranche[t] \in TrancheState
    <2>1. z.tranche[t] = [b.tranche[t] EXCEPT !.total_assets = @ - taken[t],
                                              !.mature_assets = @ - taken[t]]
      BY <1>7
    <2>2. b.tranche[t].mature_assets <= b.tranche[t].total_assets
      <3>1. TrancheExact(b.tranche[t], SharesIn(b.shares, t, "mature"),
                         SharesIn(b.shares, t, "immature"), LotPrincipal(b.lots, t))
        BY DEF BookExact
      <3>2. LotPrincipal(b.lots, t) \in Nat
        BY <1>0, BookParts, LotSums
      <3> QED  BY <1>0, <3>1, <3>2 DEF TrancheExact
    <2>3. b.tranche[t].total_assets - taken[t] \in Nat /\ b.tranche[t].mature_assets - taken[t] \in Nat
      BY <1>0, <1>5, <2>2
    <2>4. b.tranche[t] \in TrancheState
      BY <1>0
    <2> QED  BY <2>1, <2>3, <2>4 DEF TrancheState
  <1>9. z \in CapitalBook
    <2>1. z.tranche \in [Tranches -> TrancheState]
      BY <1>7, <1>8
    <2>2. z = [b EXCEPT !.tranche = z.tranche]
      BY <1>0, <1>1 DEF CapitalBook
    <2> QED  BY <1>0, <2>1, <2>2 DEF CapitalBook
  <1>10. BookExact(z)
    <2> DEFINE d == [t \in Tranches |-> 0 - taken[t]]
    <2>1. \A t \in Tranches : d[t] = 0 - taken[t] /\ d[t] \in Int
      BY <1>5
    <2> HIDE DEF d
    <2>2. ASSUME NEW t \in Tranches
          PROVE  /\ b.tranche[t].mature_shares = 0 => d[t] = 0
                 /\ z.tranche[t].total_assets = b.tranche[t].total_assets + d[t]
                 /\ z.tranche[t].mature_assets = b.tranche[t].mature_assets + d[t]
      <3>1. b.tranche[t].mature_shares = 0 => b.tranche[t].mature_assets = 0
        BY DEF BookExact, TrancheExact
      <3> QED  BY <1>0, <1>5, <1>8, <2>1, <3>1
    <2>3. OnlyAssetsMoved(b, z, d)
      BY <1>7, <1>8, <1>9, <2>1, <2>2 DEF OnlyAssetsMoved
    <2> QED  BY <2>3, AssetsMoved
  <1>11. z.tranche["Junior"].total_assets + z.tranche["Senior"].total_assets + (junior + senior)
           = b.tranche["Junior"].total_assets + b.tranche["Senior"].total_assets
    BY <1>0, <1>3, <1>4, <1>6, <1>8
  <1>12. junior + senior \in Nat /\ (junior + senior <= amount \/ junior + senior = 0)
    BY <1>a, <1>3, <1>4
  <1> QED  BY <1>1, <1>8, <1>10, <1>11, <1>12 DEF z, loss

\* What is taken off the assets of the tranches is taken off the capital.
LEMMA TakenOffBoth ==
  ASSUME NEW k \in Int, NEW d \in Nat, NEW j \in Nat, NEW c \in Nat, NEW v \in Nat, k + d = j + c + v
  PROVE  (k - v) + d = j + c
  OBVIOUS

\* cover_shortfall and absorb_loss: what the loss took leaves the totals and the reserve as well.
LEMMA LossKeeps ==
  ASSUME BackstopInv, NEW m \in Int, NEW loss,
         loss = _apply_loss(_sync_matured(book), m), loss.covered <= reserve,
         book' = loss.book, total' = [total EXCEPT !.capital = @ - loss.covered],
         reserve' = reserve - loss.covered, UNCHANGED <<now, settings>>
  PROVE  BackstopInv' /\ \A u \in Tranches : Undiluted(u)
  <1>1. PICK b : b = _sync_matured(book)
    OBVIOUS
  <1>3. /\ b \in CapitalBook /\ BookExact(b)
        /\ \A t \in Tranches :
              /\ b.tranche[t].total_shares = book.tranche[t].total_shares
              /\ b.tranche[t].total_assets = book.tranche[t].total_assets
              /\ b.tranche[t].mature_shares >= book.tranche[t].mature_shares
    BY <1>1, Synced
  <1>4. /\ BookExact(book') /\ loss.covered \in Nat
        /\ \A t \in Tranches : /\ book'.tranche[t].total_shares = b.tranche[t].total_shares
                               /\ book'.tranche[t].mature_shares = b.tranche[t].mature_shares
        /\ book'.tranche["Junior"].total_assets + book'.tranche["Senior"].total_assets + loss.covered
             = b.tranche["Junior"].total_assets + b.tranche["Senior"].total_assets
    <2>1. loss = _apply_loss(b, m)
      BY <1>1
    <2>2. BookExact(b) /\ m \in Int
      BY <1>3
    <2>3. LET taken == _apply_loss(b, m)
          IN  /\ BookExact(taken.book) /\ taken.covered \in Nat
              /\ taken.covered <= m \/ taken.covered = 0
              /\ \A t \in Tranches : /\ taken.book.tranche[t].total_shares = b.tranche[t].total_shares
                                     /\ taken.book.tranche[t].mature_shares = b.tranche[t].mature_shares
              /\ taken.book.tranche["Junior"].total_assets + taken.book.tranche["Senior"].total_assets
                   + taken.covered
                   = b.tranche["Junior"].total_assets + b.tranche["Senior"].total_assets
      BY <2>2, LossApplied, Zenon
    <2>4. book' = loss.book
      OBVIOUS
    <2> QED  BY <2>1, <2>3, <2>4, Zenon
  <1>5. /\ total' \in Totals /\ total'.shares = total.shares
        /\ total'.capital = total.capital - loss.covered
        /\ total'.drawdowns = total.drawdowns /\ total'.premiums = total.premiums
    <2>1. total \in Totals
      BY DEF BackstopInv
    <2>2. total.capital - loss.covered \in Int
      BY <1>4, BackstopAmounts
    <2> QED  BY <2>1, <2>2 DEF Totals
  <1>6. BackstopInv'
    <2>1. total'.shares = book'.tranche["Junior"].total_shares + book'.tranche["Senior"].total_shares
      <3>1. "Junior" \in Tranches /\ "Senior" \in Tranches
        BY DEF Tranches
      <3>2. total.shares = book.tranche["Junior"].total_shares + book.tranche["Senior"].total_shares
        BY DEF BackstopInv
      <3>3. /\ book'.tranche["Junior"].total_shares = book.tranche["Junior"].total_shares
            /\ book'.tranche["Senior"].total_shares = book.tranche["Senior"].total_shares
        BY <1>3, <1>4, <3>1
      <3> QED  BY <1>5, <3>2, <3>3
    <2>2. total'.capital + total'.drawdowns
             = book'.tranche["Junior"].total_assets + book'.tranche["Senior"].total_assets
      <3>1. total.capital + total.drawdowns
             = b.tranche["Junior"].total_assets + b.tranche["Senior"].total_assets
        BY <1>3, BackstopAmounts DEF BackstopInv
      <3>2. /\ book'.tranche["Junior"].total_assets \in Nat
            /\ book'.tranche["Senior"].total_assets \in Nat
        BY <1>4, BookParts, BackstopAmounts DEF BookExact
      <3>3. PICK k, d, j, c, v : /\ k = total.capital /\ d = total.drawdowns /\ v = loss.covered
                                 /\ j = book'.tranche["Junior"].total_assets
                                 /\ c = book'.tranche["Senior"].total_assets
        OBVIOUS
      <3>4. k \in Int /\ d \in Nat /\ j \in Nat /\ c \in Nat /\ v \in Nat
        BY <1>4, <3>2, <3>3, BackstopAmounts
      <3>5. k + d = j + c + v
        BY <1>4, <3>1, <3>3, Zenon
      <3>6. (k - v) + d = j + c
        BY <3>4, <3>5, TakenOffBoth
      <3>7. total'.capital = k - v /\ total'.drawdowns = d
        BY <1>5, <3>3, Zenon
      <3> QED  BY <3>3, <3>6, <3>7, Zenon
    <2>3. reserve' \in Nat /\ total'.capital <= reserve'
      BY <1>4, <1>5, BackstopAmounts DEF BackstopInv
    <2> QED  BY <1>4, <1>5, <2>1, <2>2, <2>3 DEF BackstopInv, settings
  <1>7. ASSUME NEW u \in Tranches  PROVE Undiluted(u)
    <2>1. total \in Totals /\ book \in CapitalBook /\ book' \in CapitalBook
      BY <1>4 DEF BackstopInv, BookExact
    <2>2. /\ book'.tranche[u].total_shares \in Nat /\ book'.tranche[u].mature_shares \in Nat
          /\ book'.tranche[u].total_shares = book.tranche[u].total_shares
          /\ book'.tranche[u].mature_shares >= book.tranche[u].mature_shares
      BY <1>3, <1>4, <2>1, BookParts
    <2> QED  BY <1>5, <2>1, <2>2, NothingDiluted
  <1> QED  BY <1>6, <1>7

\* draw_down takes from the total capital and records how much.
LEMMA DrawDownKeeps ==
  ASSUME BackstopInv, NEW amount \in Nat, draw_down(amount)
  PROVE  BackstopInv' /\ \A u \in Tranches : Undiluted(u)
  <1>1. /\ amount <= total.capital /\ reserve' = reserve - amount
        /\ total' = [total EXCEPT !.capital = @ - amount, !.drawdowns = @ + amount]
        /\ UNCHANGED <<now, book, lockup, juniorBps>>
    BY DEF draw_down, settings
  <1>2. /\ total' \in Totals /\ total'.shares = total.shares
        /\ total'.capital = total.capital - amount
        /\ total'.drawdowns = total.drawdowns + amount /\ total'.premiums = total.premiums
    <2>1. total \in Totals
      BY DEF BackstopInv
    <2>2. total.capital - amount \in Int /\ total.drawdowns + amount \in Nat
      BY <1>1, BackstopAmounts
    <2> QED  BY <1>1, <2>1, <2>2 DEF Totals
  <1>3. BackstopInv'
    <2>1. total'.capital + total'.drawdowns = total.capital + total.drawdowns
      BY <1>2, BackstopAmounts
    <2>2. reserve' \in Nat /\ total'.capital <= reserve'
      BY <1>1, <1>2, BackstopAmounts DEF BackstopInv
    <2> QED  BY <1>1, <1>2, <2>1, <2>2 DEF BackstopInv
  <1>4. ASSUME NEW u \in Tranches  PROVE Undiluted(u)
    <2>1. total \in Totals /\ book \in CapitalBook /\ book' \in CapitalBook
      BY <1>1 DEF BackstopInv, BookExact
    <2>2. /\ book'.tranche[u].total_shares <= book.tranche[u].total_shares
          /\ book'.tranche[u].mature_shares >= book.tranche[u].mature_shares
      BY <1>1, BackstopAmounts
    <2> QED  BY <1>2, <2>1, <2>2, NothingDiluted
  <1> QED  BY <1>3, <1>4

\* receive_premium credits no more than the cut it receives, and only mature shares.
LEMMA PremiumKeeps ==
  ASSUME BackstopInv, NEW amount \in Nat, receive_premium(amount)
  PROVE  BackstopInv' /\ \A u \in Tranches : Undiluted(u)
  <1> DEFINE cut == split_bps(amount, PremiumShareBps)
             part == split_bps(cut, juniorBps)
             junior == _credit_mature_premium(book, "Junior", part)
             senior == _credit_mature_premium(book, "Senior", cut - part)
             credit == [t \in Tranches |-> IF t = "Junior" THEN junior ELSE senior]
             T == [t \in Tranches |->
                    [book.tranche[t] EXCEPT !.total_assets = @ + credit[t], !.mature_assets = @ + credit[t]]]
  <1>0. /\ book \in CapitalBook /\ BookExact(book)
        /\ "Junior" \in Tranches /\ "Senior" \in Tranches /\ "Junior" # "Senior"
    BY BackstopAmounts
  <1>1. /\ book' = [book EXCEPT !.tranche = T]
        /\ total' = [total EXCEPT !.premiums = @ + junior + senior, !.capital = @ + junior + senior]
        /\ reserve' = reserve + cut
        /\ UNCHANGED <<now, lockup, juniorBps>>
    BY DEF receive_premium, settings
  <1>2. cut \in Nat
    BY BackstopConstants, CutFacts
  <1> HIDE DEF cut
  <1>3. part \in Nat /\ part <= cut
    BY <1>2, BackstopAmounts, CutFacts
  <1> HIDE DEF part
  <1>4. PICK j, c : j = junior /\ c = senior
    OBVIOUS
  <1>5. /\ j \in Nat /\ j <= part /\ (book.tranche["Junior"].mature_shares = 0 => j = 0)
        /\ c \in Nat /\ c <= cut - part /\ (book.tranche["Senior"].mature_shares = 0 => c = 0)
    BY <1>2, <1>3, <1>4 DEF _credit_mature_premium
  <1>6. /\ credit["Junior"] = j /\ credit["Senior"] = c
        /\ \A t \in Tranches : /\ credit[t] \in Nat
                               /\ book.tranche[t].mature_shares = 0 => credit[t] = 0
    BY <1>0, <1>4, <1>5 DEF Tranches
  <1>7. /\ total' = [total EXCEPT !.premiums = @ + j + c, !.capital = @ + j + c]
        /\ j + c <= cut
    <2>1. j + c <= cut
      BY <1>2, <1>3, <1>5
    <2> QED  BY <1>1, <1>4, <2>1
  <1> HIDE DEF junior, senior, credit
  <1>8. /\ book'.shares = book.shares /\ book'.lots = book.lots
        /\ book'.tranche = T
    <2> HIDE DEF T
    <2>1. book'.tranche = T
      BY <1>0, <1>1 DEF CapitalBook
    <2>2. book'.shares = book.shares /\ book'.lots = book.lots
      BY <1>0, <1>1 DEF CapitalBook
    <2> QED  BY <2>1, <2>2
  <1>9. ASSUME NEW t \in Tranches
        PROVE  /\ book'.tranche[t].total_shares = book.tranche[t].total_shares
               /\ book'.tranche[t].mature_shares = book.tranche[t].mature_shares
               /\ book'.tranche[t].total_assets = book.tranche[t].total_assets + credit[t]
               /\ book'.tranche[t].mature_assets = book.tranche[t].mature_assets + credit[t]
               /\ book'.tranche[t] \in TrancheState
    <2>1. book'.tranche[t] = [book.tranche[t] EXCEPT !.total_assets = @ + credit[t],
                                                     !.mature_assets = @ + credit[t]]
      BY <1>8
    <2>2. book.tranche[t] \in TrancheState
      BY <1>0, BookParts
    <2>3. /\ book.tranche[t].total_assets + credit[t] \in Nat
          /\ book.tranche[t].mature_assets + credit[t] \in Nat
      BY <1>6, BackstopAmounts
    <2> QED  BY <2>1, <2>2, <2>3 DEF TrancheState
  <1>10. BookExact(book') /\ book' \in CapitalBook
    <2>1. book'.tranche \in [Tranches -> TrancheState]
      BY <1>8, <1>9
    <2>2. book' = [book EXCEPT !.tranche = book'.tranche]
      <3> HIDE DEF T
      <3> QED  BY <1>1, <1>8
    <2>3. book' \in CapitalBook
      BY <1>0, <2>1, <2>2 DEF CapitalBook
    <2>4. PICK z, d : z = book' /\ d = credit
      OBVIOUS
    <2>5. OnlyAssetsMoved(book, z, d)
      <3>1. \A t \in Tranches : credit[t] \in Int
        BY <1>6
      <3> QED  BY <1>6, <1>8, <1>9, <2>3, <2>4, <3>1 DEF OnlyAssetsMoved
    <2> QED  BY <1>0, <2>3, <2>4, <2>5, AssetsMoved
  <1>11. /\ total' \in Totals /\ total'.shares = total.shares
         /\ total'.capital = total.capital + j + c
         /\ total'.drawdowns = total.drawdowns
    <2>1. total \in Totals
      BY DEF BackstopInv
    <2>2. total.capital + j + c \in Int /\ total.premiums + j + c \in Nat
      BY <1>5, BackstopAmounts
    <2> QED  BY <1>7, <2>1, <2>2 DEF Totals
  <1>12. BackstopInv'
    <2>1. total'.shares = book'.tranche["Junior"].total_shares + book'.tranche["Senior"].total_shares
      BY <1>0, <1>9, <1>11 DEF BackstopInv
    <2>2. total'.capital + total'.drawdowns
             = book'.tranche["Junior"].total_assets + book'.tranche["Senior"].total_assets
      <3>1. total.capital + total.drawdowns
             = book.tranche["Junior"].total_assets + book.tranche["Senior"].total_assets
        BY DEF BackstopInv
      <3>2. /\ book'.tranche["Junior"].total_assets = book.tranche["Junior"].total_assets + j
            /\ book'.tranche["Senior"].total_assets = book.tranche["Senior"].total_assets + c
        BY <1>0, <1>6, <1>9
      <3> QED  BY <1>5, <1>11, <3>1, <3>2, BackstopAmounts
    <2>3. reserve' \in Nat /\ total'.capital <= reserve'
      <3>1. total.capital <= reserve /\ total.capital \in Int /\ reserve \in Nat
        BY BackstopAmounts DEF BackstopInv
      <3>2. total'.capital = total.capital + j + c /\ reserve' = reserve + cut /\ j + c <= cut
        BY <1>1, <1>7, <1>11
      <3> QED  BY <1>2, <1>5, <3>1, <3>2
    <2> QED  BY <1>1, <1>10, <1>11, <2>1, <2>2, <2>3 DEF BackstopInv
  <1>13. ASSUME NEW u \in Tranches  PROVE Undiluted(u)
    <2>1. PICK A, S, e : /\ A = book.tranche[u].mature_assets /\ S = book.tranche[u].mature_shares
                         /\ e = credit[u]
      OBVIOUS
    <2>2. A \in Nat /\ S \in Nat /\ e \in Nat
      BY <1>6, <2>1, BackstopAmounts
    <2>3. (A + e) * S >= A * S
      BY <2>2, Product
    <2>4. /\ book'.tranche[u].mature_assets = A + e /\ book'.tranche[u].mature_shares = S
          /\ ~ book'.tranche[u].total_shares > book.tranche[u].total_shares
      BY <1>9, <2>1, BackstopAmounts
    <2> QED  BY <2>1, <2>3, <2>4 DEF Undiluted
  <1> QED  BY <1>12, <1>13

\* An empty backstop adds up.
LEMMA BackstopInvInit == BackstopInit => BackstopInv
  <1> SUFFICES ASSUME BackstopInit  PROVE BackstopInv
    OBVIOUS
  <1>1. /\ now = 0 /\ lockup = 0 /\ juniorBps = BpsDenom \div 2 /\ reserve = 0
        /\ total = [shares |-> 0, capital |-> 0, drawdowns |-> 0, premiums |-> 0]
        /\ book.tranche = [t \in Tranches |-> NoCapital]
        /\ book.shares = [s \in Stakers |-> [t \in Tranches |-> [a \in Ages |-> 0]]]
        /\ book.lots = [i \in LotIds |-> None]
        /\ book = [tranche |-> book.tranche, shares |-> book.shares, lots |-> book.lots]
    BY DEF BackstopInit, LedgerInit
  <1>2. /\ book.shares \in ShareBook /\ book.lots \in LotBook /\ book.tranche \in [Tranches -> TrancheState]
        /\ \A t \in Tranches : /\ book.tranche[t].total_shares = 0 /\ book.tranche[t].total_assets = 0
                               /\ book.tranche[t].mature_shares = 0 /\ book.tranche[t].mature_assets = 0
    BY <1>1 DEF ShareBook, LotBook, TrancheState, NoCapital
  <1>3. book \in CapitalBook
    BY <1>1, <1>2 DEF CapitalBook
  <1>4. ASSUME NEW t \in Tranches
        PROVE  LotPrincipal(book.lots, t) = 0 /\ \A s : LotSharesOf(book.lots, s, t) = 0
    <2>1. IsFiniteSet(LotIds)
      BY <1>2, LotSums
    <2>2. LotPrincipal(book.lots, t) = 0
      <3>1. \A i \in LotIds : PrincipalAt(book.lots, t)[i] = 0
        BY <1>1 DEF PrincipalAt
      <3>2. SumOver(PrincipalAt(book.lots, t), LotIds) = 0
        BY <2>1, <3>1, SumZero
      <3> QED  BY <1>2, <3>2, LotSums
    <2>3. ASSUME NEW s  PROVE LotSharesOf(book.lots, s, t) = 0
      <3>1. \A i \in LotIds : SharesOfAt(book.lots, s, t)[i] = 0
        BY <1>1 DEF SharesOfAt
      <3>2. SumOver(SharesOfAt(book.lots, s, t), LotIds) = 0
        BY <2>1, <3>1, SumZero
      <3> QED  BY <1>2, <3>2, LotSums
    <2> QED  BY <2>2, <2>3
  <1>5. ASSUME NEW t \in Tranches, NEW m \in Ages  PROVE SharesIn(book.shares, t, m) = 0
    <2> DEFINE f == [s \in Stakers |-> book.shares[s][t][m]]
    <2>1. IsFiniteSet(Stakers) /\ \A s \in Stakers : f[s] = 0
      BY <1>1, BackstopConstants
    <2>2. SharesIn(book.shares, t, m) = SumOver(f, Stakers)
      BY DEF SharesIn
    <2> HIDE DEF f
    <2> QED  BY <2>1, <2>2, SumZero
  <1>6. BookExact(book)
    <2>1. "mature" \in Ages /\ "immature" \in Ages
      BY DEF Ages
    <2>2. ASSUME NEW t \in Tranches
          PROVE  TrancheExact(book.tranche[t], SharesIn(book.shares, t, "mature"),
                              SharesIn(book.shares, t, "immature"), LotPrincipal(book.lots, t))
      BY <1>2, <1>4, <1>5, <2>1 DEF TrancheExact
    <2>3. \A s \in Stakers : \A t \in Tranches : book.shares[s][t]["immature"] = LotSharesOf(book.lots, s, t)
      BY <1>1, <1>4, <2>1
    <2> QED  BY <1>3, <2>2, <2>3 DEF BookExact
  <1>7. juniorBps \in 0 .. BpsDenom
    BY <1>1, BackstopConstants
  <1>8. total \in Totals /\ "Junior" \in Tranches /\ "Senior" \in Tranches
    BY <1>1 DEF Totals, Tranches
  <1> QED  BY <1>1, <1>2, <1>6, <1>7, <1>8 DEF BackstopInv

\* Every operation keeps the backstop exact and dilutes nobody.
LEMMA BackstopStep ==
  ASSUME BackstopInv, BackstopNext
  PROVE  BackstopInv' /\ \A u \in Tranches : Undiluted(u)
  <1>0. /\ StakeAmounts \subseteq Nat /\ FlowAmounts \subseteq Nat /\ Lockups \subseteq Nat
        /\ SplitBps \subseteq 0 .. BpsDenom /\ total \in Totals /\ book \in CapitalBook
    BY BackstopConstants DEF BackstopInv, BookExact
  <1>1. ASSUME NEW s \in Stakers, NEW t \in Tranches, NEW amount \in StakeAmounts,
               deposit_tranche(s, t, amount)
        PROVE  BackstopInv' /\ \A u \in Tranches : Undiluted(u)
    BY <1>1, DepositKeeps
  <1>2. ASSUME NEW s \in Stakers, NEW t \in Tranches, NEW shares \in 1 .. book.tranche[t].total_shares,
               withdraw_tranche(s, t, shares)
        PROVE  BackstopInv' /\ \A u \in Tranches : Undiluted(u)
    <2>1. shares \in Nat \ {0}
      BY BackstopAmounts
    <2> QED  BY <1>2, <2>1, WithdrawKeeps
  <1>3. ASSUME NEW amount \in FlowAmounts, draw_down(amount)
        PROVE  BackstopInv' /\ \A u \in Tranches : Undiluted(u)
    BY <1>0, <1>3, DrawDownKeeps
  <1>4. ASSUME NEW amount \in FlowAmounts, cover_shortfall(amount) \/ absorb_loss(amount)
        PROVE  BackstopInv' /\ \A u \in Tranches : Undiluted(u)
    <2>0. amount \in Int /\ total.capital \in Int /\ reserve \in Nat /\ total.capital <= reserve
      BY <1>0, BackstopAmounts DEF BackstopInv
    <2>1. CASE cover_shortfall(amount)
      <3>1. PICK m, b, loss :
              /\ m = Min({amount, total.capital}) /\ b = _sync_matured(book) /\ loss = _apply_loss(b, m)
        OBVIOUS
      <3>2. m = IF amount <= total.capital THEN amount ELSE total.capital
        BY <2>0, <3>1, MinOfIntegers
      <3>3. m \in Int /\ m <= total.capital
        BY <2>0, <3>2
      <3>4. BookExact(b)
        BY <3>1, Synced
      <3>5. loss.covered <= m \/ loss.covered = 0
        BY <3>1, <3>3, <3>4, LossApplied, Zenon
      <3>6. loss.covered \in Nat
        BY <3>1, <3>3, <3>4, LossApplied, Zenon
      <3>7. loss.covered <= reserve
        BY <2>0, <3>3, <3>5, <3>6
      <3>8. /\ book' = loss.book /\ total' = [total EXCEPT !.capital = @ - loss.covered]
            /\ reserve' = reserve - loss.covered /\ UNCHANGED <<now, settings>>
        BY <2>1, <3>1 DEF cover_shortfall
      <3> QED  BY <3>1, <3>3, <3>7, <3>8, LossKeeps
    <2>2. CASE absorb_loss(amount)
      <3>1. PICK loss : loss = _apply_loss(_sync_matured(book), amount)
        OBVIOUS
      <3>2. /\ loss.covered <= reserve
            /\ book' = loss.book /\ total' = [total EXCEPT !.capital = @ - loss.covered]
            /\ reserve' = reserve - loss.covered /\ UNCHANGED <<now, settings>>
        BY <2>2, <3>1 DEF absorb_loss
      <3> QED  BY <2>0, <3>1, <3>2, LossKeeps
    <2> QED  BY <1>4, <2>1, <2>2
  <1>5. ASSUME NEW amount \in FlowAmounts, receive_premium(amount)
        PROVE  BackstopInv' /\ \A u \in Tranches : Undiluted(u)
    BY <1>0, <1>5, PremiumKeeps
  <1>6. ASSUME UNCHANGED <<book, total, reserve>>, now' \in Nat, lockup' \in Nat,
               juniorBps' \in 0 .. BpsDenom
        PROVE  BackstopInv' /\ \A u \in Tranches : Undiluted(u)
    <2>1. BackstopInv'
      BY <1>6 DEF BackstopInv
    <2>2. ASSUME NEW u \in Tranches  PROVE Undiluted(u)
      <3>1. /\ book'.tranche[u].total_shares <= book.tranche[u].total_shares
            /\ book'.tranche[u].mature_shares >= book.tranche[u].mature_shares
        BY <1>6, BackstopAmounts
      <3> QED  BY <1>0, <1>6, <3>1, NothingDiluted
    <2> QED  BY <2>1, <2>2
  <1>7. ASSUME NEW pending \in BOOLEAN, set_pending_loss(pending)
        PROVE  BackstopInv' /\ \A u \in Tranches : Undiluted(u)
    <2>1. UNCHANGED <<now, book, total, lockup, juniorBps, reserve>>
      BY <1>7 DEF set_pending_loss, settings
    <2> QED  BY <1>6, <2>1, BackstopAmounts
  <1>8. ASSUME NEW ledgers \in Lockups, NEW bps \in SplitBps, set_parameters(ledgers, bps)
        PROVE  BackstopInv' /\ \A u \in Tranches : Undiluted(u)
    <2>1. UNCHANGED <<now, book, total, reserve>> /\ lockup' = ledgers /\ juniorBps' = bps
      BY <1>8 DEF set_parameters
    <2> QED  BY <1>0, <1>6, <2>1, BackstopAmounts
  <1>9. ASSUME sync_matured
        PROVE  BackstopInv' /\ \A u \in Tranches : Undiluted(u)
    <2>1. book' = _sync_matured(book) /\ UNCHANGED <<now, total, lockup, juniorBps, reserve>>
      BY <1>9 DEF sync_matured, settings
    <2>2. /\ book' \in CapitalBook /\ BookExact(book')
          /\ \A t \in Tranches :
               /\ book'.tranche[t].total_shares = book.tranche[t].total_shares
               /\ book'.tranche[t].total_assets = book.tranche[t].total_assets
               /\ book'.tranche[t].mature_shares >= book.tranche[t].mature_shares
      BY <2>1, Synced
    <2>3. BackstopInv'
      BY <2>1, <2>2 DEF BackstopInv, Tranches
    <2>4. ASSUME NEW u \in Tranches  PROVE Undiluted(u)
      <3>1. book'.tranche[u].total_shares <= book.tranche[u].total_shares
        BY <2>2, BackstopAmounts
      <3> QED  BY <1>0, <2>1, <2>2, <3>1, NothingDiluted
    <2> QED  BY <2>3, <2>4
  <1>10. ASSUME Tick
         PROVE  BackstopInv' /\ \A u \in Tranches : Undiluted(u)
    <2>1. UNCHANGED <<book, total, lockup, juniorBps, reserve>> /\ now' = now + 1
      BY <1>10 DEF Tick, LedgerTick, settings
    <2> QED  BY <1>6, <2>1, BackstopAmounts
  <1> QED
    BY <1>1, <1>2, <1>3, <1>4, <1>5, <1>7, <1>8, <1>9, <1>10 DEF BackstopNext

\* The invariant says what is promised of the backstop.
LEMMA BackstopInvExact == BackstopInv => BackstopExact
  <1> SUFFICES ASSUME BackstopInv  PROVE BackstopExact
    OBVIOUS
  <1>1. ASSUME NEW t \in Tranches
        PROVE  LET tr == book.tranche[t] IN
               /\ tr.mature_shares = SharesOf(t, "mature")
               /\ tr.total_shares = tr.mature_shares + SharesOf(t, "immature")
               /\ tr.mature_assets \in Nat
               /\ tr.total_assets = tr.mature_assets + LotPrincipal(book.lots, t)
    <2>1. TrancheExact(book.tranche[t], SharesIn(book.shares, t, "mature"),
                       SharesIn(book.shares, t, "immature"), LotPrincipal(book.lots, t))
      BY DEF BackstopInv, BookExact
    <2>2. /\ SharesOf(t, "mature") = SharesIn(book.shares, t, "mature")
          /\ SharesOf(t, "immature") = SharesIn(book.shares, t, "immature")
      BY DEF SharesOf, SharesIn
    <2> QED  BY <2>1, <2>2, BackstopAmounts DEF TrancheExact
  <1>2. /\ reserve \in Nat
        /\ -total.drawdowns <= total.capital /\ total.capital <= reserve
    <2>1. /\ total.capital \in Int /\ total.drawdowns \in Nat /\ reserve \in Nat
          /\ book.tranche["Junior"].total_assets \in Nat
          /\ book.tranche["Senior"].total_assets \in Nat
      BY BackstopAmounts
    <2>2. total.capital + total.drawdowns
            = book.tranche["Junior"].total_assets + book.tranche["Senior"].total_assets
      BY DEF BackstopInv
    <2> QED  BY <2>1, <2>2 DEF BackstopInv
  <1> QED  BY <1>1, <1>2 DEF BackstopExact, BackstopInv

\* A step of the backstop or of the loss events moves the clock by a tick or not at all.
LEMMA ClockMoves ==
  /\ BackstopNext => UNCHANGED now \/ LedgerTick
  /\ LossNext => UNCHANGED now \/ LedgerTick
  <1>1. BackstopNext => UNCHANGED now \/ LedgerTick
    <2>1. \A s, t, n : deposit_tranche(s, t, n) \/ withdraw_tranche(s, t, n) => UNCHANGED now
      BY DEF deposit_tranche, withdraw_tranche
    <2>2. \A n : draw_down(n) \/ cover_shortfall(n) \/ absorb_loss(n) => UNCHANGED now
      BY DEF draw_down, cover_shortfall, absorb_loss
    <2>3. \A n : receive_premium(n) => UNCHANGED now
      BY DEF receive_premium
    <2>4. /\ \A p : set_pending_loss(p) => UNCHANGED now
          /\ \A l, n : set_parameters(l, n) => UNCHANGED now
          /\ sync_matured => UNCHANGED now
      BY DEF set_pending_loss, set_parameters, sync_matured
    <2> QED  BY <2>1, <2>2, <2>3, <2>4 DEF BackstopNext, Tick
  <1>2. LossNext => UNCHANGED now \/ LedgerTick
    BY DEF LossNext, GuardianSetNew, guardian_add, guardian_remove, rotate, set_threshold, Store,
           LossEventsNew, declare, attest, authorize_drawdown, LossTick
  <1> QED  BY <1>1, <1>2

\* For every instance, through every interleaving of deposits, maturities, premiums, losses,
\* drawdowns and withdrawals with the queue and the loss events: the backstop's shares and capital
\* add up and are in custody (backstop/src/lib.rs), what the queue was asked for is filled exactly
\* (withdrawal_queue.rs), and every drawdown the loss events authorize is attested (loss_event.rs).
\* The backstop's own drawdowns ask no loss event.
THEOREM CapitalRulesAlwaysHold == CapitalRulesSpec => []CapitalRulesHold
  <1> DEFINE Inv == BackstopInv /\ QueueInv /\ LossInv
  <1>1. CapitalRulesInit => Inv
    BY BackstopInvInit, QueueInvInit, LossInvInit DEF CapitalRulesInit, BackstopInit
  <1>2. ASSUME Inv, [CapitalRulesNext]_capitalRulesVars  PROVE Inv'
    <2>0. now \in Nat
      BY <1>2 DEF LossInv
    <2>1. CASE BackstopNext /\ UNCHANGED <<queueVars, lossVars>>
      <3>1. BackstopInv'
        BY <1>2, <2>1, BackstopStep
      <3>2. QueueInv'
        BY <1>2, <2>1, QueueInvStep
      <3>3. LossInv'
        <4>1. [LossNext]_<<now, lossVars>>
          BY <2>1, ClockMoves DEF LossNext, LossTick
        <4> QED  BY <1>2, <4>1, LossInvStep
      <3> QED  BY <3>1, <3>2, <3>3
    <2>2. CASE QueueNext /\ UNCHANGED <<backstopVars, lossVars>>
      <3>1. QueueInv'
        BY <1>2, <2>2, QueueInvStep
      <3>2. BackstopInv' /\ LossInv'
        BY <1>2, <2>2 DEF BackstopInv, LossInv, backstopVars, settings, lossVars
      <3> QED  BY <3>1, <3>2
    <2>3. CASE LossNext /\ UNCHANGED <<capitalVars, queueVars>>
      <3>1. LossInv'
        BY <1>2, <2>3, LossInvStep
      <3>2. QueueInv'
        BY <1>2, <2>3, QueueInvStep
      <3>3. BackstopInv'
        BY <1>2, <2>0, <2>3, ClockMoves DEF BackstopInv, capitalVars, settings, LedgerTick
      <3> QED  BY <3>1, <3>2, <3>3
    <2>4. CASE UNCHANGED capitalRulesVars
      <3>1. QueueInv'
        BY <1>2, <2>4, QueueInvStep DEF capitalRulesVars
      <3>2. BackstopInv' /\ LossInv'
        BY <1>2, <2>4 DEF BackstopInv, LossInv, backstopVars, settings, lossVars, capitalRulesVars
      <3> QED  BY <3>1, <3>2
    <2> QED  BY <1>2, <2>1, <2>2, <2>3, <2>4 DEF CapitalRulesNext
  <1>3. Inv => CapitalRulesHold
    BY BackstopInvExact, QueueInvExact, LossInvAttests DEF CapitalRulesHold
  <1> QED  BY <1>1, <1>2, <1>3, PTL DEF CapitalRulesSpec

\* For every instance: a deposit never lowers its tranche's price, and while no lot matures a
\* withdrawal or a premium never lowers the price of matured shares (deposit_tranche,
\* withdraw_tranche and receive_premium round every quotient against the caller).
THEOREM StakersNeverDiluted == BackstopSpec => StakersNotDiluted
  <1>1. BackstopInit => BackstopInv
    BY BackstopInvInit
  <1>2. ASSUME BackstopInv, [BackstopNext]_backstopVars  PROVE BackstopInv'
    <2>1. CASE BackstopNext
      BY <1>2, <2>1, BackstopStep
    <2>2. CASE UNCHANGED backstopVars
      BY <1>2, <2>2 DEF BackstopInv, backstopVars, settings
    <2> QED  BY <1>2, <2>1, <2>2
  <1>3. BackstopInv /\ BackstopNext => \A t \in Tranches : Undiluted(t)
    BY BackstopStep
  <1>4. BackstopInv /\ [BackstopNext]_backstopVars => [\A t \in Tranches : Undiluted(t)]_backstopVars
    BY <1>3
  <1>5. BackstopSpec => [][\A t \in Tranches : Undiluted(t)]_backstopVars
    BY <1>1, <1>2, <1>4, PTL DEF BackstopSpec
  <1> QED  BY <1>5 DEF StakersNotDiluted, Undiluted

==============================================================================
