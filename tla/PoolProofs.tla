----------------------------- MODULE PoolProofs -----------------------------
(***************************************************************************)
(* Proofs about RefractPool, alone and with the registry it mirrors its    *)
(* policies into, for every finite set of providers, every set of offers   *)
(* and configurations and every scale.                                     *)
(***************************************************************************)
EXTENDS PoolWithRegistry, CollectionTheorems, TLAPS

\* What integer division returns: the facts about the quotients of _calc_shares,
\* _quote_withdrawal and _check_coverage_capacity the proofs rest on.
LEMMA DivFacts ==
    ASSUME NEW a \in Nat, NEW b \in Nat \ {0}
    PROVE  /\ a \div b \in Nat
           /\ b * (a \div b) <= a
           /\ a < b * (a \div b) + b
  OBVIOUS

\* A product of naturals is monotone in each factor.
LEMMA ProductMonotone ==
    ASSUME NEW a \in Nat, NEW b \in Nat, NEW c \in Nat, a <= b
    PROVE  a * c <= b * c /\ c * a <= c * b
  OBVIOUS

\* What does not grow when multiplied by a positive number did not grow.
LEMMA CancelFactor ==
    ASSUME NEW a \in Nat, NEW b \in Nat, NEW c \in Nat \ {0}, c * a <= c * b
    PROVE  a <= b
  OBVIOUS

\* s of S shares on C of capital are worth at most C, and all of C when s = S.
LEMMA WithdrawalBounds ==
    ASSUME NEW C \in Nat, NEW S \in Nat \ {0}, NEW s \in Nat, s <= S
    PROVE  /\ (s * C) \div S \in Nat
           /\ (s * C) \div S <= C
           /\ S * ((s * C) \div S) <= s * C
           /\ s = S => (s * C) \div S = C
  <1> DEFINE q == (s * C) \div S
  <1>1. s * C \in Nat
    OBVIOUS
  <1>2. q \in Nat /\ S * q <= s * C /\ s * C < S * q + S
    BY <1>1, DivFacts
  <1>3. s * C <= S * C
    BY ProductMonotone
  <1>4. q <= C
    <2>1. S * q <= S * C
      BY <1>1, <1>2, <1>3
    <2> QED BY <2>1, <1>2, CancelFactor
  <1>5. ASSUME s = S PROVE q = C
    <2>1. S * C < S * (q + 1)
      BY <1>2, <1>5
    <2>2. C < q + 1
      <3>1. SUFFICES ASSUME q + 1 <= C PROVE FALSE
        BY <1>2
      <3>2. S * (q + 1) <= S * C
        BY <3>1, <1>2, ProductMonotone
      <3> QED BY <2>1, <3>2, <1>2
    <2> QED BY <2>2, <1>2, <1>4
  <1> QED BY <1>2, <1>4, <1>5

\* Coverage within the capacity at a utilization short of BPS is within capital.
LEMMA CapacityWithinCapital ==
    ASSUME NEW C \in Nat, NEW mu \in Nat, mu < BPS
    PROVE  (C * mu) \div BPS <= C
  <1> DEFINE q == (C * mu) \div BPS
  <1>1. C * mu \in Nat /\ BPS \in Nat \ {0}
    BY PoolConstants
  <1>2. q \in Nat /\ BPS * q <= C * mu
    BY <1>1, DivFacts
  <1>3. C * mu <= C * BPS
    BY <1>1, ProductMonotone
  <1>4. BPS * q <= BPS * C
    BY <1>1, <1>2, <1>3
  <1> QED BY <1>1, <1>2, <1>4, CancelFactor

\* The utilization check of _quote_withdrawal, rounding included, keeps coverage
\* within the capital that remains.
LEMMA UtilizationWithinCapital ==
    ASSUME NEW cov \in Nat, NEW K \in Nat \ {0}, NEW mu \in Nat, mu < BPS,
           (cov * BPS) \div K <= mu
    PROVE  cov <= K
  <1> DEFINE q == (cov * BPS) \div K
  <1>1. cov * BPS \in Nat /\ BPS \in Nat \ {0}
    BY PoolConstants
  <1>2. q \in Nat /\ cov * BPS < K * q + K
    BY <1>1, DivFacts
  <1>3. q + 1 <= BPS
    BY <1>1, <1>2
  <1>4. K * (q + 1) <= K * BPS
    BY <1>1, <1>2, <1>3, ProductMonotone
  <1>5. BPS * cov <= BPS * K
    BY <1>1, <1>2, <1>4
  <1> QED BY <1>1, <1>5, CancelFactor

-----------------------------------------------------------------------------
\* The inductive invariant holds initially.
LEMMA PoolInvInit == PoolInit => PoolInv
  <1> SUFFICES ASSUME PoolInit PROVE PoolInv
    OBVIOUS
  <1>1. config \in Configs /\ 0 \in 0 .. MaxTime /\ 0 \in 0 .. MaxPolicies
    BY PoolConstants DEF PoolInit
  <1>2. NoPolicy \in Policy
    BY DEF NoPolicy, Policy, CoverageType
  <1>3. acc \in PoolAccounting
    BY <1>1 DEF PoolInit, PoolAccounting
  <1>4. oracle \in [CoverageType -> OracleData]
    BY DEF PoolInit, OracleData
  <1>5. PoolTypeOK
    <2>1. now \in 0 .. MaxTime /\ initialized \in BOOLEAN /\ emptied \in BOOLEAN /\ balance \in Nat
      BY <1>1 DEF PoolInit
    <2>2. shares \in [Providers -> Int] /\ lastDeposit \in [Providers -> Int]
      BY DEF PoolInit
    <2>3. policies \in [PolicyIds -> Policy] /\ paid \in [PolicyIds -> Nat]
      BY <1>2 DEF PoolInit
    <2> QED BY <1>1, <1>3, <1>4, <2>1, <2>2, <2>3 DEF PoolTypeOK
  <1>6. PaidOnce
    BY DEF PoolInit, PaidOnce, NoPolicy
  <1>7. Custody /\ CapitalIsOwned /\ CoverageBacked
    BY DEF PoolInit, Custody, CapitalIsOwned, CoverageBacked
  <1>8. IdsDense
    BY DEF PoolInit, IdsDense, NoPolicy, PolicyIds
  <1> QED BY <1>5, <1>6, <1>7, <1>8 DEF PoolInv

\* The three facts about the accounting and the pool's balance.
Books == Custody /\ CapitalIsOwned /\ CoverageBacked

\* A deposit mints a natural number of shares, and some on an empty pool.
LEMMA CalcSharesFacts ==
    ASSUME PoolTypeOK, NEW amount \in Amounts
    PROVE  /\ amount \in Nat \ {0}
           /\ CalcShares(amount) \in Nat
           /\ acc.total_shares = 0 => CalcShares(amount) = amount
           /\ acc.total_shares # 0 /\ acc.total_capital # 0 =>
                acc.total_capital * CalcShares(amount) <= amount * acc.total_shares
  <1>1. amount \in Nat \ {0}
    BY PoolConstants
  <1>2. acc.total_shares \in Nat /\ acc.total_capital \in Nat
    BY DEF PoolTypeOK, PoolAccounting
  <1>3. CASE acc.total_shares = 0 \/ acc.total_capital = 0
    BY <1>1, <1>2, <1>3 DEF CalcShares
  <1>4. CASE acc.total_shares # 0 /\ acc.total_capital # 0
    <2>1. amount * acc.total_shares \in Nat
      BY <1>1, <1>2
    <2>2. acc.total_capital \in Nat \ {0}
      BY <1>2, <1>4
    <2>3. CalcShares(amount) = (amount * acc.total_shares) \div acc.total_capital
      BY <1>4 DEF CalcShares
    <2> QED BY <1>1, <1>4, <2>1, <2>2, <2>3, DivFacts
  <1> QED BY <1>3, <1>4

\* provide_capital keeps the invariant.
LEMMA ProvideKeeps ==
    ASSUME PoolInv, NEW lp \in Providers, NEW amount \in Amounts, provide_capital(lp, amount)
    PROVE  PoolInv'
  <1> USE DEF PoolInv
  <1> DEFINE m == CalcShares(amount)
  <1>1. amount \in Nat \ {0} /\ m \in Nat /\ (acc.total_shares = 0 => m = amount)
    BY CalcSharesFacts
  <1>2. /\ acc.total_capital \in Nat /\ acc.total_coverage \in Nat /\ acc.total_premiums \in Nat
        /\ acc.total_shares \in Nat /\ acc.next_policy_id \in 0 .. MaxPolicies
    BY DEF PoolTypeOK, PoolAccounting
  <1>3. acc' = [total_capital |-> acc.total_capital + amount, total_coverage |-> acc.total_coverage,
                total_premiums |-> acc.total_premiums, total_shares |-> acc.total_shares + m,
                next_policy_id |-> acc.next_policy_id]
    BY DEF provide_capital, PoolTypeOK, PoolAccounting
  <1>4. balance' = balance + amount /\ UNCHANGED <<now, initialized, config, policies, oracle, paid, emptied>>
    BY DEF provide_capital
  <1> HIDE DEF m
  <1>5. acc' \in PoolAccounting
    BY <1>1, <1>2, <1>3 DEF PoolAccounting
  <1>6. shares' \in [Providers -> Int] /\ lastDeposit' \in [Providers -> Int]
    BY <1>1 DEF provide_capital, PoolTypeOK, m
  <1>7. PoolTypeOK'
    BY <1>1, <1>4, <1>5, <1>6 DEF PoolTypeOK
  <1>8. Books'
    BY <1>1, <1>2, <1>3, <1>4 DEF Books, Custody, CapitalIsOwned, CoverageBacked, PoolTypeOK
  <1>9. PaidOnce' /\ IdsDense'
    BY <1>3, <1>4 DEF PaidOnce, IdsDense
  <1> QED BY <1>7, <1>8, <1>9 DEF Books

\* What a withdrawal of s shares does to the books.
LEMMA WithdrawFacts ==
    ASSUME PoolInv, NEW lp \in Providers, NEW s \in 1 .. acc.total_shares, withdraw_capital(lp, s)
    PROVE  LET out == WithdrawalOf(s)
           IN /\ out \in Nat /\ out <= acc.total_capital
              /\ acc.total_shares * out <= s * acc.total_capital
              /\ s = acc.total_shares => out = acc.total_capital
              /\ acc' = [total_capital |-> acc.total_capital - out,
                         total_coverage |-> acc.total_coverage,
                         total_premiums |-> acc.total_premiums,
                         total_shares |-> acc.total_shares - s,
                         next_policy_id |-> acc.next_policy_id]
              /\ balance' = balance - out
              /\ CapitalFree(acc.total_capital - out)
              /\ emptied' = (emptied \/ (acc.total_coverage > 0 /\ acc.total_capital = out))
  <1>1. acc \in PoolAccounting
    BY DEF PoolInv, PoolTypeOK
  <1>2. /\ acc.total_capital \in Nat /\ acc.total_shares \in Nat \ {0}
        /\ s \in Nat /\ s <= acc.total_shares
    BY <1>1 DEF PoolAccounting
  <1>3. /\ WithdrawalOf(s) \in Nat /\ WithdrawalOf(s) <= acc.total_capital
        /\ acc.total_shares * WithdrawalOf(s) <= s * acc.total_capital
        /\ s = acc.total_shares => WithdrawalOf(s) = acc.total_capital
    BY <1>2, WithdrawalBounds DEF WithdrawalOf
  <1>4. /\ acc' = [acc EXCEPT !.total_capital = @ - WithdrawalOf(s), !.total_shares = @ - s]
        /\ balance' = balance - WithdrawalOf(s)
        /\ CapitalFree(acc.total_capital - WithdrawalOf(s))
        /\ emptied' = (emptied \/ (acc.total_coverage > 0 /\ acc.total_capital = WithdrawalOf(s)))
    BY DEF withdraw_capital, Burn
  <1>5. acc' = [total_capital |-> acc.total_capital - WithdrawalOf(s),
                total_coverage |-> acc.total_coverage, total_premiums |-> acc.total_premiums,
                total_shares |-> acc.total_shares - s, next_policy_id |-> acc.next_policy_id]
    BY <1>1, <1>4 DEF PoolAccounting
  <1> QED BY <1>3, <1>4, <1>5

\* withdraw_capital keeps the invariant: all shares take all capital, and what is
\* left, if anything is, carries the coverage.
LEMMA WithdrawKeeps ==
    ASSUME PoolInv, NEW lp \in Providers, NEW s \in 1 .. acc.total_shares, withdraw_capital(lp, s)
    PROVE  PoolInv'
  <1> USE DEF PoolInv
  <1>1. PICK out : out = WithdrawalOf(s)
    OBVIOUS
  <1>2. /\ out \in Nat /\ out <= acc.total_capital
        /\ s = acc.total_shares => out = acc.total_capital
        /\ acc' = [total_capital |-> acc.total_capital - out, total_coverage |-> acc.total_coverage,
                   total_premiums |-> acc.total_premiums, total_shares |-> acc.total_shares - s,
                   next_policy_id |-> acc.next_policy_id]
        /\ balance' = balance - out
        /\ CapitalFree(acc.total_capital - out)
        /\ emptied' = (emptied \/ (acc.total_coverage > 0 /\ acc.total_capital = out))
    BY <1>1, WithdrawFacts
  <1>3. /\ acc.total_capital \in Nat /\ acc.total_coverage \in Nat /\ acc.total_premiums \in Nat
        /\ acc.total_shares \in Nat /\ acc.next_policy_id \in 0 .. MaxPolicies /\ balance \in Nat
    BY DEF PoolTypeOK, PoolAccounting
  <1>4. UNCHANGED <<now, initialized, config, lastDeposit, policies, oracle, paid>>
    BY DEF withdraw_capital, Burn
  <1>5. acc' \in PoolAccounting
    BY <1>2, <1>3 DEF PoolAccounting
  <1>6. balance' \in Nat
    BY <1>2, <1>3 DEF Custody
  <1>7. shares' \in [Providers -> Int]
    BY DEF withdraw_capital, Burn, PoolTypeOK
  <1>8. emptied' \in BOOLEAN
    BY <1>2
  <1>9. PoolTypeOK'
    BY <1>4, <1>5, <1>6, <1>7, <1>8 DEF PoolTypeOK
  <1>10. Custody' /\ CapitalIsOwned'
    BY <1>2, <1>3 DEF Custody, CapitalIsOwned
  <1>11. CoverageBacked'
    <2>1. SUFFICES ASSUME ~emptied' PROVE acc'.total_coverage <= acc'.total_capital
      BY DEF CoverageBacked
    <2>2. acc'.total_coverage = acc.total_coverage /\ acc'.total_capital = acc.total_capital - out
      BY <1>2
    <2>3. CASE acc.total_capital = out
      <3>1. ~(acc.total_coverage > 0)
        BY <2>1, <2>3, <1>2, Zenon
      <3> QED BY <3>1, <2>2, <2>3, <1>2, <1>3
    <2>4. CASE acc.total_capital # out
      <3>1. acc.total_capital - out \in Nat \ {0}
        BY <2>4, <1>2, <1>3
      <3>2. (acc.total_coverage * BPS) \div (acc.total_capital - out) <= config.max_utilization_bps
        BY <3>1, <1>2 DEF CapitalFree
      <3>3. config.max_utilization_bps \in Nat /\ config.max_utilization_bps < BPS
        BY PoolConstants, UtilizationBelowOne DEF PoolTypeOK, PoolConfig
      <3>4. acc.total_coverage <= acc.total_capital - out
        BY <3>1, <3>2, <3>3, <1>3, UtilizationWithinCapital
      <3> QED BY <3>4, <2>2
    <2> QED BY <2>3, <2>4
  <1>12. PaidOnce' /\ IdsDense'
    BY <1>2, <1>4 DEF PaidOnce, IdsDense
  <1> QED BY <1>9, <1>10, <1>11, <1>12

\* buy_policy keeps the invariant: the capacity it checks is within capital, and
\* a pool without capital has none.
LEMMA BuyKeeps ==
    ASSUME PoolInv, NEW params \in Offers, buy_policy(params)
    PROVE  PoolInv'
  <1> USE DEF PoolInv
  <1> DEFINE prem == Premium(config, params)
             id == acc.next_policy_id
             amount == params.coverage_amount
  <1>1. /\ acc.total_capital \in Nat /\ acc.total_coverage \in Nat /\ acc.total_premiums \in Nat
        /\ acc.total_shares \in Nat /\ acc.next_policy_id \in 0 .. MaxPolicies /\ balance \in Nat
        /\ now \in Nat /\ MaxPolicies \in Nat
    BY PoolConstants DEF PoolTypeOK, PoolAccounting
  <1>2. prem \in Nat
    BY PoolConstants DEF PoolTypeOK
  <1>3. config \in PoolConfig /\ config.max_utilization_bps < BPS
    BY PoolConstants, UtilizationBelowOne DEF PoolTypeOK
  <1>4. params \in PolicyParams /\ amount \in Int
    BY PoolConstants DEF PolicyParams
  <1>5. /\ config.min_coverage <= amount
        /\ acc.total_coverage + amount <= (acc.total_capital * config.max_utilization_bps) \div BPS
    BY DEF buy_policy, CapacityFor
  <1>6. amount \in Nat \ {0}
    BY <1>3, <1>4, <1>5 DEF PoolConfig
  <1>7. acc.total_coverage + amount <= acc.total_capital
    <2>1. config.max_utilization_bps \in Nat
      BY <1>3 DEF PoolConfig
    <2>2. (acc.total_capital * config.max_utilization_bps) \div BPS <= acc.total_capital
      BY <2>1, <1>1, <1>3, CapacityWithinCapital
    <2>3. (acc.total_capital * config.max_utilization_bps) \div BPS \in Nat
      BY <2>1, <1>1, PoolConstants, DivFacts
    <2> QED BY <2>2, <2>3, <1>1, <1>5, <1>6
  <1>8. /\ acc' = [total_capital |-> acc.total_capital + prem,
                   total_coverage |-> acc.total_coverage + amount,
                   total_premiums |-> acc.total_premiums + prem,
                   total_shares |-> acc.total_shares, next_policy_id |-> id + 1]
        /\ id \in PolicyIds
        /\ balance' = balance + prem
        /\ UNCHANGED <<now, initialized, config, shares, lastDeposit, oracle, paid, emptied>>
    BY DEF buy_policy
  <1>9. policies' = [policies EXCEPT ![id] =
                       [status |-> "Active", coverage_amount |-> amount,
                        coverage_type |-> params.coverage_type,
                        trigger_threshold |-> params.trigger_threshold,
                        end_time |-> now + params.duration_days * DAY]]
    BY DEF buy_policy
  <1>10. policies' \in [PolicyIds -> Policy]
    <2>1. now + params.duration_days * DAY \in Nat
      BY <1>1, <1>4, PoolConstants DEF PolicyParams
    <2>2. [status |-> "Active", coverage_amount |-> amount, coverage_type |-> params.coverage_type,
           trigger_threshold |-> params.trigger_threshold,
           end_time |-> now + params.duration_days * DAY] \in Policy
      BY <2>1, <1>4, <1>6 DEF Policy, PolicyParams
    <2> QED BY <2>2, <1>9 DEF PoolTypeOK
  <1> HIDE DEF prem
  <1>11. acc' \in PoolAccounting
    BY <1>1, <1>2, <1>6, <1>8 DEF PoolAccounting, PolicyIds
  <1>12. PoolTypeOK'
    BY <1>1, <1>2, <1>8, <1>10, <1>11 DEF PoolTypeOK
  <1>13. Custody' /\ CapitalIsOwned' /\ CoverageBacked'
    BY <1>1, <1>2, <1>6, <1>7, <1>8 DEF Custody, CapitalIsOwned, CoverageBacked
  <1>14. /\ \A i \in PolicyIds : policies'[i].status = IF i = id THEN "Active" ELSE policies[i].status
         /\ policies[id].status = "Absent" /\ initialized
    <2>1. policies[id].status = "Absent"
      BY <1>1, <1>8 DEF IdsDense, PolicyIds
    <2> QED BY <2>1, <1>9 DEF PoolTypeOK, buy_policy
  <1>15. PaidOnce'
    BY <1>8, <1>14 DEF PaidOnce
  <1>16. IdsDense'
    BY <1>1, <1>8, <1>14 DEF IdsDense, PolicyIds
  <1> QED BY <1>12, <1>13, <1>15, <1>16

\* What settling policy id to status `to` at a cost of `cut` to capital does:
\* shared by process_claim and expire_policy.
LEMMA SettleAccounting ==
    ASSUME PoolInv, NEW id \in PolicyIds, NEW cut \in Nat,
           acc' = [acc EXCEPT !.total_capital = Clamp0(@ - cut),
                              !.total_coverage = Clamp0(@ - policies[id].coverage_amount)],
           cut \in {0, policies[id].coverage_amount}
    PROVE  /\ acc' \in PoolAccounting
           /\ acc'.total_capital = Clamp0(acc.total_capital - cut)
           /\ acc'.total_shares = acc.total_shares
           /\ acc'.next_policy_id = acc.next_policy_id
           /\ acc.total_coverage <= acc.total_capital => acc'.total_coverage <= acc'.total_capital
  <1>1. acc \in PoolAccounting /\ policies[id].coverage_amount \in Nat
    BY DEF PoolInv, PoolTypeOK, Policy
  <1>2. /\ acc.total_capital \in Nat /\ acc.total_coverage \in Nat /\ acc.total_premiums \in Nat
        /\ acc.total_shares \in Nat /\ acc.next_policy_id \in 0 .. MaxPolicies
    BY <1>1 DEF PoolAccounting
  <1>3. acc' = [total_capital |-> Clamp0(acc.total_capital - cut),
                total_coverage |-> Clamp0(acc.total_coverage - policies[id].coverage_amount),
                total_premiums |-> acc.total_premiums, total_shares |-> acc.total_shares,
                next_policy_id |-> acc.next_policy_id]
    BY <1>1 DEF PoolAccounting
  <1>4. /\ Clamp0(acc.total_capital - cut) \in Nat
        /\ Clamp0(acc.total_coverage - policies[id].coverage_amount) \in Nat
    BY <1>1, <1>2 DEF Clamp0
  <1>5. acc' \in PoolAccounting
    BY <1>2, <1>3, <1>4 DEF PoolAccounting
  <1>6. ASSUME acc.total_coverage <= acc.total_capital
        PROVE  acc'.total_coverage <= acc'.total_capital
    BY <1>1, <1>2, <1>3, <1>6 DEF Clamp0
  <1> QED BY <1>3, <1>5, <1>6

\* process_claim keeps the invariant.
LEMMA ClaimKeeps ==
    ASSUME PoolInv, NEW id \in PolicyIds, process_claim(id)
    PROVE  PoolInv'
  <1> USE DEF PoolInv
  <1> DEFINE payout == policies[id].coverage_amount
  <1>1. payout \in Nat /\ balance \in Nat /\ payout <= balance /\ policies[id].status = "Active"
    BY DEF process_claim, Pay, PoolTypeOK, Policy
  <1>2. /\ acc' = [acc EXCEPT !.total_capital = Clamp0(@ - payout), !.total_coverage = Clamp0(@ - payout)]
        /\ policies' = [policies EXCEPT ![id].status = "Claimed"]
        /\ balance' = balance - payout
        /\ paid' = [paid EXCEPT ![id] = @ + 1]
        /\ UNCHANGED <<now, initialized, config, shares, lastDeposit, oracle, emptied>>
    BY DEF process_claim, Pay
  <1>3. /\ acc' \in PoolAccounting
        /\ acc'.total_capital = Clamp0(acc.total_capital - payout)
        /\ acc'.total_shares = acc.total_shares /\ acc'.next_policy_id = acc.next_policy_id
        /\ acc.total_coverage <= acc.total_capital => acc'.total_coverage <= acc'.total_capital
    BY <1>1, <1>2, SettleAccounting
  <1>4. policies' \in [PolicyIds -> Policy] /\ paid' \in [PolicyIds -> Nat]
    BY <1>2 DEF PoolTypeOK, Policy
  <1>5. PoolTypeOK'
    BY <1>1, <1>2, <1>3, <1>4 DEF PoolTypeOK
  <1>6. Custody' /\ CapitalIsOwned'
    <2>1. acc.total_capital \in Nat /\ acc.total_shares \in Nat
      BY DEF PoolTypeOK, PoolAccounting
    <2> QED BY <2>1, <1>1, <1>2, <1>3 DEF Custody, CapitalIsOwned, Clamp0
  <1>7. CoverageBacked'
    BY <1>2, <1>3 DEF CoverageBacked
  <1>8. \A i \in PolicyIds :
           /\ policies'[i].status = IF i = id THEN "Claimed" ELSE policies[i].status
           /\ paid'[i] = IF i = id THEN paid[i] + 1 ELSE paid[i]
    BY <1>2 DEF PoolTypeOK, Policy
  <1>9. PaidOnce'
    BY <1>1, <1>8 DEF PaidOnce, PoolTypeOK
  <1>10. IdsDense'
    BY <1>1, <1>2, <1>3, <1>8 DEF IdsDense
  <1> QED BY <1>5, <1>6, <1>7, <1>9, <1>10

\* expire_policy keeps the invariant.
LEMMA ExpireKeeps ==
    ASSUME PoolInv, NEW id \in PolicyIds, expire_policy(id)
    PROVE  PoolInv'
  <1> USE DEF PoolInv
  <1>1. /\ acc' = [acc EXCEPT !.total_coverage = Clamp0(@ - policies[id].coverage_amount)]
        /\ policies' = [policies EXCEPT ![id].status = "Expired"]
        /\ policies[id].status = "Active"
        /\ UNCHANGED <<now, initialized, config, shares, lastDeposit, oracle, balance, paid, emptied>>
    BY DEF expire_policy
  <1>2. acc \in PoolAccounting /\ acc.total_capital \in Nat
    BY DEF PoolTypeOK, PoolAccounting
  <1>3. acc' = [acc EXCEPT !.total_capital = Clamp0(@ - 0),
                           !.total_coverage = Clamp0(@ - policies[id].coverage_amount)]
    <2> DEFINE c == Clamp0(acc.total_coverage - policies[id].coverage_amount)
    <2>1. Clamp0(acc.total_capital - 0) = acc.total_capital
      BY <1>2 DEF Clamp0
    <2>2. acc' = [acc EXCEPT !.total_coverage = c]
      BY <1>1
    <2>3. [acc EXCEPT !.total_capital = acc.total_capital, !.total_coverage = c]
            = [acc EXCEPT !.total_coverage = c]
      BY <1>2 DEF PoolAccounting
    <2> QED BY <2>1, <2>2, <2>3
  <1>4. /\ acc' \in PoolAccounting
        /\ acc'.total_capital = acc.total_capital
        /\ acc'.total_shares = acc.total_shares /\ acc'.next_policy_id = acc.next_policy_id
        /\ acc.total_coverage <= acc.total_capital => acc'.total_coverage <= acc'.total_capital
    <2>1. Clamp0(acc.total_capital - 0) = acc.total_capital
      BY <1>2 DEF Clamp0
    <2> QED BY <1>3, <2>1, SettleAccounting
  <1>5. policies' \in [PolicyIds -> Policy]
    BY <1>1 DEF PoolTypeOK, Policy
  <1>6. PoolTypeOK'
    BY <1>1, <1>4, <1>5 DEF PoolTypeOK
  <1>7. Custody' /\ CapitalIsOwned' /\ CoverageBacked'
    BY <1>1, <1>4 DEF Custody, CapitalIsOwned, CoverageBacked
  <1>8. \A i \in PolicyIds : policies'[i].status = IF i = id THEN "Expired" ELSE policies[i].status
    BY <1>1 DEF PoolTypeOK, Policy
  <1>9. PaidOnce' /\ IdsDense'
    BY <1>1, <1>4, <1>8 DEF PaidOnce, IdsDense
  <1> QED BY <1>6, <1>7, <1>9

\* The other steps leave the books alone or only add to the balance.
LEMMA QuietStepsKeep ==
    ASSUME PoolInv,
           \/ PoolTick
           \/ \E amount \in Gifts : Gift(amount)
           \/ initialize
           \/ \E cfg \in Configs : set_pool_config(cfg)
           \/ \E type \in OfferedTypes, value \in Readings : update_oracle(type, value)
           \/ UNCHANGED poolVars
    PROVE  PoolInv'
  <1> USE DEF PoolInv
  <1> DEFINE Rest == Custody /\ CapitalIsOwned /\ CoverageBacked /\ PaidOnce /\ IdsDense
  <1>1. CASE PoolTick
    <2>1. PoolTypeOK'
      BY <1>1, PoolConstants DEF PoolTick, PoolTypeOK
    <2>2. Rest'
      BY <1>1 DEF PoolTick, Custody, CapitalIsOwned, CoverageBacked, PaidOnce, IdsDense
    <2> QED BY <2>1, <2>2
  <1>2. ASSUME NEW amount \in Gifts, Gift(amount) PROVE PoolInv'
    <2>1. amount \in Nat /\ balance \in Nat /\ acc.total_capital \in Nat
      BY PoolConstants DEF PoolTypeOK, PoolAccounting
    <2>2. PoolTypeOK'
      BY <2>1, <1>2 DEF Gift, PoolTypeOK
    <2>3. Rest'
      BY <2>1, <1>2 DEF Gift, Custody, CapitalIsOwned, CoverageBacked, PaidOnce, IdsDense
    <2> QED BY <2>2, <2>3
  <1>3. CASE initialize
    <2>1. acc' = [total_capital |-> 0, total_coverage |-> 0, total_premiums |-> 0,
                  total_shares |-> 0, next_policy_id |-> 0]
      BY <1>3 DEF initialize
    <2>2. acc' \in PoolAccounting /\ InitialConfig \in Configs
      BY <2>1, PoolConstants DEF PoolAccounting
    <2>3. PoolTypeOK'
      BY <2>2, <1>3 DEF initialize, PoolTypeOK
    <2>4. acc.next_policy_id = 0 /\ UNCHANGED <<policies, paid, balance, emptied>> /\ initialized'
      BY <1>3 DEF initialize, IdsDense
    <2>5. Rest'
      BY <2>1, <2>4 DEF Custody, CapitalIsOwned, CoverageBacked, PaidOnce, IdsDense, PoolTypeOK
    <2> QED BY <2>3, <2>5
  <1>4. ASSUME NEW cfg \in Configs, set_pool_config(cfg) PROVE PoolInv'
    <2>1. PoolTypeOK'
      BY <1>4 DEF set_pool_config, PoolTypeOK
    <2>2. Rest'
      BY <1>4 DEF set_pool_config, Custody, CapitalIsOwned, CoverageBacked, PaidOnce, IdsDense
    <2> QED BY <2>1, <2>2
  <1>5. ASSUME NEW type \in OfferedTypes, NEW value \in Readings, update_oracle(type, value)
        PROVE  PoolInv'
    <2>1. [value |-> value, updated_at |-> now] \in OracleData
      BY PoolConstants DEF OracleData, PoolTypeOK
    <2>2. PoolTypeOK'
      BY <2>1, <1>5 DEF update_oracle, PoolTypeOK
    <2>3. Rest'
      BY <1>5 DEF update_oracle, Custody, CapitalIsOwned, CoverageBacked, PaidOnce, IdsDense
    <2> QED BY <2>2, <2>3
  <1>6. CASE UNCHANGED poolVars
    <2>1. PoolTypeOK'
      BY <1>6 DEF poolVars, PoolTypeOK
    <2>2. Rest'
      BY <1>6 DEF poolVars, Custody, CapitalIsOwned, CoverageBacked, PaidOnce, IdsDense
    <2> QED BY <2>1, <2>2
  <1> QED BY <1>1, <1>2, <1>3, <1>4, <1>5, <1>6

\* PoolInv is inductive: no step of the pool breaks it.
LEMMA PoolInvNext == PoolInv /\ [PoolNext]_poolVars => PoolInv'
  <1> SUFFICES ASSUME PoolInv, [PoolNext]_poolVars PROVE PoolInv'
    OBVIOUS
  <1>1. CASE \E lp \in Providers, amount \in Amounts : provide_capital(lp, amount)
    BY <1>1, ProvideKeeps
  <1>2. CASE \E lp \in Providers : \E s \in 1 .. acc.total_shares : withdraw_capital(lp, s)
    BY <1>2, WithdrawKeeps
  <1>3. CASE \E params \in Offers : buy_policy(params)
    BY <1>3, BuyKeeps
  <1>4. CASE \E id \in PolicyIds : process_claim(id)
    BY <1>4, ClaimKeeps
  <1>5. CASE \E id \in PolicyIds : expire_policy(id)
    BY <1>5, ExpireKeeps
  <1> QED BY <1>1, <1>2, <1>3, <1>4, <1>5, QuietStepsKeep DEF PoolNext

\* For every instance: the accounting stays in Nat, the pool holds the capital it
\* accounts for, coverage is backed until a full withdrawal, and each policy is
\* paid at most once.
THEOREM PoolSafe == PoolSpec => []PoolInv
  BY PoolInvInit, PoolInvNext, PTL DEF PoolSpec

-----------------------------------------------------------------------------
\* The price of a share, as total_capital / total_shares, does not fall.
PriceHolds == acc'.total_capital * acc.total_shares >= acc.total_capital * acc'.total_shares

\* A deposit buys its shares at the price or above.
LEMMA ProvidePrice ==
    ASSUME PoolInv, NEW lp \in Providers, NEW amount \in Amounts, provide_capital(lp, amount)
    PROVE  PriceHolds
  <1> DEFINE C == acc.total_capital
             S == acc.total_shares
             m == CalcShares(amount)
  <1>1. C \in Nat /\ S \in Nat
    BY DEF PoolInv, PoolTypeOK, PoolAccounting
  <1>2. acc'.total_capital = C + amount /\ acc'.total_shares = S + m
    BY DEF provide_capital, PoolInv, PoolTypeOK, PoolAccounting
  <1>3. amount \in Nat /\ m \in Nat /\ (S # 0 /\ C # 0 => C * m <= amount * S)
    BY CalcSharesFacts DEF PoolInv
  <1>4. C * m <= amount * S
    <2>1. CASE C = 0
      BY <2>1, <1>1, <1>3
    <2>2. CASE C # 0
      BY <2>2, <1>3 DEF PoolInv, CapitalIsOwned
    <2> QED BY <2>1, <2>2
  <1> HIDE DEF C, S, m
  <1>5. (C + amount) * S = C * S + amount * S /\ C * (S + m) = C * S + C * m
    BY <1>1, <1>3
  <1>6. C * S \in Nat /\ amount * S \in Nat /\ C * m \in Nat
    BY <1>1, <1>3
  <1>7. (C + amount) * S >= C * (S + m)
    BY <1>4, <1>5, <1>6
  <1> QED BY <1>2, <1>7 DEF PriceHolds, C, S

\* A withdrawal is paid at the price or below.
LEMMA WithdrawPrice ==
    ASSUME PoolInv, NEW lp \in Providers, NEW s \in 1 .. acc.total_shares, withdraw_capital(lp, s)
    PROVE  PriceHolds
  <1> DEFINE C == acc.total_capital
             S == acc.total_shares
  <1>1. PICK out : out = WithdrawalOf(s)
    OBVIOUS
  <1>2. /\ out \in Nat /\ S * out <= s * C
        /\ acc'.total_capital = C - out /\ acc'.total_shares = S - s
    BY <1>1, WithdrawFacts
  <1>3. C \in Nat /\ S \in Nat /\ s \in Nat
    BY DEF PoolInv, PoolTypeOK, PoolAccounting
  <1> HIDE DEF C, S
  <1>4. (C - out) * S = C * S - S * out /\ C * (S - s) = C * S - s * C
    BY <1>2, <1>3
  <1>5. C * S \in Nat /\ S * out \in Nat /\ s * C \in Nat
    BY <1>2, <1>3
  <1>6. (C - out) * S >= C * (S - s)
    BY <1>2, <1>4, <1>5
  <1> QED BY <1>2, <1>6 DEF PriceHolds, C, S

\* A step that moves neither shares nor capital down keeps the price.
LEMMA NoLossPrice ==
    ASSUME PoolInv, acc'.total_shares = acc.total_shares,
           acc'.total_capital \in Nat, acc'.total_capital >= acc.total_capital
    PROVE  PriceHolds
  <1>1. acc.total_capital \in Nat /\ acc.total_shares \in Nat
    BY DEF PoolInv, PoolTypeOK, PoolAccounting
  <1>2. acc.total_capital * acc.total_shares <= acc'.total_capital * acc.total_shares
    BY <1>1, ProductMonotone
  <1> QED BY <1>1, <1>2 DEF PriceHolds

\* A claim is counted in paid.
LEMMA ClaimIsPaid ==
    ASSUME PoolInv, NEW id \in PolicyIds, process_claim(id)
    PROVE  ClaimPaid
  <1>1. paid \in [PolicyIds -> Nat] /\ paid' = [paid EXCEPT ![id] = @ + 1]
    BY DEF process_claim, Pay, PoolInv, PoolTypeOK
  <1>2. paid'[id] = paid[id] + 1 /\ paid[id] \in Nat
    BY <1>1
  <1>3. paid'[id] # paid[id]
    BY <1>2
  <1> QED BY <1>3 DEF ClaimPaid

\* For every instance: nothing but a claim lowers the price of a share (SPEC.md
\* INV-4), from the rounding of _calc_shares and _quote_withdrawal and from
\* CapitalIsOwned, without which a first deposit would take what lies there.
THEOREM SharePriceNeverFalls == PoolSpec => SharePriceHolds
  <1>1. ASSUME PoolInv, [PoolNext]_poolVars PROVE ClaimPaid \/ PriceHolds
    <2>1. acc.total_capital \in Nat /\ acc.total_shares \in Nat
      BY <1>1 DEF PoolInv, PoolTypeOK, PoolAccounting
    <2>2. CASE \E lp \in Providers, amount \in Amounts : provide_capital(lp, amount)
      BY <1>1, <2>2, ProvidePrice
    <2>3. CASE \E lp \in Providers : \E s \in 1 .. acc.total_shares : withdraw_capital(lp, s)
      BY <1>1, <2>3, WithdrawPrice
    <2>4. ASSUME NEW params \in Offers, buy_policy(params) PROVE PriceHolds
      <3>1. Premium(config, params) \in Nat
        BY <1>1, PoolConstants DEF PoolInv, PoolTypeOK
      <3>2. /\ acc'.total_capital = acc.total_capital + Premium(config, params)
            /\ acc'.total_shares = acc.total_shares
        BY <2>4 DEF buy_policy
      <3> QED BY <1>1, <2>1, <3>1, <3>2, NoLossPrice
    <2>5. CASE \E id \in PolicyIds : process_claim(id)
      BY <1>1, <2>5, ClaimIsPaid
    <2>6. ASSUME NEW id \in PolicyIds, expire_policy(id) PROVE PriceHolds
      <3>1. acc'.total_capital = acc.total_capital /\ acc'.total_shares = acc.total_shares
        BY <1>1, <2>6 DEF expire_policy, PoolInv, PoolTypeOK, PoolAccounting
      <3> QED BY <1>1, <2>1, <3>1, NoLossPrice
    <2>7. CASE initialize
      <3>1. acc'.total_capital = 0 /\ acc'.total_shares = 0
        BY <2>7 DEF initialize
      <3> QED BY <2>1, <3>1 DEF PriceHolds
    <2>8. CASE UNCHANGED acc
      BY <1>1, <2>1, <2>8, NoLossPrice
    <2> QED BY <1>1, <2>2, <2>3, <2>4, <2>5, <2>6, <2>7, <2>8
            DEF PoolNext, PoolTick, Gift, set_pool_config, update_oracle, poolVars
  <1>2. PoolInv /\ [PoolNext]_poolVars =>
          [ClaimPaid \/ acc'.total_capital * acc.total_shares
                           >= acc.total_capital * acc'.total_shares]_poolVars
    BY <1>1 DEF PriceHolds
  <1> QED BY <1>2, PoolSafe, PTL DEF PoolSpec, SharePriceHolds

-----------------------------------------------------------------------------
\* What the totals need besides PoolInv: they are the sums they stand for, and
\* before initialize, which overwrites them, they are zero.
Totals == SharesConserved /\ CoverageConserved
Untouched == ~initialized => /\ acc.total_capital = 0 /\ acc.total_coverage = 0
                             /\ acc.total_shares = 0 /\ acc.next_policy_id = 0
TotalsInv == PoolInv /\ Totals /\ Untouched

\* There are finitely many policy ids and providers to sum over.
LEMMA FiniteSums == IsFiniteSet(PolicyIds) /\ IsFiniteSet(Providers)
  <1>1. 0 \in Int /\ MaxPolicies - 1 \in Int
    BY PoolConstants
  <1>2. IsFiniteSet(0 .. MaxPolicies - 1)
    BY <1>1, FS_Interval
  <1> QED BY <1>2, PoolConstants DEF PolicyIds

\* Every policy's part of the coverage in force is a natural number.
LEMMA CoverageIsNat ==
    ASSUME PoolTypeOK
    PROVE  \A id \in PolicyIds : CoverageInForce[id] \in Nat
  BY DEF PoolTypeOK, Policy, CoverageInForce

\* Nothing is sold or held in the initial state.
LEMMA TotalsInvInit == PoolInit => TotalsInv
  <1> SUFFICES ASSUME PoolInit PROVE TotalsInv
    OBVIOUS
  <1>1. PoolInv
    BY PoolInvInit
  <1>2. SumOver(shares, Providers) = 0
    <2>1. \A lp \in Providers : shares[lp] = 0
      BY DEF PoolInit
    <2> QED BY <2>1, FiniteSums, SumZero
  <1>3. SumOver(CoverageInForce, PolicyIds) = 0
    <2>1. \A id \in PolicyIds : CoverageInForce[id] = 0
      BY DEF PoolInit, CoverageInForce, NoPolicy
    <2> HIDE DEF CoverageInForce
    <2> QED BY <2>1, FiniteSums, SumZero
  <1>4. SharesConserved
    BY <1>2 DEF PoolInit, SharesConserved
  <1>5. CoverageConserved
    BY <1>3 DEF PoolInit, CoverageConserved, ActiveCoverage
  <1>6. Untouched
    BY DEF PoolInit, Untouched
  <1> QED BY <1>1, <1>4, <1>5, <1>6 DEF TotalsInv, Totals

\* A change of one provider's shares moves their sum by as much.
LEMMA SharesMove ==
    ASSUME PoolTypeOK, SharesConserved, NEW lp \in Providers, NEW d \in Int,
           shares'[lp] = shares[lp] + d, shares[lp] + d >= 0,
           \A p \in Providers \ {lp} : shares'[p] = shares[p],
           acc'.total_shares = acc.total_shares + d
    PROVE  SharesConserved'
  <1>1. PICK f, g : f = shares /\ g = shares'
    OBVIOUS
  <1>2. /\ \A p \in Providers : f[p] \in Int
        /\ g[lp] \in Int /\ g[lp] = f[lp] + d
        /\ \A p \in Providers \ {lp} : g[p] = f[p]
    BY <1>1 DEF PoolTypeOK
  <1>3. SumOver(g, Providers) = SumOver(f, Providers) - f[lp] + g[lp]
    BY <1>2, FiniteSums, SumChange
  <1>4. SumOver(f, Providers) \in Int /\ f[lp] \in Int
    BY <1>2, FiniteSums, SumInt
  <1>5. SumOver(g, Providers) = SumOver(f, Providers) + d
    BY <1>2, <1>3, <1>4
  <1>6. acc'.total_shares = SumOver(shares', Providers)
    BY <1>1, <1>5 DEF SharesConserved
  <1>7. \A p \in Providers : shares'[p] >= 0
    BY DEF SharesConserved
  <1> QED BY <1>6, <1>7 DEF SharesConserved

\* A change of one policy's part of the coverage moves the sum by as much.
LEMMA CoverageMoves ==
    ASSUME PoolTypeOK, PoolTypeOK', CoverageConserved, NEW id \in PolicyIds,
           \A i \in PolicyIds \ {id} : policies'[i] = policies[i],
           acc'.total_coverage = acc.total_coverage - CoverageInForce[id] + CoverageInForce'[id]
    PROVE  CoverageConserved'
  <1>1. \A i \in PolicyIds : CoverageInForce[i] \in Nat /\ CoverageInForce'[i] \in Nat
    BY CoverageIsNat DEF PoolTypeOK, Policy, CoverageInForce
  <1>2. \A i \in PolicyIds \ {id} : CoverageInForce'[i] = CoverageInForce[i]
    BY DEF CoverageInForce
  <1> HIDE DEF CoverageInForce
  <1>3. \A i \in PolicyIds : CoverageInForce[i] \in Int /\ CoverageInForce'[i] \in Int
    BY <1>1
  <1>4. SumOver(CoverageInForce', PolicyIds)
          = SumOver(CoverageInForce, PolicyIds) - CoverageInForce[id] + CoverageInForce'[id]
    BY <1>2, <1>3, FiniteSums, SumChange
  <1> QED BY <1>4 DEF CoverageConserved, ActiveCoverage

\* What a policy in force is counted for is within total_coverage, so that the
\* saturating subtraction of process_claim and expire_policy never clamps.
LEMMA NeverClamped ==
    ASSUME PoolTypeOK, CoverageConserved, NEW id \in PolicyIds, policies[id].status = "Active"
    PROVE  /\ CoverageInForce[id] = policies[id].coverage_amount
           /\ Clamp0(acc.total_coverage - policies[id].coverage_amount)
                = acc.total_coverage - CoverageInForce[id]
  <1>1. CoverageInForce[id] = policies[id].coverage_amount
    BY DEF CoverageInForce
  <1>2. \A i \in PolicyIds : CoverageInForce[i] \in Nat
    BY CoverageIsNat
  <1> HIDE DEF CoverageInForce
  <1>3. CoverageInForce[id] <= SumOver(CoverageInForce, PolicyIds)
    BY <1>2, FiniteSums, SumAtLeast
  <1>4. CoverageInForce[id] <= acc.total_coverage
    BY <1>3 DEF CoverageConserved, ActiveCoverage
  <1>5. acc.total_coverage \in Nat
    BY DEF PoolTypeOK, PoolAccounting
  <1> QED BY <1>1, <1>2, <1>4, <1>5 DEF Clamp0

\* A step that changes neither the policies' part nor total_coverage keeps it.
LEMMA CoverageStays ==
    ASSUME CoverageConserved, policies' = policies, acc'.total_coverage = acc.total_coverage
    PROVE  CoverageConserved'
  <1>1. CoverageInForce' = CoverageInForce
    BY DEF CoverageInForce
  <1> HIDE DEF CoverageInForce
  <1> QED BY <1>1 DEF CoverageConserved, ActiveCoverage

\* A step that changes no provider's shares and not their total keeps it.
LEMMA SharesStay ==
    ASSUME SharesConserved, shares' = shares, acc'.total_shares = acc.total_shares
    PROVE  SharesConserved'
  BY DEF SharesConserved

\* Every step keeps the totals exact.
LEMMA TotalsStep == TotalsInv /\ [PoolNext]_poolVars => TotalsInv'
  <1> SUFFICES ASSUME TotalsInv, [PoolNext]_poolVars PROVE (Totals /\ Untouched)'
    BY PoolInvNext DEF TotalsInv
  <1>1. PoolInv /\ PoolInv' /\ PoolTypeOK /\ PoolTypeOK' /\ SharesConserved /\ CoverageConserved
    BY PoolInvNext DEF TotalsInv, Totals, PoolInv
  <1>2. acc \in PoolAccounting /\ acc.total_shares \in Nat /\ acc.total_coverage \in Nat
    BY <1>1 DEF PoolTypeOK, PoolAccounting
  <1>3. ASSUME NEW lp \in Providers, NEW amount \in Amounts, provide_capital(lp, amount)
        PROVE  (Totals /\ Untouched)'
    <2>1. PICK m : m = CalcShares(amount)
      OBVIOUS
    <2>2. m \in Nat
      BY <1>1, <2>1, CalcSharesFacts
    <2>3. /\ acc'.total_shares = acc.total_shares + m /\ acc'.total_coverage = acc.total_coverage
          /\ policies' = policies /\ initialized'
          /\ shares'[lp] = shares[lp] + m /\ \A p \in Providers \ {lp} : shares'[p] = shares[p]
      BY <1>1, <1>2, <1>3, <2>1 DEF provide_capital, PoolAccounting, PoolTypeOK
    <2>4. shares[lp] + m >= 0
      BY <1>1, <2>2 DEF SharesConserved, PoolTypeOK
    <2>5. SharesConserved'
      BY <1>1, <2>2, <2>3, <2>4, SharesMove
    <2>6. CoverageConserved'
      BY <1>1, <2>3, CoverageStays
    <2> QED BY <2>3, <2>5, <2>6 DEF Totals, Untouched
  <1>4. ASSUME NEW lp \in Providers, NEW s \in 1 .. acc.total_shares, withdraw_capital(lp, s)
        PROVE  (Totals /\ Untouched)'
    <2>1. -s \in Int /\ s \in Int
      BY <1>2
    <2>2. /\ acc'.total_shares = acc.total_shares - s /\ acc'.total_coverage = acc.total_coverage
          /\ policies' = policies /\ s <= shares[lp] /\ initialized'
          /\ shares'[lp] = shares[lp] - s /\ \A p \in Providers \ {lp} : shares'[p] = shares[p]
      BY <1>1, <1>2, <1>4 DEF withdraw_capital, Burn, PoolAccounting, PoolTypeOK
    <2>3. /\ shares'[lp] = shares[lp] + (-s) /\ shares[lp] + (-s) >= 0
          /\ acc'.total_shares = acc.total_shares + (-s)
      BY <1>1, <1>2, <2>1, <2>2 DEF PoolTypeOK
    <2>4. SharesConserved'
      BY <1>1, <2>1, <2>2, <2>3, SharesMove
    <2>5. CoverageConserved'
      BY <1>1, <2>2, CoverageStays
    <2> QED BY <2>2, <2>4, <2>5 DEF Totals, Untouched
  <1>5. ASSUME NEW params \in Offers, buy_policy(params) PROVE (Totals /\ Untouched)'
    <2>1. PICK id : id = acc.next_policy_id
      OBVIOUS
    <2>2. id \in PolicyIds /\ initialized' /\ shares' = shares
      BY <1>5, <2>1 DEF buy_policy
    <2>3. /\ acc'.total_coverage = acc.total_coverage + params.coverage_amount
          /\ acc'.total_shares = acc.total_shares
      BY <1>5 DEF buy_policy
    <2>4. /\ policies'[id].status = "Active"
          /\ policies'[id].coverage_amount = params.coverage_amount
          /\ \A i \in PolicyIds \ {id} : policies'[i] = policies[i]
      BY <1>1, <1>5, <2>1, <2>2 DEF buy_policy, PoolTypeOK
    <2>5. policies[id].status = "Absent"
      BY <1>1, <2>1, <2>2 DEF PoolInv, IdsDense, PolicyIds
    <2>6. CoverageInForce[id] = 0 /\ CoverageInForce'[id] = params.coverage_amount
      BY <2>2, <2>4, <2>5 DEF CoverageInForce
    <2>7. params.coverage_amount \in Int
      BY PoolConstants DEF PolicyParams
    <2>8. acc'.total_coverage = acc.total_coverage - CoverageInForce[id] + CoverageInForce'[id]
      BY <1>2, <2>3, <2>6, <2>7
    <2>9. CoverageConserved'
      BY <1>1, <2>2, <2>4, <2>8, CoverageMoves
    <2>10. SharesConserved'
      BY <1>1, <2>2, <2>3, SharesStay
    <2> QED BY <2>2, <2>9, <2>10 DEF Totals, Untouched
  <1>6. ASSUME NEW id \in PolicyIds, process_claim(id) \/ expire_policy(id)
        PROVE  (Totals /\ Untouched)'
    <2>1. /\ policies[id].status = "Active"
          /\ acc'.total_coverage = Clamp0(acc.total_coverage - policies[id].coverage_amount)
          /\ acc'.total_shares = acc.total_shares /\ shares' = shares
          /\ initialized' = initialized
      BY <1>2, <1>6 DEF process_claim, Pay, expire_policy, PoolAccounting
    <2>2. /\ policies'[id].status # "Active"
          /\ \A i \in PolicyIds \ {id} : policies'[i] = policies[i]
      BY <1>1, <1>6 DEF process_claim, Pay, expire_policy, PoolTypeOK, Policy
    <2>3. CoverageInForce'[id] = 0
      BY <2>2 DEF CoverageInForce
    <2>4. acc'.total_coverage = acc.total_coverage - CoverageInForce[id]
      BY <1>1, <2>1, NeverClamped
    <2>5. CoverageInForce[id] \in Nat
      BY <1>1, CoverageIsNat
    <2>6. acc'.total_coverage = acc.total_coverage - CoverageInForce[id] + CoverageInForce'[id]
      BY <1>2, <2>3, <2>4, <2>5
    <2>7. CoverageConserved'
      BY <1>1, <2>2, <2>6, CoverageMoves
    <2>8. SharesConserved'
      BY <1>1, <2>1, SharesStay
    <2>9. initialized
      <3>1. ~(id >= acc.next_policy_id)
        BY <1>1, <2>1 DEF PoolInv, IdsDense
      <3>2. id \in Nat
        BY PoolConstants DEF PolicyIds
      <3> QED BY <3>1, <3>2, <1>1 DEF PoolInv, IdsDense
    <2> QED BY <2>1, <2>7, <2>8, <2>9 DEF Totals, Untouched
  <1>7. CASE initialize
    <2>1. /\ acc'.total_shares = 0 /\ acc'.total_coverage = 0 /\ initialized'
          /\ acc.total_shares = 0 /\ acc.total_coverage = 0
          /\ shares' = shares /\ policies' = policies
      BY <1>7 DEF initialize, TotalsInv, Untouched
    <2> QED BY <1>1, <2>1, SharesStay, CoverageStays DEF Totals, Untouched
  <1>8. CASE UNCHANGED <<acc, shares, policies, initialized>>
    BY <1>1, <1>8, SharesStay, CoverageStays DEF Totals, Untouched, TotalsInv
  <1> QED BY <1>3, <1>4, <1>5, <1>6, <1>7, <1>8
          DEF PoolNext, PoolTick, Gift, set_pool_config, update_oracle, poolVars

\* For every instance: the accounting of shares and coverage is exact, and until
\* a full withdrawal skips the check, the pool holds enough to pay every policy
\* in force at once.
THEOREM PolicyholdersAlwaysCovered == PoolSpec => []PolicyholdersCovered
  <1>1. TotalsInv => PolicyholdersCovered
    <2> SUFFICES ASSUME TotalsInv, ~emptied PROVE ActiveCoverage <= balance
      BY DEF TotalsInv, Totals, PolicyholdersCovered
    <2>1. /\ ActiveCoverage = acc.total_coverage /\ acc.total_coverage \in Nat
          /\ acc.total_capital \in Nat /\ balance \in Nat
      BY DEF TotalsInv, Totals, CoverageConserved, PoolInv, PoolTypeOK, PoolAccounting
    <2>2. acc.total_coverage <= acc.total_capital /\ acc.total_capital <= balance
      BY <2>1 DEF TotalsInv, PoolInv, CoverageBacked, Custody
    <2> QED BY <2>1, <2>2
  <1> QED BY <1>1, TotalsInvInit, TotalsStep, PTL DEF PoolSpec

-----------------------------------------------------------------------------
\* The pool inside the composed system behaves as Pool says.
LEMMA PoolInside == [PRNext]_prVars => [PoolNext]_poolVars
  <1> SUFFICES ASSUME [PRNext]_prVars PROVE [PoolNext]_poolVars
    OBVIOUS
  <1>1. CASE PoolStep
    BY <1>1 DEF PoolStep, PoolNext
  <1>2. ASSUME NEW params \in Offers, NEW h \in Holders, BuyPolicy(params, h) PROVE PoolNext
    BY <1>2 DEF BuyPolicy, PoolNext
  <1>3. ASSUME NEW id \in PolicyIds, ProcessClaim(id) \/ ExpirePolicy(id) PROVE PoolNext
    BY <1>3 DEF ProcessClaim, ExpirePolicy, PoolNext
  <1>4. CASE RepointStep
    BY <1>4 DEF RepointStep, R!propose_pool_contract, R!Proposal, R!confirm_pool_contract,
                R!cancel_pool_contract, pool, poolVars
  <1>5. ASSUME NEW c \in Addresses, NEW id \in PolicyIds, ForeignIndexStep(c, id)
        PROVE UNCHANGED poolVars
    BY <1>5 DEF ForeignIndexStep, R!register_policy, R!deactivate_policy, pool, poolVars
  <1>6. CASE set_policy_registry \/ UNCHANGED prVars
    BY <1>6 DEF set_policy_registry, prVars
  <1> QED BY <1>1, <1>2, <1>3, <1>4, <1>5, <1>6 DEF PRNext

\* With the pool's own invariant and the types of the two contracts' lists, the
\* agreement of pool and registry is inductive.
PRInv ==
    /\ PoolInv
    /\ records \in [PolicyIds -> R!PolicyRecord \cup {None}]
    /\ byOthers \in Seq(PolicyIds)
    /\ NothingInForceUnlisted

\* What the index says about one policy.
Listed(id) == (Sold(id) <=> records[id] # None) /\ (InForce(id) => ListedActive(id))

\* A policy whose entries on both sides stay as they are stays listed, as long as
\* the lists of exceptions only grow.
LEMMA StaysListed ==
    ASSUME NothingInForceUnlisted, elsewhere \subseteq elsewhere',
           Range(byOthers) \subseteq Range(byOthers)', NEW i \in PolicyIds,
           policies'[i] = policies[i], records'[i] = records[i],
           i \notin elsewhere' \cup Range(byOthers)'
    PROVE  Listed(i)'
  <1>1. i \notin elsewhere \cup Range(byOthers)
    OBVIOUS
  <1>2. Listed(i)
    BY <1>1 DEF NothingInForceUnlisted, Listed
  <1> QED BY <1>2 DEF Listed, Sold, InForce, ListedActive

\* Both contracts start empty.
LEMMA PRInvInit == PRInit => PRInv
  <1> SUFFICES ASSUME PRInit PROVE PRInv
    OBVIOUS
  <1>1. /\ config \in Configs /\ 0 \in 0 .. MaxTime /\ 0 \in 0 .. MaxPolicies
        /\ NoPolicy \in Policy
    BY PoolConstants DEF PRInit, NoPolicy, Policy, CoverageType
  <1>2. acc \in PoolAccounting
    BY <1>1 DEF PRInit, PoolAccounting
  <1>3. oracle \in [CoverageType -> OracleData]
    BY DEF PRInit, OracleData
  <1>4. PoolTypeOK
    <2>1. now \in 0 .. MaxTime /\ initialized \in BOOLEAN /\ emptied \in BOOLEAN /\ balance \in Nat
      BY <1>1 DEF PRInit
    <2>2. shares \in [Providers -> Int] /\ lastDeposit \in [Providers -> Int]
      BY DEF PRInit
    <2>3. policies \in [PolicyIds -> Policy] /\ paid \in [PolicyIds -> Nat]
      BY <1>1 DEF PRInit
    <2> QED BY <1>1, <1>2, <1>3, <2>1, <2>2, <2>3 DEF PoolTypeOK
  <1>5. PaidOnce /\ IdsDense
    BY DEF PRInit, PaidOnce, NoPolicy, IdsDense, PolicyIds
  <1>6. Custody /\ CapitalIsOwned /\ CoverageBacked
    BY DEF PRInit, Custody, CapitalIsOwned, CoverageBacked
  <1>7. records \in [PolicyIds -> R!PolicyRecord \cup {None}] /\ byOthers \in Seq(PolicyIds)
    BY DEF PRInit
  <1>8. NothingInForceUnlisted
    BY DEF PRInit, NothingInForceUnlisted, Sold, InForce, NoPolicy
  <1> QED BY <1>4, <1>5, <1>6, <1>7, <1>8 DEF PRInv, PoolInv

\* Every step of pool, registry and their admins keeps the agreement: a sale and
\* its registration are one transaction, and a deactivation follows a settlement.
LEMMA PRInvStep == PRInv /\ [PRNext]_prVars => PRInv'
  <1> SUFFICES ASSUME PRInv, [PRNext]_prVars PROVE PRInv'
    OBVIOUS
  <1>0. /\ PoolInv /\ PoolInv' /\ NothingInForceUnlisted
        /\ policies \in [PolicyIds -> Policy]
        /\ records \in [PolicyIds -> R!PolicyRecord \cup {None}] /\ byOthers \in Seq(PolicyIds)
    BY PoolInside, PoolInvNext DEF PRInv, PoolInv, PoolTypeOK
  <1>1. SUFFICES /\ records' \in [PolicyIds -> R!PolicyRecord \cup {None}]
                 /\ byOthers' \in Seq(PolicyIds)
                 /\ \A i \in PolicyIds : i \notin elsewhere' \cup Range(byOthers)' => Listed(i)'
    BY <1>0 DEF PRInv, NothingInForceUnlisted, Listed
  <1>2. CASE UNCHANGED <<policies, records, elsewhere, byOthers>>
    BY <1>0, <1>2, StaysListed
  <1>3. ASSUME NEW params \in Offers, NEW h \in Holders, BuyPolicy(params, h)
        PROVE  /\ records' \in [PolicyIds -> R!PolicyRecord \cup {None}]
               /\ byOthers' \in Seq(PolicyIds)
               /\ \A i \in PolicyIds : i \notin elsewhere' \cup Range(byOthers)' => Listed(i)'
    <2>1. PICK id, prem : id = acc.next_policy_id /\ prem = Premium(config, params)
      OBVIOUS
    <2>2. /\ id \in PolicyIds /\ byOthers' = byOthers /\ prem \in Nat
          /\ RegisterInRegistry(id, h, prem)
          /\ policies'[id].status = "Active"
          /\ \A i \in PolicyIds \ {id} : policies'[i] = policies[i]
      <3>1. prem \in Nat
        BY <1>0, <2>1, PoolConstants DEF PoolInv, PoolTypeOK
      <3> QED BY <1>0, <1>3, <2>1, <3>1 DEF BuyPolicy, buy_policy
    <2>3. elsewhere \subseteq elsewhere' /\ Range(byOthers)' = Range(byOthers)
      BY <2>2 DEF RegisterInRegistry
    <2>4. CASE wired
      <3>1. PICK rec : rec = [holder |-> h, premium |-> prem, is_active |-> TRUE]
        OBVIOUS
      <3>2. rec \in R!PolicyRecord /\ rec.is_active /\ rec # None
        <4>1. rec \in R!PolicyRecord /\ rec.is_active
          BY <2>2, <3>1 DEF R!PolicyRecord
        <4> QED BY <4>1, AbsentRecord
      <3>3. records' = [records EXCEPT ![id] = rec]
        BY <2>2, <2>4, <3>1 DEF RegisterInRegistry, R!register_policy
      <3>4. /\ records' \in [PolicyIds -> R!PolicyRecord \cup {None}] /\ records'[id] = rec
            /\ \A i \in PolicyIds \ {id} : records'[i] = records[i]
        BY <1>0, <2>2, <3>2, <3>3
      <3>5. Listed(id)'
        BY <2>2, <3>2, <3>4 DEF Listed, Sold, InForce, ListedActive
      <3> QED BY <1>0, <2>2, <2>3, <3>4, <3>5, StaysListed
    <2>5. CASE ~wired
      <3>1. id \in elsewhere' /\ records' = records
        BY <2>2, <2>5 DEF RegisterInRegistry, registry
      <3> QED BY <1>0, <2>2, <2>3, <3>1, StaysListed
    <2> QED BY <2>4, <2>5
  <1>4. ASSUME NEW id \in PolicyIds, ProcessClaim(id) \/ ExpirePolicy(id)
        PROVE  /\ records' \in [PolicyIds -> R!PolicyRecord \cup {None}]
               /\ byOthers' \in Seq(PolicyIds)
               /\ \A i \in PolicyIds : i \notin elsewhere' \cup Range(byOthers)' => Listed(i)'
    <2>1. /\ policies[id].status = "Active" /\ policies'[id].status \in {"Claimed", "Expired"}
          /\ \A i \in PolicyIds \ {id} : policies'[i] = policies[i]
          /\ DeactivateInRegistry(id) /\ elsewhere' = elsewhere /\ byOthers' = byOthers
      BY <1>0, <1>4 DEF ProcessClaim, ExpirePolicy, process_claim, expire_policy, Pay, Policy, wiring
    <2>2. /\ records' \in [PolicyIds -> R!PolicyRecord \cup {None}]
          /\ \A i \in PolicyIds \ {id} : records'[i] = records[i]
          /\ records[id] # None => records'[id] # None
      <3>1. CASE Deactivates(id)
        <4>1. records' = [records EXCEPT ![id].is_active = FALSE] /\ records[id] # None
          BY <2>1, <3>1 DEF DeactivateInRegistry, Deactivates, R!deactivate_policy
        <4>2. records[id] \in R!PolicyRecord
          BY <1>0, <4>1
        <4>3. [records[id] EXCEPT !.is_active = FALSE] \in R!PolicyRecord
          BY <4>2 DEF R!PolicyRecord
        <4>4. /\ records'[id] = [records[id] EXCEPT !.is_active = FALSE]
              /\ \A i \in PolicyIds \ {id} : records'[i] = records[i]
              /\ records' \in [PolicyIds -> R!PolicyRecord \cup {None}]
          BY <1>0, <4>1, <4>3
        <4> QED BY <4>3, <4>4, AbsentRecord
      <3>2. CASE ~Deactivates(id)
        BY <1>0, <2>1, <3>2 DEF DeactivateInRegistry, registry
      <3> QED BY <3>1, <3>2
    <2>3. ASSUME id \notin elsewhere' \cup Range(byOthers)' PROVE Listed(id)'
      <3>1. records[id] # None
        BY <1>0, <2>1, <2>3 DEF NothingInForceUnlisted, Sold
      <3> QED BY <2>1, <2>2, <3>1 DEF Listed, Sold, InForce
    <2> QED BY <1>0, <2>1, <2>2, <2>3, StaysListed
  <1>5. ASSUME NEW c \in Addresses, NEW id \in PolicyIds, ForeignIndexStep(c, id)
        PROVE  /\ records' \in [PolicyIds -> R!PolicyRecord \cup {None}]
               /\ byOthers' \in Seq(PolicyIds)
               /\ \A i \in PolicyIds : i \notin elsewhere' \cup Range(byOthers)' => Listed(i)'
    <2>1. byOthers' = Append(byOthers, id) /\ policies' = policies /\ elsewhere' = elsewhere
      BY <1>5 DEF ForeignIndexStep, pool
    <2>2. byOthers' \in Seq(PolicyIds) /\ id \in Range(byOthers)' /\ Range(byOthers) \subseteq Range(byOthers)'
      BY <1>0, <2>1 DEF Range
    <2>3. /\ records' \in [PolicyIds -> R!PolicyRecord \cup {None}]
          /\ \A i \in PolicyIds \ {id} : records'[i] = records[i]
      <3>1. ASSUME NEW h \in Holders, NEW x \in Premiums, R!register_policy(c, id, h, x)
            PROVE  /\ records' \in [PolicyIds -> R!PolicyRecord \cup {None}]
                   /\ \A i \in PolicyIds \ {id} : records'[i] = records[i]
        <4>1. [holder |-> h, premium |-> x, is_active |-> TRUE] \in R!PolicyRecord
          BY WiringConstants DEF R!PolicyRecord
        <4> QED BY <1>0, <3>1, <4>1 DEF R!register_policy
      <3>2. CASE R!deactivate_policy(c, id)
        <4>1. [records[id] EXCEPT !.is_active = FALSE] \in R!PolicyRecord
          BY <1>0, <3>2 DEF R!deactivate_policy, R!PolicyRecord
        <4> QED BY <1>0, <3>2, <4>1 DEF R!deactivate_policy
      <3> QED BY <1>5, <3>1, <3>2 DEF ForeignIndexStep
    <2> QED BY <1>0, <2>1, <2>2, <2>3, StaysListed
  <1>6. CASE PoolStep \/ RepointStep \/ set_policy_registry \/ UNCHANGED prVars
    <2>1. UNCHANGED <<policies, records, elsewhere, byOthers>>
      BY <1>6 DEF PoolStep, PoolTick, provide_capital, update_oracle, RepointStep,
                  R!propose_pool_contract, R!Proposal, R!confirm_pool_contract,
                  R!cancel_pool_contract, R!index, set_policy_registry, registry, wiring, pool,
                  poolVars, prVars
    <2> QED BY <2>1, <1>2
  <1> QED BY <1>3, <1>4, <1>5, <1>6 DEF PRNext

\* For every instance: whatever the two contracts are repointed to and in which
\* order, a policy sold through this registry is recorded in it, and while it is in
\* force it is listed active, unless the registry's admin or another pool the
\* registry trusted meanwhile wrote that record.
THEOREM NothingEverUnlisted == PRSpec => []NothingInForceUnlisted
  <1>1. PRInv => NothingInForceUnlisted
    BY DEF PRInv
  <1> QED BY <1>1, PRInvInit, PRInvStep, PTL DEF PRSpec
=============================================================================
