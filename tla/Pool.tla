-------------------------------- MODULE Pool --------------------------------
(***************************************************************************)
(* RefractPool: risk capital, policies and claims.  An entrypoint that     *)
(* returns Err or traps (a transfer beyond a balance, a refusal of the     *)
(* backstop or the registry in buy_policy) leaves no write: it is no step. *)
(* The host and the ReentrancyLock exclude re-entry, so an entrypoint with *)
(* the calls it makes is one step.  Callers can pay what they transfer in. *)
(* Pool and registry are composed in PoolWithRegistry.tla.                 *)
(***************************************************************************)
EXTENDS Integers, FiniteSets, Collections

CONSTANTS Providers,       \* liquidity providers
          Amounts,         \* what they deposit
          InitialConfig,   \* the PoolConfig initialize writes
          Configs,         \* the PoolConfigs set_pool_config is called with
          Offers,          \* the PolicyParams buy_policy is called with
          Premium(_, _),   \* _calc_premium(config, params)
          Readings,        \* values update_oracle pushes
          Gifts,           \* USDC sent to the pool from outside its entrypoints
          BPS, PRECISION,  \* fixed-point scales: 10_000 and 10_000_000
          DAY, FRESH,      \* 86_400 and 1_800 seconds
          MaxPolicies, MaxTime, MaxCapital    \* bounds of the model

CoverageType == {"StablecoinDepeg", "MarketCrash", "LiquidationShield", "SmartContractRisk",
                 "FlightDelay"}

PoolConfig == [max_utilization_bps : Nat, min_coverage : Nat \ {0}, max_coverage : Nat,
               lockup_days : Nat]

PolicyParams == [coverage_amount : Int, coverage_type : CoverageType, duration_days : Nat,
                 trigger_threshold : Int]

ASSUME PoolConstants ==
    /\ IsFiniteSet(Providers)
    /\ BPS \in Nat \ {0} /\ PRECISION \in Nat \ {0} /\ DAY \in Nat \ {0} /\ FRESH \in Nat \ {0}
    /\ Amounts \subseteq Nat \ {0} /\ Gifts \subseteq Nat /\ Readings \subseteq Int
    /\ InitialConfig \in Configs /\ Configs \subseteq PoolConfig
    /\ Offers \subseteq PolicyParams
    /\ \A cfg \in Configs, params \in Offers : Premium(cfg, params) \in Nat
    /\ MaxPolicies \in Nat /\ MaxTime \in Nat /\ MaxCapital \in Nat

\* "max_utilization_bps: max coverage/capital ratio, e.g. 8000": short of 100%.
ASSUME UtilizationBelowOne == \A cfg \in Configs : cfg.max_utilization_bps < BPS

VARIABLES now,          \* env.ledger().timestamp()
          initialized,  \* DataKey::Initialized
          config,       \* DataKey::PoolConfig
          acc,          \* DataKey::Accounting
          shares,       \* DataKey::Shares(provider)
          lastDeposit,  \* DataKey::LastDeposit(provider), -1 if absent
          policies,     \* DataKey::Policy(id)
          oracle,       \* DataKey::OracleData(coverage_type)
          balance,      \* the USDC the token contract holds for the pool
          \* History, read by no action:
          paid,         \* paid[id]: claims paid on policy id
          emptied       \* a withdrawal took the last capital from under outstanding coverage

poolVars == <<now, initialized, config, acc, shares, lastDeposit, policies, oracle, balance, paid,
              emptied>>

PolicyIds == 0 .. MaxPolicies - 1

PoolAccounting == [total_capital : Nat, total_coverage : Nat, total_premiums : Nat,
                   total_shares : Nat, next_policy_id : 0 .. MaxPolicies]

Policy == [status : {"Absent", "Active", "Claimed", "Expired"}, coverage_amount : Nat,
           coverage_type : CoverageType, trigger_threshold : Int, end_time : Nat]

NoPolicy == [status |-> "Absent", coverage_amount |-> 0, coverage_type |-> "FlightDelay",
             trigger_threshold |-> 0, end_time |-> 0]

\* updated_at is -1 where nothing has been pushed yet.
OracleData == [value : Int, updated_at : Int]

PoolInit ==
    /\ now = 0
    /\ initialized = FALSE
    /\ config = InitialConfig     \* not read before initialize writes it
    /\ acc = [total_capital |-> 0, total_coverage |-> 0, total_premiums |-> 0,
              total_shares |-> 0, next_policy_id |-> 0]
    /\ shares = [lp \in Providers |-> 0]
    /\ lastDeposit = [lp \in Providers |-> -1]
    /\ policies = [id \in PolicyIds |-> NoPolicy]
    /\ oracle = [t \in CoverageType |-> [value |-> 0, updated_at |-> -1]]
    /\ balance = 0
    /\ paid = [id \in PolicyIds |-> 0]
    /\ emptied = FALSE

Clamp0(n) == IF n < 0 THEN 0 ELSE n

-----------------------------------------------------------------------------
PoolTick ==
    /\ now < MaxTime
    /\ now' = now + 1
    /\ UNCHANGED <<initialized, config, acc, shares, lastDeposit, policies, oracle, balance, paid,
                   emptied>>

\* A transfer to the pool that is none of its entrypoints: the backstop covering
\* a shortfall, or anyone (external).
Gift(amount) ==
    /\ balance + amount <= MaxCapital
    /\ balance' = balance + amount
    /\ UNCHANGED <<now, initialized, config, acc, shares, lastDeposit, policies, oracle, paid, emptied>>

initialize ==
    /\ ~initialized
    /\ initialized' = TRUE
    /\ config' = InitialConfig
    /\ acc' = [total_capital |-> 0, total_coverage |-> 0, total_premiums |-> 0,
               total_shares |-> 0, next_policy_id |-> 0]
    /\ UNCHANGED <<now, shares, lastDeposit, policies, oracle, balance, paid, emptied>>

\* Mutant: the quotient is rounded up.
CalcSharesUp(amount) ==
    IF acc.total_shares = 0 \/ acc.total_capital = 0 THEN amount
    ELSE (amount * acc.total_shares + acc.total_capital - 1) \div acc.total_capital

\* _calc_shares: one to one on an empty pool, then pro rata.
CalcShares(amount) ==
    IF acc.total_shares = 0 \/ acc.total_capital = 0 THEN amount
    ELSE (amount * acc.total_shares) \div acc.total_capital

provide_capital(lp, amount) ==
    /\ initialized
    /\ balance + amount <= MaxCapital
    /\ acc' = [acc EXCEPT !.total_capital = @ + amount, !.total_shares = @ + CalcShares(amount)]
    /\ shares' = [shares EXCEPT ![lp] = @ + CalcShares(amount)]
    /\ lastDeposit' = [lastDeposit EXCEPT ![lp] = now]
    /\ balance' = balance + amount
    /\ UNCHANGED <<now, initialized, config, policies, oracle, paid, emptied>>

\* _quote_withdrawal: what s shares are worth, and whether the capital that
\* remains carries the coverage sold.  The check is skipped when none remains.
WithdrawalOf(s) == (s * acc.total_capital) \div acc.total_shares
CapitalFree(remaining) ==
    remaining > 0 => (acc.total_coverage * BPS) \div remaining <= config.max_utilization_bps

Unlocked(lp) == lastDeposit[lp] >= 0 => now >= lastDeposit[lp] + config.lockup_days * DAY

\* The writes of a withdrawal of s shares for usdc_out.
Burn(lp, s, usdc_out) ==
    /\ usdc_out <= balance
    /\ acc' = [acc EXCEPT !.total_capital = @ - usdc_out, !.total_shares = @ - s]
    /\ shares' = [shares EXCEPT ![lp] = @ - s]
    /\ balance' = balance - usdc_out
    /\ emptied' = (emptied \/ (acc.total_coverage > 0 /\ acc.total_capital = usdc_out))
    /\ UNCHANGED <<now, initialized, config, lastDeposit, policies, oracle, paid>>

\* Mutant: the utilization left behind is not checked.
withdraw_capitalUnchecked(lp, s) ==
    /\ initialized
    /\ s <= shares[lp] /\ s <= acc.total_shares
    /\ Unlocked(lp)
    /\ Burn(lp, s, WithdrawalOf(s))

withdraw_capital(lp, s) ==
    /\ initialized
    /\ s <= shares[lp] /\ s <= acc.total_shares
    /\ Unlocked(lp)
    /\ CapitalFree(acc.total_capital - WithdrawalOf(s))
    /\ Burn(lp, s, WithdrawalOf(s))

\* _check_coverage_capacity
CapacityFor(amount) ==
    /\ config.min_coverage <= amount /\ amount <= config.max_coverage
    /\ acc.total_coverage + amount
         <= (acc.total_capital * config.max_utilization_bps) \div BPS

buy_policy(params) ==
    LET premium == Premium(config, params)
        id == acc.next_policy_id
    IN /\ initialized
       /\ CapacityFor(params.coverage_amount)
       /\ id \in PolicyIds
       /\ acc' = [total_capital |-> acc.total_capital + premium,
                  total_coverage |-> acc.total_coverage + params.coverage_amount,
                  total_premiums |-> acc.total_premiums + premium,
                  total_shares |-> acc.total_shares,
                  next_policy_id |-> id + 1]
       /\ policies' = [policies EXCEPT ![id] =
                         [status |-> "Active",
                          coverage_amount |-> params.coverage_amount,
                          coverage_type |-> params.coverage_type,
                          trigger_threshold |-> params.trigger_threshold,
                          end_time |-> now + params.duration_days * DAY]]
       /\ balance' = balance + premium
       /\ UNCHANGED <<now, initialized, config, shares, lastDeposit, oracle, paid, emptied>>

\* Division of i128 rounds towards zero; \div rounds down.
TruncDiv(a, b) == IF a >= 0 THEN a \div b ELSE -((-a) \div b)

\* The trigger of each coverage type.
TriggeredBy(policy, value) ==
    CASE policy.coverage_type = "StablecoinDepeg" ->
            value < PRECISION - TruncDiv(policy.trigger_threshold * PRECISION, BPS)
      [] policy.coverage_type = "MarketCrash" -> value < -policy.trigger_threshold
      [] policy.coverage_type \in {"LiquidationShield", "SmartContractRisk"} -> value > 0
      [] policy.coverage_type = "FlightDelay" -> value > policy.trigger_threshold

FreshlyTriggered(policy) ==
    LET data == oracle[policy.coverage_type]
    IN data.updated_at >= 0 /\ now - data.updated_at < FRESH /\ TriggeredBy(policy, data.value)

\* The writes of a claim: the policy, the accounting and the transfer, which
\* traps when the pool does not hold the payout.
Pay(id) ==
    LET payout == policies[id].coverage_amount
    IN /\ payout <= balance
       /\ policies' = [policies EXCEPT ![id].status = "Claimed"]
       /\ acc' = [acc EXCEPT !.total_capital = Clamp0(@ - payout),
                             !.total_coverage = Clamp0(@ - payout)]
       /\ balance' = balance - payout
       /\ paid' = [paid EXCEPT ![id] = @ + 1]
       /\ UNCHANGED <<now, initialized, config, shares, lastDeposit, oracle, emptied>>

\* Mutant: the payout is not taken off the capital.
process_claimUnaccounted(id) ==
    /\ policies[id].status = "Active"
    /\ now <= policies[id].end_time
    /\ FreshlyTriggered(policies[id])
    /\ policies[id].coverage_amount <= balance
    /\ policies' = [policies EXCEPT ![id].status = "Claimed"]
    /\ acc' = [acc EXCEPT !.total_coverage = Clamp0(@ - policies[id].coverage_amount)]
    /\ balance' = balance - policies[id].coverage_amount
    /\ paid' = [paid EXCEPT ![id] = @ + 1]
    /\ UNCHANGED <<now, initialized, config, shares, lastDeposit, oracle, emptied>>

process_claim(id) ==
    /\ policies[id].status = "Active"
    /\ now <= policies[id].end_time
    /\ FreshlyTriggered(policies[id])
    /\ Pay(id)

\* Mutant: no sweep while a reading triggers the policy.
expire_policyUntriggered(id) ==
    /\ policies[id].status = "Active"
    /\ now > policies[id].end_time
    /\ ~FreshlyTriggered(policies[id])
    /\ policies' = [policies EXCEPT ![id].status = "Expired"]
    /\ acc' = [acc EXCEPT !.total_coverage = Clamp0(@ - policies[id].coverage_amount)]
    /\ UNCHANGED <<now, initialized, config, shares, lastDeposit, oracle, balance, paid, emptied>>

expire_policy(id) ==
    /\ policies[id].status = "Active"
    /\ now > policies[id].end_time
    /\ policies' = [policies EXCEPT ![id].status = "Expired"]
    /\ acc' = [acc EXCEPT !.total_coverage = Clamp0(@ - policies[id].coverage_amount)]
    /\ UNCHANGED <<now, initialized, config, shares, lastDeposit, oracle, balance, paid, emptied>>

set_pool_config(cfg) ==
    /\ initialized
    /\ config' = cfg
    /\ UNCHANGED <<now, initialized, acc, shares, lastDeposit, policies, oracle, balance, paid, emptied>>

update_oracle(type, value) ==
    /\ initialized
    /\ oracle' = [oracle EXCEPT ![type] = [value |-> value, updated_at |-> now]]
    /\ UNCHANGED <<now, initialized, config, acc, shares, lastDeposit, policies, balance, paid, emptied>>

OfferedTypes == {params.coverage_type : params \in Offers}

PoolNext ==
    \/ PoolTick
    \/ \E amount \in Gifts : Gift(amount)
    \/ initialize
    \/ \E lp \in Providers, amount \in Amounts : provide_capital(lp, amount)
    \/ \E lp \in Providers : \E s \in 1 .. acc.total_shares : withdraw_capital(lp, s)
    \/ \E params \in Offers : buy_policy(params)
    \/ \E id \in PolicyIds : process_claim(id)
    \/ \E id \in PolicyIds : expire_policy(id)
    \/ \E cfg \in Configs : set_pool_config(cfg)
    \/ \E type \in OfferedTypes, value \in Readings : update_oracle(type, value)

PoolSpec == PoolInit /\ [][PoolNext]_poolVars

-----------------------------------------------------------------------------
\* Type of the pool's storage.  That the accounting stays in Nat (SPEC.md INV-1
\* and INV-2) is a consequence of the guards of withdraw_capital.
PoolTypeOK ==
    /\ now \in 0 .. MaxTime
    /\ initialized \in BOOLEAN
    /\ config \in Configs
    /\ acc \in PoolAccounting
    /\ shares \in [Providers -> Int]
    /\ lastDeposit \in [Providers -> Int]
    /\ policies \in [PolicyIds -> Policy]
    /\ oracle \in [CoverageType -> OracleData]
    /\ balance \in Nat
    /\ paid \in [PolicyIds -> Nat]
    /\ emptied \in BOOLEAN

\* The pool holds the capital its accounting promises to providers, whatever
\* order deposits, withdrawals, premiums and claims come in.
Custody == balance >= acc.total_capital

\* total_shares is the sum of what the providers hold (SPEC.md INV-5: no
\* provider holds more than total_shares).
SharesConserved ==
    /\ \A lp \in Providers : shares[lp] >= 0
    /\ acc.total_shares = SumOver(shares, Providers)

CoverageInForce ==
    [id \in PolicyIds |-> IF policies[id].status = "Active" THEN policies[id].coverage_amount ELSE 0]
ActiveCoverage == SumOver(CoverageInForce, PolicyIds)

\* total_coverage is the coverage of the policies in force: buy_policy,
\* process_claim and expire_policy each move it by their policy's amount, and
\* the clamp at zero never hides a difference.
CoverageConserved == acc.total_coverage = ActiveCoverage

\* A policy is paid once at most, and exactly the Claimed ones are paid.
PaidOnce ==
    \A id \in PolicyIds : paid[id] = IF policies[id].status = "Claimed" THEN 1 ELSE 0

\* Coverage never exceeds capital unless a full withdrawal skipped the check of
\* _quote_withdrawal.
CoverageBacked == ~emptied => acc.total_coverage <= acc.total_capital

\* Until then every policy in force can be paid in full, all of them together:
\* the utilization checks of buy_policy and withdraw_capital suffice, with their
\* rounding, for every order of claims, withdrawals and configuration changes.
\* The totals the checks read are exact (SharesConserved, CoverageConserved).
PolicyholdersCovered ==
    SharesConserved /\ CoverageConserved /\ (~emptied => ActiveCoverage <= balance)

\* There is no capital without a share on it, so no deposit at one to one takes
\* what premiums left behind.
CapitalIsOwned == acc.total_shares = 0 => acc.total_capital = 0

\* Policy ids are dealt without gaps and never twice, from a counter that nothing
\* has moved before initialize.
IdsDense ==
    /\ \A id \in PolicyIds : policies[id].status = "Absent" <=> id >= acc.next_policy_id
    /\ ~initialized => acc.next_policy_id = 0

\* The inductive invariant.
PoolInv == PoolTypeOK /\ Custody /\ CapitalIsOwned /\ CoverageBacked /\ PaidOnce /\ IdsDense

ClaimPaid == \E id \in PolicyIds : paid'[id] # paid[id]

\* SPEC.md INV-4: no step but a claim lowers what a share is worth, so nobody
\* gains at the others' expense by depositing, withdrawing or buying (compared
\* by cross-multiplication; total_capital / total_shares is the price).
SharePriceHolds ==
    [][ClaimPaid \/ acc'.total_capital * acc.total_shares
                      >= acc.total_capital * acc'.total_shares]_poolVars

\* Every policy whose term ends within the bound is settled, paid or expired,
\* whatever the readings: expire_policy depends on nothing but the term.
PoliciesSettle ==
    \A id \in PolicyIds :
        (policies[id].status = "Active" /\ policies[id].end_time < MaxTime)
            ~> policies[id].status \in {"Claimed", "Expired"}
=============================================================================
