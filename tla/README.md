# Refract contracts: TLA+ models, checks and proofs

This directory models the Soroban contracts of the Refract protocol in TLA+,
checks the models with TLC on small instances and proves the most important
properties with TLAPS for every value of the constants. `PROJECT.json` lists
components, runs, mutants, findings, hazards and theorems, and maps every
definition to the source lines it models.

## Platform semantics used everywhere

* **One entrypoint is one step.** The host runs an invocation, with all the
  calls it makes, to its end before the next one, and calls no contract that is
  on the call stack already (`docs/INVARIANTS.md:87-89`). The code of the multisig
  takes the opposite for granted (`multisig/src/lib.rs:504-508`); there the model
  leaves it open (`SelfCallsRun`).
* **Err and traps leave no write** (`GRIEFING_ANALYSIS.md:44`,
  `bounty/src/lib.rs:493`, `common/src/payout.rs:11`). A rejected call is
  therefore no step, and an action's guard is the conjunction of the
  entrypoint's early returns. Where code writes and *then* returns `Err`
  (`timelock::execute`) the write is undone. A callee that fails below
  `try_invoke_contract` undoes its own writes only.
* **Time** is the ledger timestamp; every model has a tick of its own.
* **Callers.** `require_auth` makes the host check a signature; who may call is
  kept as a guard. Nobody's behaviour is restricted beyond that.
* **External code** (tokens, governed targets) is what the contracts assume of
  it: it accepts or fails, freely.

## Inventory

| Component | State | Operations | What is hard |
|---|---|---|---|
| `timelock` | min delay, operations with status and eta, keeper budget | queue, execute, retry, cancel, cancel_failed, expire, execute_due, set_keeper_config | order of calls around eta; writes lost with Err; sweeps in which some callees fail; reward caps per epoch |
| `governance` | configuration, proposals, who voted | propose, cast_vote, finalize, queue, execute, set_config, set_timelock | balances that move while a vote is open; configuration that changes; two paths to the target |
| `pool` | accounting record, shares, policies, readings, configuration | provide_capital, withdraw_capital, buy_policy, process_claim, expire_policy, admin | rounding of shares; capital withdrawn from under coverage; claims and sweeps around the end of a policy; registry and backstop calls |
| `policy` (registry) | records, holder index, counters, trusted pool and its pending change | register, deactivate, propose/confirm/cancel pool, admin handover | the admin writes the index the pool writes; re-pointing while policies are in force |
| `multisig` | owners, threshold, proposals with approvals | propose, approve, execute, add/remove owner, change threshold | rules that change while proposals are pending |
| `oracle` | relayers, queue, reputation, readings, rate limits | add/activate/remove relayer, submit, update_reputation, set_threshold | relayers racing on a feed; removal while queued; back-dated captures |
| `backstop` | tranches with mature and immature capital, lots, totals, premium split | deposit, withdraw, draw_down, cover_shortfall, absorb_loss, receive_premium, exposure calls | lots that mature between a loss and a withdrawal; prices of two tranches; caps at their limit |
| `treasury` | allowlist, payment requests, seeded capital, feeds and tracked assets, reserve, challenges | withdraw, submit/approve/reject/cancel/execute, seed and recall, take_nav_snapshot, challenge/resolve/finalize | approvals against balances that changed; a backstop that changed; challenge windows |
| `bounty` | escrow, payouts, disclosures | fund, award, claim, sweep_expired, commitments | claims racing expiry; escrow conservation |
| `vetoken` | locks, fee index | lock, extend, withdraw, distribute, claim | rounding of shares of fees; expired locks |
| `grants` | grant book with milestones and fees, reviewers and conflicts, change requests, appeals and panels | create, confirm, claim, batch, review, recuse, request/approve/execute a change, refund, appeal | a change executed after what it was filed against moved on; conflicts found late; panels replaced |
| `payout_registry`, `common` | payout index by recipient and reference; failed payouts and their earmark | record; pay, retry, redirect, reclaim | repetitions and lost answers; retry racing reclaim |
| `registry`, `params`, `incident_response` | address book, parameters, guardian | set, remove, propose and accept admin, emergency_lockdown, migrate_pool | handovers that cross; one call of several failing |
| `shared`, `interfaces`, `math` | libraries: guardian set, loss events, withdrawal queue, fee split | declare, attest, authorize; request, cancel, fill | rounding over several rounds; attestation and delay |

Interactions: `pool` calls `policy` (must succeed on a sale, may fail on a
settlement) and `backstop`; `governance` calls `timelock` and targets;
`timelock` and `multisig` call any target; the admin copies oracle readings
into the pool (`update_oracle`); `incident_response` calls `pool`, `policy` and
`oracle` in one transaction; `grants` asks a parameter registry for its fee;
treasury and bounty take the multisig as approver. `harness`, `snapshot_harness`, `testutils`, `integration`, `tests`,
`xtask` and `scripts` hold no protocol state.

Four source files are cut short (`pool/src/lib.rs` after line 903,
`backstop/src/lib.rs` after 823, `bounty/src/lib.rs` after 898,
`treasury/src/lib.rs` after 918). The pool helpers past the cut
(`_calc_shares`, `_quote_withdrawal`, `_check_coverage_capacity`) are modelled
from their replicas in `pool/src/formal_spec.rs`, from
`pool/src/pricing_proptest.rs` and from their callers; `_calc_premium` is a
constant operator with values in Nat. The backstop helpers past its cut
(`_sync_matured`, `_apply_loss`, `_credit_mature_premium`, `calc_shares`,
`quote_withdrawal`) are modelled from their callers and from the crate's tests
and Kani proofs. `grants/src/lifecycle.rs`, `review.rs` and `appeals.rs` are not
in the crate's module tree and extend a struct the tree does not hold; they are
modelled as written, with its `confirm_milestone` and `claim` taken from the
crate's tests.

## Modules

| Module | Models | Extends / instantiates |
|---|---|---|
| `DelayedCalls` | what a timelock promises: a call is delivered at most once and not before it is due, or dropped | |
| `Timelock` | `timelock/src/lib.rs` | `Abstract == INSTANCE DelayedCalls` |
| `TimelockProofs` | theorems about `Timelock` | `Timelock`, `CollectionTheorems`, TLAPS |
| `Governor` | `governance/src/lib.rs` and the voting token | |
| `GovernedTimelock` | governor and timelock together with a target | `Governor`, `TL == INSTANCE Timelock` |
| `GovernanceProofs` | theorems about `Governor` and `GovernedTimelock` | `GovernedTimelock`, `CollectionTheorems`, `TLP == INSTANCE TimelockProofs` |
| `Pool` | `pool/src/lib.rs` and its USDC balance | |
| `PoolProofs` | theorems about `Pool` and `PoolWithRegistry` | `PoolWithRegistry`, `CollectionTheorems`, TLAPS |
| `PolicyRegistry` | `policy/src/lib.rs` | |
| `PoolWithRegistry` | pool and registry and their wiring | `Pool`, `R == INSTANCE PolicyRegistry` |
| `Multisig` | `multisig/src/lib.rs` | |
| `Oracle` | `oracle/src/lib.rs` | |
| `VeToken` | `vetoken/src/lib.rs` and the token it locks | `LedgerClock` |
| `Backstop` | `backstop/src/lib.rs` | `LedgerClock`, `Collections` |
| `LossEvents`, `WithdrawalQueue` | `shared/src/loss_event.rs`, `guardians.rs`, `withdrawal_queue.rs` | `LedgerClock`; `Collections` |
| `CapitalRules` | the backstop, the queue and the loss events under one clock | `Backstop`, `WithdrawalQueue`, `LossEvents` |
| `StakingProofs` | theorems about `VeToken` and `CapitalRules` | these, `CollectionTheorems` |
| `Bounty` | `bounty/src/lib.rs`, the escrow | `LedgerClock` |
| `Promises` | what a paying contract promises: each promise is kept once, in full, or broken off | |
| `Treasury` | `treasury/src/lib.rs`: custody, requests, seeding | `LedgerClock`, `Orders == INSTANCE Promises` |
| `NavSnapshots`, `Challenges` | net asset value and `treasury/src/challenge.rs` | `LedgerClock`, `Collections`; `LedgerClock` |
| `Safeguards` | `treasury/src/reserve.rs`, and the three called in any order | `Challenges`, `NavSnapshots` |
| `FailedPayouts` | `common/src/payout.rs` and a host contract | `LedgerClock`, `Owed == INSTANCE Promises` |
| `PayoutRegistry` | `payout_registry/src/lib.rs` | |
| `PaymentProofs` | theorems about `Treasury`, `FailedPayouts`, `Safeguards`, `PayoutRegistry` and `Bounty` | these, `CollectionTheorems` |
| `GrantsModel`, `Grants` | `grants/src/lib.rs`, `grants/src/contract.rs` | `LedgerClock`; `GrantsModel` |
| `GrantReviews`, `GrantLifecycle`, `Appeals` | `grants/src/review.rs`, `lifecycle.rs`, `appeals.rs` | `LedgerClock`; `GrantReviews`, `Collections` |
| `GrantsProofs` | theorems about `Grants`, `GrantReviews`, `GrantLifecycle` and `Appeals` | these, `CollectionTheorems` |
| `Administration` | `registry`, `params`, `incident_response`, the pool's admin | `PolicyRegistry`, `Oracle` |
| `AdministrationProofs` | theorems about `Oracle`, `PolicyRegistry`, `Administration` and `Multisig` | these, `CollectionTheorems`, TLAPS |
| `LedgerClock` | the timestamp and the absent entry | |
| `Collections` | the sum of a function over a finite set; the entries of a list that stay when it is rebuilt | |
| `CollectionTheorems` | what such sums and lists are and how they change | `Collections`, TLAPS |
| `MC*` | instances for TLC (`Timelock` and `Bounty` need none) | |

Actions have the names of the entrypoints they model. A definition marked
*Mutant* is a plausible bug in the definition after it; no specification uses
it. It shows that the property named with it in `PROJECT.json` can fail.

**Timelock.** `ops` is `DataKey::Operation`, `keeper` is `DataKey::Keeper`.
`execute` and `retry` either mark the operation Executed and forward its call
or are rolled back (`RolledBack`: only the history counts the attempt, which the
crate's tests and comments expect to be recorded: run `timelock_attempts`).
`execute_due` settles every due operation in one step, with any subset of
callees failing, and pays the keeper. History variables record when operations
were queued, called and reverted and what keepers were paid.

**Governor, GovernedTimelock.** Transfers of voting tokens are an external
action, and `set_config` may replace the token while votes are open: `weighed`
keeps, in the history, the part of each tally that was weighed in each token. In
the composition `targetAdmin` says whose calls the target accepts, a choice of the
deployment (`TargetAdmins`) made in the initial state. A proposal calls the target
or any function of the timelock (`Payload`), `queue` included, so one vote may bring
the timelock two operations, by the governor's `queue` and by its `execute`: `route`
tells them apart. An operation that would call the timelock itself is refused by the
host. The operation that a proposal's own `queue` call brings is taken to call the
target: one that called the timelock could only fail.

**Pool.** `acc` is the consolidated `PoolAccounting`; `balance` is the USDC the
token contract holds for the pool; `Gift` is a transfer to the pool outside its
entrypoints. `emptied` records that a withdrawal took the last capital while
coverage was outstanding (the check of `_quote_withdrawal` is skipped then).

**PoolWithRegistry.** `buy_policy` is joined with `register_policy` (both or
neither), settlements with `deactivate_policy` (whichever the registry does).
Pool and registry can be re-pointed to and from each other. `ForeignIndexStep` is
anybody else whom `require_pool_or_admin` lets write the index, the admin and a pool
that `confirm_pool_contract` moved trust to; it may register or deactivate any id,
and `byOthers` remembers which (`MaxForeignCalls` of them).

**Multisig.** Owner changes are calls the multisig makes on itself in
`execute`. The repository disagrees about them: `require_self` expects them to
run, `docs/INVARIANTS.md` says the host makes none. `SelfCallsRun` is that choice.
`administration` takes it as true: without self-calls the behaviours are a subset,
so `DistinctQuorum` holds either way, and the theorem is for both.

**Oracle.** `outsideAt` records when an address was last removed (0: it was
never announced), so that notice is measured from that moment and not from the
queue entry the code reads.

**VeToken.** `locks`, `accounts` and `checkpoint` are the storage entries;
`balance` is what the token contract holds, locked tokens and fees together.
`Settled` is `settle_fee_account`, `ChangeLock` joins it with the new lock and
`refresh_total_power`, in the order of the code: fees are settled on the old
lock, the denominator is refreshed with the new one.

**Bounty.** `escrow` and `reserved` are `Balance` and `Reserved`, `tokenBalance` is
what the token contract holds for it. Commitments are named by their preimages (SHA-256 is taken as
injective). Storage TTL bumps are left out; expiry of a binding is not.

**Backstop.** `book` holds the tranches, each staker's mature and immature
shares and the lots still to mature; `total` is the contract-wide record that
the code updates beside it, and `BackstopExact` says the two agree. `_apply_loss`
lies past the cut: that it takes nothing for an amount that is not positive, and
never more than the tranches hold, is assumed. Only `cover_shortfall` limits the
amount by the total capital; `absorb_loss` passes it on whole, so after a
`draw_down`, which lowers the total and no tranche, the total can fall below zero.

**LossEvents, WithdrawalQueue.** Plain libraries: a refused call returns before
it writes (the overflow of `fill_pro_rata` is the exception, and is out of the
model: the product is taken to fit). No contract calls them: the backstop's own
drawdowns ask no loss event. `LossEvents` works on the guardian set it
was created with, while the owner's set changes on. `authorize_drawdown`
changes nothing; the history `drawn` keeps what it allowed.

**Treasury and its neighbours.** `Treasury` keeps the requests and one counter
of seeded capital for all backstops, as the code does. `BackstopMoves` is what else
happens at a backstop: others bring tokens and the backstop loses some, so that a
recall may find less than was seeded there, or take what others brought. `seedsOut`
(seeded less recalled) and `others` are history. In `Safeguards` the history
`reported` is the largest obligations the reserve was told of. `FailedPayouts` joins the
ledger with the host contract that the comment of `pay` describes. Any transfer
may fail for as long as the token likes.

**Grants.** `Grants` is `GrantsModel` with tokens, fees and screening.
`GrantLifecycle` follows one grant and its open request while milestones are
confirmed and claimed; the review quorum of `GrantReviews` gates confirmation.
`Appeals` follows one rejected application through its panels.

**Administration.** `emergency_lockdown` is one action with the three calls it
makes; `Handover` and `Acceptance` are the holders' and nominees' own calls in
between. `named` and `lockdown` are history: a `Handover` on any of the three
contracts ends what `lockdown` says, also one by a compromised admin that the policy
registry or the oracle still has (`incident_response/src/lib.rs:104-106`).

## Runs

A run follows one system or one group of contracts with a common concern. Where
the members of a group share no state, a variable `part` says in the first state
which one is at work: the run explores each of them completely and none of their
products. `administration` is such a group except for `incident`, which runs the
coordinator, the policy registry, the oracle and the pool's admin together.

| Run | Shows | States |
|---|---|---|
| `timelock` | no call before its delay, none twice, statuses tied to calls (`Inv`), rewards within the cap of every epoch, final statuses final, refinement of `DelayedCalls`, due operations leave Pending | 409 k |
| `governed_timelock` | tallies bounded, token by token, and outcomes final after the close (`OutcomeStands`); what the timelock holds comes from a carried vote, once on each way; calls wait and take effect once where the target obeys the timelock alone | 1.2 M |
| `pool` | custody and the accounting (`PoolInv`); shares and coverage conserved and coverage backed (`PolicyholdersCovered`); share price | 2.2 M |
| `pool_with_registry` | nothing in force unlisted unless others wrote its record, the registry never blocks a payout, every policy settles | 384 k |
| `staking` | claims within the fees and every lock returnable, locks never shortened; backstop capital and shares exact, the drawdowns of the loss events attested a delay before, queue fills exact (`CapitalRulesHold`); no staker diluted | 1.9 M |
| `bounty` | reservations exact and covered, one commitment per report, one settlement per promise, unclaimed payouts come free | 1.4 M |
| `treasury` | tokens accounted for across requests, withdrawals, seeding and recall, with backstops that hold others' tokens and lose some (`CustodyExact`); challenged withdrawals wait, snapshots list every tracked asset, the reserve keeps its share of the obligations reported (`SafeguardsHold`); earmark equals what is owed; one index entry per reference and complete pages; requests and failed payouts implement `Promises` | 647 k |
| `grants` | claims paid exactly whatever the fee rate does; only unconflicted approvals count; an award is conserved through amendments, terminations and refunds; a panel's own majority decides; terminated grants close; appeals end | 423 k |
| `administration` | distinct quorums and a reachable threshold; relayers' notice; newest capture and rate limit; registry counters and holder index; a lockdown holds against handovers under way until a holder hands over anew; re-pointing waits | 695 k |

Violation runs; each shows that the code differs from what a comment of the
repository says (quoted in `PROJECT.json`, `findings`):

* `timelock_attempts`: a failing `execute` or `retry` records nothing, although the
  crate's tests and the comment of `retry` expect Failed and a counted attempt.
* `bounty_record`: a report awarded by commitment can also be awarded directly,
  and the later claim overwrites its record.
* `guardian_lockdown`: a guardian's lockdown always fails, because the pool
  refuses a caller who is not its admin.

Where a module has a type invariant it is a conjunct of its first safety invariant,
and proved with it where that one is.

**Bounds.** Two operations, proposals, policies, providers, owners, requests,
grants, panels or backstops are the smallest number at which one interferes with
another; three where a third is needed (signers of a two-of-three quorum, an
incumbent, its nominee and the incident's new admin, references that fill more
than a page). Times reach past one delay, lock-up, freshness, notice, challenge
or reclaim period with room for a second round. Scales are small (`BPS = 10`,
`BPS_DENOM = 2`, a day is one tick) so that quotients round on small amounts.
`MaxReverts`, `MaxTransfers`, `MaxCapital`, `MaxTime` and the like bound
counters and appear in guards only; where a part needs less time than its
neighbours the MC module ends its clock earlier (`BackstopTime`,
`ChallengeTime`, `RegistryTime`). Symmetry is used for providers, lockers,
stakers, relayers, holders and addresses, in runs without liveness properties.
Deadlock is not checked where every clock and counter of the model can reach its
bound; no contract is supposed to stay busy for ever.

**Fairness.** Three kinds are assumed. Ledgers keep closing (`WF` of the
tick). Permissionless entrypoints that keepers are rewarded or expected to call
are called eventually when they stay enabled: `execute_due` (`FairSpec`),
`expire_policy` (`FairPRSpec`), `sweep_expired` (`FairBountySpec`) and
`escalate_stalled` (`AppealsFairness`), all open to anyone. For the closing of a
terminated grant, and only there, the two sides that are owed tokens collect
them: the grantee claims and governance executes the refund to its own treasury
(`LifecycleFairness`); neither has to do so before the other. Nothing is assumed
of admins, voters, claimants, providers or relayers elsewhere.

## Proofs

Every theorem holds for all values of the constants under the named assumptions
of the modules (`TimelockConstants`, `PoolConstants` ...), which TLC evaluates
in the runs. They say that amounts and times are numbers, that sets the code
keeps sums over are finite (a contract's storage is), and that the value that
stands for an absent storage entry is no entry (`AbsentKeeper`, `AbsentRequest`,
`AbsentRecord`, `AbsentWithdrawal`, `AbsentPayout`, `AbsentReading`,
`AbsentPolicy`, `AbsentAppeal`, `AbsentLot`, `NoBook`, `KeeperUnset`). Two
go beyond that and are said with their theorems. Each temporal theorem rests on
an inductive invariant: it holds initially, every action keeps it (one step of
the proof per action), and it implies the property.

**`CollectionTheorems`.** `SumOver(f, S)` adds by removing one element at a time, so
facts about it need induction over finite sets. They are proved by the smallest
counterexample: among the subsets of `S` that violate the fact one has the fewest
elements, and removing any element from it yields a smaller one. The lemmas say
that a sum of numbers is a number, changes as one or two of its terms change,
bounds its terms and its parts, can be added, scaled, compared and split, and is
the same when its terms are renumbered. A contract drops entries from a list by
rebuilding it; `Picked(seq, kept)` is what that leaves, defined by counting the
kept positions and not by recursion, so that what it leaves can be proved:
the kept entries, in their order, and of a list without repetition all but the
dropped one (`Without`).

**`TimelockProofs`**

* `TypeCorrect`, `InvHolds`: `Inv` is inductive. It adds to the type invariant
  that ids are dense, that the call count of an operation follows its status,
  and that an operation's eta lies its delay past the time it was queued.
  `DelayRespected` and `ForwardedOnce` alone are not inductive: a retry of a
  Failed operation is harmless only because Failed operations were due and
  never called.
* `DelayAlwaysRespected`, `AlwaysForwardedOnce`, `StatusesFinal` follow.
* `Refinement`: every step maps to a step of `DelayedCalls` or leaves it alone
  (sweeps deliver a set of calls, a rolled-back attempt is a stutter).
* `KeeperAlwaysCapped`: `KeeperCap`. The invariant relates the payments of the
  history to the stored epoch: the epoch paid what the contract recorded, within
  the cap; the stretch of one epoch length before it paid at most the cap; and
  nothing was paid in the future. The second part is what bounds any window that
  straddles two epochs by twice the cap.

**`PoolProofs`** (with `UtilizationBelowOne`: the configured cap is below 100 %,
as in every configuration of the repository; the code does not enforce it)

* `PoolSafe`: `PoolInv`, inductive: the accounting stays non-negative, the
  tokens held cover the recorded capital, capital without shares does not
  exist, coverage stays within capital unless `emptied`, and a policy pays at
  most once. The arithmetic is in the lemmas on quotients
  (`WithdrawalBounds`, `CapacityWithinCapital`, `UtilizationWithinCapital`).
* `SharePriceNeverFalls`: no step except a claim lowers
  capital/shares, by cross multiplication: both quotients round in the pool's
  favour.
* `PolicyholdersAlwaysCovered`: with the sums of shares and of coverage in force
  in the invariant. The totals the code clamps at zero are exact only because the
  sum contains the term that is taken off, so the clamp never acts.
* `NothingEverUnlisted`, of pool and registry together. Every step of the
  composition is a step of the pool or leaves it alone (`PoolInside`), so
  `PoolInv` holds there too; the registry's part is that a sale writes a record
  and that only this pool's settlements, the admin and another pool the registry
  came to trust end it. It says nothing of an id those two wrote.

**`PaymentProofs`**

* `CustodyHolds`: the type invariant, that each request was paid by its status
  and approved by somebody else, that of every token what came in is held, spent
  or was seeded and not recalled, that what lies at the backstops is this and what
  others brought and lost (a sum over backstops), and that the counter is the sum
  of the seeds over the tokens. The counter never falls below zero, so recalls
  never exceed seeds in all; of a single token or backstop they can.
* `OrdersArePromises`, `OwedArePromises`: treasury requests and failed payouts
  implement `Promises`, each action mapped to giving, keeping or breaking one
  promise, or to a stutter.
* `EarmarkHolds`: the earmark is the sum over the open records.
* `ChallengesKeepHold`: `ChallengesHold`, of the challenge windows alone. The
  invariant keeps with each withdrawal the window of its approval and that what
  governance turned down stays cancelled.
* `SafeguardsAlwaysHold`: that, with the snapshots and the reserve, for any order
  of the calls. The list of tracked assets has no repetition and names exactly
  the assets with a feed: setting a feed appends to it only what it lacks,
  clearing one rebuilds it without the asset. Each asset of a snapshot stays at or
  below balance times price because its quotient is rounded down, and the total is
  their sum. The reserve stays within the target of the largest obligations reported
  because that target only grows with them (`TargetGrows`).
* `IndexAlwaysExact`: the payout registry. `IndexExact` says how many records an
  index entry points at and what pages return; inductive is `IndexInv`, that the
  entry of a reference and the record at its position point at each other, with
  the totals as sums over the records. That pages of `MAX_PAGE_SIZE`, read one
  after the other, return every record once follows from it.
* `OutstandingAlwaysCovered`, `AlwaysOneCommitment`, `SettlementsAlwaysFinal`:
  the bounty escrow. `BountyInv` says that the reservation is the sum of the
  pending payouts plus that of the awarded commitments; that claims never take
  the reservation below zero needs exactly this equality.

**`AdministrationProofs`**

* `RelayersAlwaysGaveNotice`, `AlwaysServesNewest`: `OracleInv` adds that the
  stored reading is the newest capture accepted, and that after n submissions the
  ledger time of a relayer's last one lies at least n - 1 intervals past the start.
* `StatsAlwaysAgree`, `RepointsAlwaysWait`: `RegInv` adds that a proposal on file
  carries the delay in force when it was made.
* `LockdownAlwaysHolds`: `LockdownInv` adds that while the incident's successor
  holds or is named for a contract, nobody else is nominated there. The theorem
  reaches until a current holder hands over anew; that a compromised admin proposes
  another before the new one accepts is possible and is such a handover.
* `QuorumsAlwaysDistinct`, where no owner list given to `initialize` names an
  owner twice. The code does not check that, and without it the theorem is false:
  the threshold may count list entries that no distinct owners fill, and one
  removal can empty the list.

**`GrantsProofs`**

* `ReviewersAlwaysIndependent`, `PanelsAlwaysDecide`: `AppealsInv` adds that no
  ballot carries the version of a panel to come, which makes the empty tally of a
  new panel exact.
* `AwardAlwaysConserved`: what a grant was awarded is on its schedule, to be
  refunded or refunded, through every sequence of amendments, extensions and
  terminations, confirmations and claims, and the audit trail adds up. A change replaces the
  pending milestones and keeps the confirmed ones; that this loses nothing needs
  that the confirmed ones stand in front (confirmation goes in order) and that
  only confirmed ones are claimed. `LifecycleInv` adds this, that a terminated or
  closed grant has nothing pending and a closed one nothing to claim or refund,
  and that the trail's records follow each other from the first schedule to the
  current one. It takes from `LifecycleConstants` that the amounts of the first
  schedule are positive, which `create_grant` checks.
* `ClaimsAlwaysPaidExactly`: every grant of both books is exact (claimable is the
  sum over confirmed and unclaimed milestones, the total that over all), batches
  included, and the money that left or is set aside is the sum over claimed ones.

**`GovernanceProofs`**

* `OutcomesStand`: `TallyInv` counts, token by token, with the votes cast what holders
  who have not voted could still cast; a transfer to such a holder adds to that sum
  what `moved` adds to the bound. A replaced voting token starts a count of its own,
  and the holders who voted cannot vote again in it.
* `CallsAlwaysWait`, `CallsAlwaysOnce`, of governor and timelock together. The
  timelock's own `TypeStep` and `InvStep` are used through
  `TLP == INSTANCE TimelockProofs`; `Handover` ties each operation to the vote it
  came from and to the way it came, and no two operations share both. `execute` may
  forward any function of the timelock, each of which is a step of the timelock too.

**`StakingProofs`**

* `LocksAlwaysReturnable`: the invariant measures what each locker is entitled to
  before rounding, in units of 1/`SCALE`: claims and entitlements together never
  exceed the fees distributed, and the balance is what is locked plus the fees
  not yet claimed. It holds because the power recorded at the last settlement is
  never below the live power, and the shared denominator is the sum of the
  recorded ones.
* `LocksAlwaysHold`: an action property; only `withdraw` lowers a lock, and it
  compares with the stored unlock time.
* `CapitalRulesAlwaysHold`, of the three together, each with an invariant of its own
  and none a condition of another (the backstop asks neither library).
  `BackstopInv`: in each tranche the shares are the sums over the stakers and the
  assets those of the mature shares plus the principal of the lots, and a tranche
  without mature shares has no mature assets (so the first to mature owes nobody a
  share of what came before). That a staker's immature shares are those of the staker's
  lots is what lets a lot mature without a shortfall. `QueueInv`: ids rise along
  the queue, and what was asked under an id is filled, waiting or cancelled; a round pays out all that is asked or available
  but for less than one share per request, by rounding. `LossInv`: the attesters
  of an event are those who signed, all of them on its panel, and at its
  `attested_at` the threshold had signed; a drawdown lies the delay after it.
* `StakersNeverDiluted`: an action property of the backstop, from `BackstopInv`,
  by cross multiplication: deposits, withdrawals and premiums round every
  quotient against the caller.

**Only model-checked.** Liveness (`DueOpsResolve`, `PoliciesSettle`,
`PayoutsSettle`, `TerminatedGrantsClose`, `AppealsResolve`) and what is said with
`ENABLED` (`RegistryNeverBlocksPayout`): the prover has no rules for either.
Every other property of a passing run is the statement of a theorem.

## Where the code and its comments differ

Met while modelling, besides the three findings above. The models follow the code.

| Code | What it does | What is said |
|---|---|---|
| `timelock/src/lib.rs:559` | `expire` has no time test | `:544` an operation "whose `eta` is past" |
| `timelock/src/lib.rs:676` | the sweep stores Failed | `:630`, `docs/accounting-and-guardians.md:48` failures are left Pending |
| `governance/src/lib.rs:326` | votes weigh the live balance | `:9` balances at the snapshot ledger |
| `governance/src/lib.rs:455` | `execute` forwards a queued proposal at once, also when the timelock holds it and will forward it again | `:18` the timelock executes it after its delay; `:29` "timelock or direct forward" |
| `pool/src/formal_spec.rs:198` | a withdrawal of all capital skips the utilization check, and the check rounds down | `SPEC.md:75`, `:87` INV-3 after any entrypoint |
| `policy/src/lib.rs:773` | the admin may register ids the pool has not sold | `:376` the two stay in lockstep |
| `pool/src/lib.rs:742` | `expire_policy` refuses settled policies, so it never repairs the registry | `policy/src/lib.rs:52` repair by `expire_policy` |
| `multisig/src/lib.rs:507` | the management functions run only as a call of the multisig to itself, made by `execute` (`:399`); where the host makes none to a contract on the call stack (`docs/INVARIANTS.md:87-89`), owners and threshold never change. No test makes the call | `:18` owner changes go through propose, approve and execute, so the multisig governs itself |
| `multisig/src/lib.rs:444` | `remove_owner`, where it runs, leaves the owner's approvals on pending proposals | `:34` "their approval is **retracted**" |
| `multisig/src/lib.rs:440` | an owner listed twice is removed twice, leaving none | `:430` the last owner cannot be removed |
| `oracle/src/lib.rs:453` | reputation restarts at every activation | `:452` only at the first |
| `oracle/src/lib.rs:926` | only relayers submit | `:674` the admin too |
| `oracle/src/lib.rs:799` | triggers use compiled-in thresholds | `:546` the configured ones |
| `bounty/src/lib.rs:673` | an expired binding cannot be rotated, nor registered anew, so its award stays reserved | `:198` expired "until refreshed/rotated" |
| `backstop/src/lib.rs:519` | a withdrawal redeems mature shares at once; the positions of `request_unstake` are filled by no deposit, so it always fails | `:23` shares are burned "after the cooldown period" |
| `backstop/src/lib.rs:677` | `absorb_loss` does not compare the amount with the total capital, which `draw_down` may have lowered (as far as `_apply_loss`, past the cut, goes by the tranches) | `stress_test.rs:12` "`total_capital >= 0` always" |
| `backstop/src/lib.rs:542` | the amount is rounded down, so the price may rise | `docs/INVARIANTS.md`, INV-BACK-04: the price "before and after a withdrawal is identical" |
| `shared/src/loss_event.rs:123` | each drawdown is compared with the declared amount alone, so several can exceed it together | `:24` "the most capital this event may justify drawing" |
| `shared/src/withdrawal_queue.rs:128` | an overflow halfway returns `Err` with the earlier requests already reduced and their fills dropped | `:99` the rest stays queued |
| `common/src/payout.rs:380` | the scan budget can run out on resolved records: a page may be empty while failed payouts follow, with no last id to go on from | `:379` "page by passing the last id + 1" |
| `grants/src/contract.rs:234` | there is no `fund`: tokens come in by plain transfer, and a claim of an unfunded milestone traps | `docs/INVARIANTS.md`, INV-GRAN-01: funds "must be deposited via `fund`", and the balance covers what is claimable |
| `grants/src/lifecycle.rs:301` | `close_request` restores the earlier status without `close_if_settled`: a grant whose last milestone was claimed meanwhile stays open | `:609` closed "once nothing is left to claim or refund" |
| `treasury/src/lib.rs:652` | one counter limits the recalls: after a change of the backstop, or of the token, a recall may take what others brought there | `:631` the treasury "never recalls more than it originally seeded" |
| `treasury/src/lib.rs:777` | `execute_payment_request` does not look at the allowlist | `:8` enforced on every value-moving entrypoint |

## Not modelled

`upgrade` of any contract (replaces the code), events, storage lifetimes and
transaction cost (`execute_due` walks every id ever queued), i128 overflow (the workspace builds with overflow checks, so
it traps), and reentrancy guards (the host prohibits re-entry). The pool's
exposure calls to the backstop: `check` and `record_policy_exposure` and the
release lie past the end of `backstop/src/lib.rs`. The libraries no contract
calls (`bounty/src/{disclosure,escrow_refill,wind_down,evidence}.rs`, the side
libraries of `grants`, `shared/src/{facility,allowlist}.rs`): single checks over
their arguments, or single guarded assignments. `xtask`, `scripts` and the test
support keep no protocol state.

## What is left

The contracts and compositions above, the abstract specifications `DelayedCalls`
and `Promises`, and a theorem for every safety property the prover can state are
in place. Worth adding when the sources allow it: the pool's exposure calls to
the backstop, once the end of `backstop/src/lib.rs` is there to translate, and
the grant extensions, once their struct is part of the crate.
