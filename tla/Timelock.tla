------------------------------ MODULE Timelock ------------------------------
(***************************************************************************)
(* RefractTimelock: queued cross-contract calls that anyone may forward    *)
(* once their eta has passed.                                              *)
(*                                                                         *)
(* Every entrypoint is one transaction.  An entrypoint that returns Err,   *)
(* or traps, leaves no write behind (the platform rolls the invocation     *)
(* back), so such a call is a step only where a history variable counts    *)
(* it.  The callee is external: each forwarded call succeeds or reverts,   *)
(* chosen freely.                                                          *)
(***************************************************************************)
EXTENDS Integers, FiniteSets, Collections

CONSTANTS MaxOps,          \* bound on the operations queued
          MaxTime,         \* bound on the ledger time
          Etas,            \* the eta values queue may be called with
          MaxReverts,      \* the count of reverted attempts saturates here
          Delays,          \* the min_delay values initialize may be called with
          KeeperRewards,   \* arguments of set_keeper_config
          KeeperCaps,
          EpochLens,
          NoKeeper         \* DataKey::Keeper absent from storage

ASSUME TimelockConstants ==
    /\ MaxOps \in Nat /\ MaxTime \in Nat /\ MaxReverts \in Nat
    /\ Etas \subseteq Nat /\ Delays \subseteq Nat
    /\ KeeperRewards \subseteq Int /\ KeeperCaps \subseteq Int /\ EpochLens \subseteq Nat

VARIABLES now,           \* env.ledger().timestamp()
          initialized,   \* DataKey::Admin is set
          minDelay,      \* DataKey::MinDelay
          nextId,        \* DataKey::NextId
          ops,           \* DataKey::Operation(id)
          keeper,        \* DataKey::Keeper
          \* History, read by no action:
          queuedAt,      \* when each operation was queued
          calls,         \* how often its call took effect on the target
          calledAt,      \* when it last took effect
          reverts,       \* how often its call was attempted and the callee reverted
          paid           \* keeper reward handed out at each time since set_keeper_config

storage == <<initialized, minDelay, nextId, ops, keeper>>
history == <<queuedAt, calls, calledAt, reverts, paid>>
vars == <<now, storage, history>>

Ids == 0 .. MaxOps - 1
Times == 0 .. MaxTime

Statuses == {"Absent", "Pending", "Executed", "Cancelled", "Failed", "Expired"}
Final == {"Executed", "Cancelled", "Expired"}

Operation == [status : Statuses, eta : Nat, attempt_count : Nat, last_failed_at : Nat]

NoOperation == [status |-> "Absent", eta |-> 0, attempt_count |-> 0, last_failed_at |-> 0]

KeeperConfig == [reward_per_call : Nat, cap_per_epoch : Nat, epoch_len_secs : Nat,
                 epoch_start : Nat, epoch_spent : Nat]

ASSUME AbsentKeeper == NoKeeper \notin KeeperConfig

NothingPaid == [t \in Times |-> 0]

Init ==
    /\ now = 0
    /\ initialized = FALSE
    /\ minDelay = 0
    /\ nextId = 0
    /\ ops = [i \in Ids |-> NoOperation]
    /\ keeper = NoKeeper
    /\ queuedAt = [i \in Ids |-> 0]
    /\ calls = [i \in Ids |-> 0]
    /\ calledAt = [i \in Ids |-> 0]
    /\ reverts = [i \in Ids |-> 0]
    /\ paid = NothingPaid

-----------------------------------------------------------------------------
\* Ledgers close with increasing timestamps.
Tick == /\ now < MaxTime
        /\ now' = now + 1
        /\ UNCHANGED <<storage, history>>

initialize(delay) ==
    /\ ~initialized
    /\ initialized' = TRUE
    /\ minDelay' = delay
    /\ nextId' = 0
    /\ UNCHANGED <<now, ops, keeper, history>>

StoreOperation(eta) ==
    /\ nextId \in Ids
    /\ ops' = [ops EXCEPT ![nextId] = [status |-> "Pending", eta |-> eta,
                                       attempt_count |-> 0, last_failed_at |-> 0]]
    /\ nextId' = nextId + 1
    /\ queuedAt' = [queuedAt EXCEPT ![nextId] = now]
    /\ UNCHANGED <<now, initialized, minDelay, keeper, calls, calledAt, reverts, paid>>

\* Mutant: eta is compared with the present, not with the end of the delay.
queueNoDelay(eta) == initialized /\ eta >= now /\ StoreOperation(eta)

queue(eta) == initialized /\ eta >= now + minDelay /\ StoreOperation(eta)

Due(id) == ops[id].status = "Pending" /\ now >= ops[id].eta

\* Mutant: the sweep stops one id short.
DueIdsShort == {id \in Ids : id + 1 < nextId /\ Due(id)}

\* The due operations, whose number due_count returns.
DueIds == {id \in Ids : id < nextId /\ Due(id)}

MarkExecuted(id) ==
    /\ ops' = [ops EXCEPT ![id].status = "Executed"]
    /\ calls' = [calls EXCEPT ![id] = @ + 1]
    /\ calledAt' = [calledAt EXCEPT ![id] = now]
    /\ UNCHANGED <<now, initialized, minDelay, nextId, keeper, queuedAt, reverts, paid>>

OneMore(n) == IF n < MaxReverts THEN n + 1 ELSE n

\* The callee reverted inside execute or retry: Failed and the incremented
\* attempt_count are written, then Err(NotFound) rolls them back, so that the
\* operation stays as it was.  Only execute_due records a failure.
RolledBack(id) ==
    /\ reverts' = [reverts EXCEPT ![id] = OneMore(@)]
    /\ UNCHANGED <<now, storage, queuedAt, calls, calledAt, paid>>

execute(id) == Due(id) /\ (MarkExecuted(id) \/ RolledBack(id))

\* Mutant: an operation that was executed already may be retried.
retryDone(id) ==
    /\ ops[id].status \in {"Failed", "Executed"}
    /\ now >= ops[id].eta
    /\ MarkExecuted(id) \/ RolledBack(id)

Retriable(id) == ops[id].status = "Failed" /\ now >= ops[id].eta

retry(id) == Retriable(id) /\ (MarkExecuted(id) \/ RolledBack(id))

SetStatus(id, from, to) ==
    /\ initialized
    /\ ops[id].status \in from
    /\ ops' = [ops EXCEPT ![id].status = to]
    /\ UNCHANGED <<now, initialized, minDelay, nextId, keeper, history>>

\* Mutant: only an executed operation is out of cancel's reach.
cancelExpired(id) == SetStatus(id, {"Pending", "Failed", "Expired"}, "Cancelled")

cancel(id) == SetStatus(id, {"Pending"}, "Cancelled")
cancel_failed(id) == SetStatus(id, {"Failed"}, "Cancelled")
expire(id) == SetStatus(id, {"Pending"}, "Expired")

-----------------------------------------------------------------------------
\* The permissionless keeper sweep and its capped reward.

StoreKeeper(reward, cap, len) ==
    /\ initialized
    /\ keeper' = [reward_per_call |-> reward, cap_per_epoch |-> cap, epoch_len_secs |-> len,
                  epoch_start |-> now, epoch_spent |-> 0]
    /\ paid' = NothingPaid
    /\ UNCHANGED <<now, initialized, minDelay, nextId, ops, queuedAt, calls, calledAt, reverts>>

set_keeper_config(reward, cap, len) ==
    reward >= 0 /\ cap >= 0 /\ len # 0 /\ StoreKeeper(reward, cap, len)

DefaultKeeper == [reward_per_call |-> 0, cap_per_epoch |-> 0, epoch_len_secs |-> 86400,
                  epoch_start |-> now, epoch_spent |-> 0]

\* The configuration a sweep settles against: the epoch rolls over first.
CurrentEpoch ==
    LET cfg == IF keeper = NoKeeper THEN DefaultKeeper ELSE keeper
    IN IF now >= cfg.epoch_start + cfg.epoch_len_secs
       THEN [cfg EXCEPT !.epoch_start = now, !.epoch_spent = 0]
       ELSE cfg

Least(a, b) == IF a < b THEN a ELSE b
Clamp0(a) == IF a < 0 THEN 0 ELSE a

\* Mutant: what the epoch already paid does not count.
RewardFullCap(cfg, executed) == Least(executed * cfg.reward_per_call, cfg.cap_per_epoch)

Reward(cfg, executed) ==
    Clamp0(Least(executed * cfg.reward_per_call, cfg.cap_per_epoch - cfg.epoch_spent))

settle_keeper_epoch(executed) ==
    LET cfg == CurrentEpoch
        reward == Reward(cfg, executed)
    IN /\ keeper' = [cfg EXCEPT !.epoch_spent = @ + reward]
       /\ paid' = [paid EXCEPT ![now] = @ + reward]

\* What a sweep stores for an operation whose callee accepted, or reverted.
Succeed(op) == [op EXCEPT !.status = "Executed"]
Fail(op) == [status |-> "Failed", eta |-> op.eta,
             attempt_count |-> op.attempt_count + 1, last_failed_at |-> now]

\* succeeded is the set of due operations whose callee accepts the call; the
\* others are persisted as Failed.  The sweep itself always succeeds.
execute_due(succeeded) ==
    LET failed == DueIds \ succeeded
    IN /\ ops' = [i \in Ids |-> IF i \in succeeded THEN Succeed(ops[i])
                                ELSE IF i \in failed THEN Fail(ops[i])
                                ELSE ops[i]]
       /\ calls' = [i \in Ids |-> IF i \in succeeded THEN calls[i] + 1 ELSE calls[i]]
       /\ calledAt' = [i \in Ids |-> IF i \in succeeded THEN now ELSE calledAt[i]]
       /\ reverts' = [i \in Ids |-> IF i \in failed THEN OneMore(reverts[i]) ELSE reverts[i]]
       /\ settle_keeper_epoch(Cardinality(succeeded))
       /\ UNCHANGED <<now, initialized, minDelay, nextId, queuedAt>>

Sweep == \E succeeded \in SUBSET DueIds : execute_due(succeeded)

Next ==
    \/ Tick
    \/ \E delay \in Delays : initialize(delay)
    \/ \E eta \in Etas : queue(eta)
    \/ \E id \in Ids : execute(id)
    \/ \E id \in Ids : retry(id)
    \/ \E id \in Ids : cancel(id)
    \/ \E id \in Ids : cancel_failed(id)
    \/ \E id \in Ids : expire(id)
    \/ \E r \in KeeperRewards, c \in KeeperCaps, l \in EpochLens : set_keeper_config(r, c, l)
    \/ Sweep

Spec == Init /\ [][Next]_vars

\* Keepers keep sweeping (the sweep is permissionless and rewarded) and ledgers
\* keep closing.
FairSpec == Spec /\ WF_vars(Tick) /\ WF_vars(Sweep)
-----------------------------------------------------------------------------
\* Type of the storage and of the history (timelock/src/lib.rs, DataKey).
TypeOK ==
    /\ now \in Times
    /\ initialized \in BOOLEAN
    /\ minDelay \in Nat
    /\ nextId \in 0 .. MaxOps
    /\ ops \in [Ids -> Operation]
    /\ keeper \in KeeperConfig \cup {NoKeeper}
    /\ queuedAt \in [Ids -> Times]
    /\ calls \in [Ids -> Nat]
    /\ calledAt \in [Ids -> Times]
    /\ reverts \in [Ids -> Nat]
    /\ paid \in [Times -> Nat]

\* No forwarded call takes effect before its eta, nor before min_delay has
\* passed since it was queued, whichever of execute, retry and execute_due
\* forwards it.
DelayRespected ==
    \A id \in Ids : calls[id] > 0 =>
        /\ calledAt[id] >= ops[id].eta
        /\ calledAt[id] >= queuedAt[id] + minDelay

\* The target sees the call of an operation exactly once if the operation is
\* Executed and never otherwise, however execute, sweeps, retries, failures and
\* cancellations of it interleave.
ForwardedOnce ==
    \A id \in Ids : calls[id] = IF ops[id].status = "Executed" THEN 1 ELSE 0

\* Executed, Cancelled and Expired operations never change status again, and no
\* operation is ever un-queued or has its eta moved.
FinalStatuses ==
    [][\A id \in Ids :
        /\ ops[id].status \in Final => ops'[id].status = ops[id].status
        /\ ops[id].status # "Absent" => /\ ops'[id].status # "Absent"
                                       /\ ops'[id].eta = ops[id].eta]_vars

\* A Failed operation is one a sweep ran when it was due, and exactly one attempt
\* is recorded for it, because the increments of execute and retry are rolled
\* back with their Err.  The tests and comments of the crate expect otherwise:
\* AttemptsRecorded.  Hence the RetryTooSoon branch of retry is never taken.
FailedWasDue ==
    \A id \in Ids : ops[id].status = "Failed" =>
        /\ now >= ops[id].last_failed_at
        /\ ops[id].last_failed_at >= ops[id].eta
        /\ ops[id].attempt_count = 1
        /\ reverts[id] >= Least(1, MaxReverts)

\* What timelock/src/test.rs and the comments of execute, retry and attempt_count
\* say: an attempt the callee reverted is recorded, whichever of execute, retry
\* and execute_due made it ("On a second failure the status stays Failed with
\* updated failure_code, attempt_count, and last_failed_at").  The code does not
\* do this: see RolledBack.
AttemptsRecorded == \A id \in Ids : ops[id].attempt_count >= reverts[id]

\* Operations occupy exactly the ids below NextId, so the id order of the sweep
\* in execute_due, and due_count, skip nothing.
IdsDense == \A id \in Ids : (ops[id].status = "Absent") <=> (id >= nextId)

\* Every operation in storage was queued by the admin with an eta that respects
\* the delay, and the delay never changes under it (initialize cannot run twice):
\* with this, the properties above survive every step.
Inv ==
    /\ DelayRespected
    /\ ForwardedOnce
    /\ FailedWasDue
    /\ IdsDense
    /\ \A id \in Ids :
         /\ queuedAt[id] <= now /\ calledAt[id] <= now
         /\ ops[id].status # "Absent" => initialized /\ ops[id].eta >= queuedAt[id] + minDelay
         /\ ops[id].status = "Pending" => ops[id].attempt_count = 0

\* While one keeper configuration stands, the rewards of any epoch_len_secs
\* consecutive seconds stay within twice cap_per_epoch (two epochs may share
\* them) and those since epoch_start within cap_per_epoch, so neither rolling an
\* epoch over nor sweeping repeatedly in it lifts the cap.
KeeperCap ==
    keeper # NoKeeper =>
        /\ SumOver(paid, {t \in Times : t >= keeper.epoch_start}) <= keeper.cap_per_epoch
        /\ \A t \in Times :
             SumOver(paid, {u \in Times : t <= u /\ u < t + keeper.epoch_len_secs})
                 <= 2 * keeper.cap_per_epoch

\* Timelock implements DelayedCalls: a Failed operation is still a promised call.
AbstractStage(status) ==
    CASE status = "Absent" -> "None"
      [] status \in {"Pending", "Failed"} -> "Waiting"
      [] status = "Executed" -> "Delivered"
      [] status \in {"Cancelled", "Expired"} -> "Dropped"

Abstract == INSTANCE DelayedCalls WITH
                Calls <- Ids, clock <- now, delay <- minDelay,
                stage <- [id \in Ids |-> AbstractStage(ops[id].status)],
                due <- [id \in Ids |-> ops[id].eta]

\* The timelock delivers what DelayedCalls promises: every step of its code is
\* a step of the abstract specification or leaves its state unchanged.
ImplementsDelayedCalls == Abstract!CallSpec

\* With keepers sweeping, an operation whose eta comes does not stay Pending: a
\* callee that reverts does not hold up the operations queued behind it.
DueOpsResolve ==
    \A id \in Ids : (ops[id].status = "Pending" /\ ops[id].eta <= MaxTime)
                      ~> (ops[id].status # "Pending")
=============================================================================
