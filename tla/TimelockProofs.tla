--------------------------- MODULE TimelockProofs ---------------------------
(***************************************************************************)
(* Proofs about Timelock, for any number of operations, any horizon and    *)
(* any keeper configuration.                                               *)
(***************************************************************************)
EXTENDS Timelock, CollectionTheorems, TLAPS

\* A sweep forwards finitely many calls, so its reward is computed from a number.
LEMMA SweptIsFinite ==
    ASSUME NEW S, S \subseteq Ids
    PROVE  Cardinality(S) \in Nat
<1>1. IsFiniteSet(Ids)
    BY TimelockConstants, FS_Interval DEF Ids
<1> QED
    BY <1>1, FS_Subset, FS_CardinalityType

\* The settled keeper configuration is a configuration, and the reward a natural.
LEMMA SettleType ==
    ASSUME TypeOK, NEW executed \in Nat
    PROVE  /\ CurrentEpoch \in KeeperConfig
           /\ Reward(CurrentEpoch, executed) \in Nat
<1>0. now \in Nat
    BY TimelockConstants DEF TypeOK, Times
<1>1. DefaultKeeper \in KeeperConfig
    BY <1>0 DEF DefaultKeeper, KeeperConfig
<1>2. (IF keeper = NoKeeper THEN DefaultKeeper ELSE keeper) \in KeeperConfig
    BY <1>1 DEF TypeOK
<1>3. ASSUME NEW cfg \in KeeperConfig
      PROVE  [cfg EXCEPT !.epoch_start = now, !.epoch_spent = 0] \in KeeperConfig
    BY <1>0 DEF KeeperConfig
<1>4. CurrentEpoch \in KeeperConfig
    BY <1>2, <1>3 DEF CurrentEpoch
<1>5. ASSUME NEW cfg \in KeeperConfig
      PROVE  Reward(cfg, executed) \in Nat
    <2>1. executed * cfg.reward_per_call \in Int /\ cfg.cap_per_epoch - cfg.epoch_spent \in Int
        BY DEF KeeperConfig
    <2> QED
        BY <2>1 DEF Reward, Least, Clamp0
<1> QED
    BY <1>4, <1>5

\* A sweep stores well-typed operations.
LEMMA SweptType ==
    ASSUME NEW op \in Operation, now \in Nat
    PROVE  Succeed(op) \in Operation /\ Fail(op) \in Operation
<1>1. Succeed(op) \in Operation
    BY DEF Succeed, Operation, Statuses
<1>2. Fail(op) \in Operation
    BY DEF Fail, Operation, Statuses
<1> QED
    BY <1>1, <1>2

\* Every entrypoint keeps the storage and the history well typed.
LEMMA TypeStep == TypeOK /\ [Next]_vars => TypeOK'
<1> USE TimelockConstants
<1> SUFFICES ASSUME TypeOK, [Next]_vars
             PROVE  TypeOK'
    OBVIOUS
<1> USE DEF TypeOK, storage, history
<1>1. CASE Tick
    BY <1>1 DEF Tick, Times
<1>2. ASSUME NEW delay \in Delays, initialize(delay)
      PROVE  TypeOK'
    BY <1>2 DEF initialize
<1>3. ASSUME NEW eta \in Etas, queue(eta)
      PROVE  TypeOK'
    BY <1>3 DEF queue, StoreOperation, Ids, Operation, Statuses
<1>4. ASSUME NEW id \in Ids, MarkExecuted(id)
      PROVE  TypeOK'
    BY <1>4 DEF MarkExecuted, Operation, Statuses
<1>5. ASSUME NEW id \in Ids, RolledBack(id)
      PROVE  TypeOK'
    BY <1>5 DEF RolledBack, OneMore
<1>6. ASSUME NEW id \in Ids, NEW from, NEW to \in Statuses, SetStatus(id, from, to)
      PROVE  TypeOK'
    BY <1>6 DEF SetStatus, Operation
<1>7. ASSUME NEW r \in KeeperRewards, NEW c \in KeeperCaps, NEW l \in EpochLens,
             set_keeper_config(r, c, l)
      PROVE  TypeOK'
    BY <1>7 DEF set_keeper_config, StoreKeeper, KeeperConfig, NothingPaid, Times
<1>8. ASSUME NEW S \in SUBSET DueIds, execute_due(S)
      PROVE  TypeOK'
    <2>1. S \subseteq Ids
        BY <1>8 DEF DueIds
    <2>2. /\ CurrentEpoch \in KeeperConfig
          /\ Reward(CurrentEpoch, Cardinality(S)) \in Nat
        BY <2>1, SweptIsFinite, SettleType
    <2> DEFINE cfg == CurrentEpoch
               reward == Reward(CurrentEpoch, Cardinality(S))
    <2>3. keeper' = [cfg EXCEPT !.epoch_spent = @ + reward] /\ paid' = [paid EXCEPT ![now] = @ + reward]
        BY <1>8 DEF execute_due, settle_keeper_epoch
    <2>4. keeper' \in KeeperConfig /\ paid' \in [Times -> Nat]
        <3> HIDE DEF cfg, reward
        <3>1. cfg \in KeeperConfig /\ reward \in Nat
            BY <2>2 DEF cfg, reward
        <3>2. keeper' \in KeeperConfig
            BY <2>3, <3>1 DEF KeeperConfig
        <3>3. paid' \in [Times -> Nat]
            BY <2>3, <3>1
        <3> QED
            BY <3>2, <3>3
    <2>5. ASSUME NEW op \in Operation
          PROVE  Succeed(op) \in Operation /\ Fail(op) \in Operation
        BY SweptType DEF Times
    <2>6. ops' \in [Ids -> Operation]
        BY <1>8, <2>5 DEF execute_due
    <2>7. ASSUME NEW n \in Nat
          PROVE  OneMore(n) \in Nat
        BY DEF OneMore
    <2>8. /\ calls' \in [Ids -> Nat] /\ calledAt' \in [Ids -> Times]
          /\ reverts' \in [Ids -> Nat]
        BY <1>8, <2>7 DEF execute_due
    <2> QED
        BY <1>8, <2>4, <2>6, <2>8 DEF execute_due
<1>9. CASE UNCHANGED vars
    BY <1>9 DEF vars
<1> QED
    BY <1>1, <1>2, <1>3, <1>4, <1>5, <1>6, <1>7, <1>8, <1>9
    DEF Next, execute, retry, cancel, cancel_failed, expire, Sweep, Statuses

\* The storage and the history are well typed in every state.
THEOREM TypeCorrect == Spec => []TypeOK
<1> USE TimelockConstants
<1>1. Init => TypeOK
    <2>1. NoOperation \in Operation
        BY DEF NoOperation, Operation, Statuses
    <2>2. 0 \in Times /\ 0 \in 0 .. MaxOps
        BY DEF Times
    <2> SUFFICES ASSUME Init
                 PROVE  TypeOK
        OBVIOUS
    <2>3. ops \in [Ids -> Operation] /\ queuedAt \in [Ids -> Times] /\ calledAt \in [Ids -> Times]
        BY <2>1, <2>2 DEF Init
    <2>4. calls \in [Ids -> Nat] /\ reverts \in [Ids -> Nat] /\ paid \in [Times -> Nat]
        BY DEF Init, NothingPaid
    <2> QED
        BY <2>2, <2>3, <2>4 DEF Init, TypeOK
<1> QED
    BY <1>1, TypeStep, PTL DEF Spec

-----------------------------------------------------------------------------
\* No entrypoint breaks Inv: the delay, the single forwarding and the meaning of
\* Failed survive every interleaving of queue, execute, retry, cancel, expire and
\* sweeps.
LEMMA InvStep == TypeOK /\ Inv /\ [Next]_vars => Inv'
<1> USE TimelockConstants
<1> SUFFICES ASSUME TypeOK, Inv, [Next]_vars
             PROVE  Inv'
    OBVIOUS
<1>0. /\ now \in Nat /\ minDelay \in Nat /\ nextId \in Nat
      /\ \A i \in Ids : /\ i \in Nat
                        /\ ops[i].eta \in Nat /\ ops[i].attempt_count \in Nat
                        /\ ops[i].last_failed_at \in Nat
                        /\ queuedAt[i] \in Nat /\ calledAt[i] \in Nat
                        /\ calls[i] \in Nat /\ reverts[i] \in Nat
    BY DEF TypeOK, Times, Ids, Operation
<1> USE DEF Inv, DelayRespected, ForwardedOnce, FailedWasDue, IdsDense, storage, history
<1>1. CASE Tick
    BY <1>0, <1>1 DEF Tick
<1>2. ASSUME NEW delay \in Delays, initialize(delay)
      PROVE  Inv'
    <2>1. \A i \in Ids : ops[i].status = "Absent"
        BY <1>2 DEF initialize
    <2> QED
        BY <1>0, <1>2, <2>1 DEF initialize
<1>3. ASSUME NEW eta \in Etas, queue(eta)
      PROVE  Inv'
    <2>1. nextId \in Ids /\ ops[nextId].status = "Absent" /\ calls[nextId] = 0
        BY <1>0, <1>3 DEF queue, StoreOperation
    <2> QED
        BY <1>0, <1>3, <2>1 DEF queue, StoreOperation, TypeOK, Operation
<1>4. ASSUME NEW id \in Ids, MarkExecuted(id),
             ops[id].status \in {"Pending", "Failed"}, now >= ops[id].eta
      PROVE  Inv'
    BY <1>0, <1>4 DEF MarkExecuted, TypeOK, Operation
<1>5. ASSUME NEW id \in Ids, RolledBack(id)
      PROVE  Inv'
    BY <1>0, <1>5 DEF RolledBack, OneMore, Least, TypeOK
<1>6. ASSUME NEW id \in Ids, NEW from, NEW to \in {"Cancelled", "Expired"},
             SetStatus(id, from, to), from \in {{"Pending"}, {"Failed"}}
      PROVE  Inv'
    BY <1>0, <1>6 DEF SetStatus, TypeOK, Operation
<1>7. ASSUME NEW r \in KeeperRewards, NEW c \in KeeperCaps, NEW l \in EpochLens,
             set_keeper_config(r, c, l)
      PROVE  Inv'
    BY <1>7 DEF set_keeper_config, StoreKeeper
<1>8. ASSUME NEW S \in SUBSET DueIds, execute_due(S)
      PROVE  Inv'
    <2>1. \A i \in DueIds : ops[i].status = "Pending" /\ now >= ops[i].eta
        BY DEF DueIds, Due
    <2> QED
        BY <1>0, <1>8, <2>1 DEF execute_due, Succeed, Fail, OneMore, Least, TypeOK, Operation, DueIds
<1>9. CASE UNCHANGED vars
    BY <1>9 DEF vars
<1> QED
    BY <1>1, <1>2, <1>3, <1>4, <1>5, <1>6, <1>7, <1>8, <1>9
    DEF Next, execute, retry, Retriable, Due, cancel, cancel_failed, expire, Sweep

\* Inv holds in every state.
THEOREM InvHolds == Spec => []Inv
<1> USE TimelockConstants
<1>1. Init => Inv
    BY DEF Init, Inv, DelayRespected, ForwardedOnce, FailedWasDue, IdsDense, NoOperation, Ids
<1> QED
    BY <1>1, InvStep, TypeCorrect, PTL DEF Spec

\* Whatever forwards it, a call never takes effect before its delay has passed.
THEOREM DelayAlwaysRespected == Spec => []DelayRespected
<1>1. Inv => DelayRespected
    BY DEF Inv
<1> QED
    BY <1>1, InvHolds, PTL

\* A queued call reaches its target at most once, and only as Executed.
THEOREM AlwaysForwardedOnce == Spec => []ForwardedOnce
<1>1. Inv => ForwardedOnce
    BY DEF Inv
<1> QED
    BY <1>1, InvHolds, PTL

-----------------------------------------------------------------------------
\* No step takes an operation out of a final status, un-queues it or moves its eta.
THEOREM StatusesFinal == Spec => FinalStatuses
<1> DEFINE Kept == \A id \in Ids :
                     /\ ops[id].status \in Final => ops'[id].status = ops[id].status
                     /\ ops[id].status # "Absent" => /\ ops'[id].status # "Absent"
                                                    /\ ops'[id].eta = ops[id].eta
<1>1. TypeOK /\ Inv /\ [Next]_vars => Kept
    <2> SUFFICES ASSUME TypeOK, Inv, [Next]_vars
                 PROVE  Kept
        OBVIOUS
    <2> USE DEF TypeOK, Operation, Final
    <2>1. ASSUME ops' = ops
          PROVE  Kept
        BY <2>1
    <2>2. ASSUME NEW eta \in Etas, queue(eta)
          PROVE  Kept
        <3>1. ops[nextId].status = "Absent"
            BY <2>2 DEF queue, StoreOperation, Inv, IdsDense, Ids
        <3> QED
            BY <2>2, <3>1 DEF queue, StoreOperation
    <2>3. ASSUME NEW id \in Ids, NEW to \in {"Executed", "Cancelled", "Expired"},
                 ops[id].status \in {"Pending", "Failed"},
                 ops' = [ops EXCEPT ![id].status = to]
          PROVE  Kept
        BY <2>3
    <2>4. ASSUME NEW S \in SUBSET DueIds, execute_due(S)
          PROVE  Kept
        BY <2>4 DEF execute_due, DueIds, Due, Succeed, Fail
    <2> QED
        BY <2>1, <2>2, <2>3, <2>4
        DEF Next, Tick, initialize, execute, retry, Retriable, Due, MarkExecuted, RolledBack, cancel,
            cancel_failed, expire, SetStatus, set_keeper_config, StoreKeeper, Sweep,
            vars, storage, history
<1> QED
    BY <1>1, TypeCorrect, InvHolds, PTL DEF Spec, FinalStatuses

-----------------------------------------------------------------------------
\* The abstract stage of each status.
LEMMA StageOf ==
    /\ AbstractStage("Absent") = "None"
    /\ AbstractStage("Pending") = "Waiting" /\ AbstractStage("Failed") = "Waiting"
    /\ AbstractStage("Executed") = "Delivered"
    /\ AbstractStage("Cancelled") = "Dropped" /\ AbstractStage("Expired") = "Dropped"
BY DEF AbstractStage

\* The timelock implements DelayedCalls: callers that rely on the abstract
\* promise alone may be given the code.
THEOREM Refinement == Spec => ImplementsDelayedCalls
<1> USE TimelockConstants
<1>1. Init => Abstract!Start
    BY DEF Init, Abstract!Start, AbstractStage, NoOperation
<1>2. TypeOK /\ Inv /\ [Next]_vars => [Abstract!Step]_(Abstract!callVars)
    <2> SUFFICES ASSUME TypeOK, Inv, [Next]_vars
                 PROVE  [Abstract!Step]_(Abstract!callVars)
        OBVIOUS
    <2> USE DEF Abstract!Step, Abstract!callVars
    <2>0. now \in Nat /\ \A i \in Ids : ops[i].eta \in Nat
        BY DEF TypeOK, Times, Operation
    <2>1. ASSUME UNCHANGED <<now, minDelay, ops>>
          PROVE  UNCHANGED Abstract!callVars
        BY <2>1
    <2>2. CASE Tick
        <3>1. Abstract!Elapse
            BY <2>2 DEF Tick, Abstract!Elapse, storage, TypeOK, Times
        <3> QED
            BY <3>1
    <2>3. ASSUME NEW delay \in Delays, initialize(delay)
          PROVE  Abstract!Setup
        BY <2>3 DEF initialize, Abstract!Setup, Inv, AbstractStage
    <2>4. ASSUME NEW eta \in Etas, queue(eta)
          PROVE  \E c \in Ids : Abstract!Promise(c)
        <3>1. PICK c \in Ids : c = nextId
            BY <2>4 DEF queue, StoreOperation
        <3>2. ops[c].status = "Absent"
            BY <3>1 DEF Inv, IdsDense, Ids
        <3>3. \A i \in Ids : /\ AbstractStage(ops'[i].status)
                                 = IF i = c THEN "Waiting" ELSE AbstractStage(ops[i].status)
                             /\ ops'[i].eta = IF i = c THEN eta ELSE ops[i].eta
            BY <2>4, <3>1, StageOf DEF queue, StoreOperation, TypeOK, Operation
        <3>4. /\ AbstractStage(ops[c].status) = "None"
              /\ eta \in Nat /\ eta >= now + minDelay /\ UNCHANGED <<now, minDelay>>
            BY <2>4, <3>2, StageOf DEF queue, StoreOperation
        <3>5. Abstract!Promise(c)
            BY <3>3, <3>4 DEF Abstract!Promise
        <3> QED
            BY <3>5
    <2>5. ASSUME NEW id \in Ids, ops[id].status \in {"Pending", "Failed"},
                 now >= ops[id].eta, MarkExecuted(id)
          PROVE  Abstract!Deliver({id})
        <3>1. \A i \in Ids : /\ AbstractStage(ops'[i].status)
                                 = IF i \in {id} THEN "Delivered" ELSE AbstractStage(ops[i].status)
                             /\ ops'[i].eta = ops[i].eta
            BY <2>5, StageOf DEF MarkExecuted, TypeOK, Operation
        <3>2. /\ AbstractStage(ops[id].status) = "Waiting" /\ ops[id].eta <= now
              /\ UNCHANGED <<now, minDelay>>
            BY <2>0, <2>5, StageOf DEF MarkExecuted
        <3> QED
            BY <3>1, <3>2 DEF Abstract!Deliver
    <2>6. ASSUME NEW id \in Ids, ops[id].status \in {"Pending", "Failed"},
                 NEW to \in {"Cancelled", "Expired"},
                 ops' = [ops EXCEPT ![id].status = to], UNCHANGED <<now, minDelay>>
          PROVE  Abstract!Drop(id)
        <3>1. \A i \in Ids : /\ AbstractStage(ops'[i].status)
                                 = IF i = id THEN "Dropped" ELSE AbstractStage(ops[i].status)
                             /\ ops'[i].eta = ops[i].eta
            BY <2>6, StageOf DEF TypeOK, Operation
        <3>2. AbstractStage(ops[id].status) = "Waiting"
            BY <2>6, StageOf
        <3> QED
            BY <2>6, <3>1, <3>2 DEF Abstract!Drop
    <2>7. ASSUME NEW S \in SUBSET DueIds, execute_due(S)
          PROVE  Abstract!Deliver(S)
        <3>1. \A i \in DueIds : ops[i].status = "Pending" /\ ops[i].eta <= now
            BY <2>0 DEF DueIds, Due
        <3>2. \A i \in Ids : /\ AbstractStage(ops'[i].status)
                                 = IF i \in S THEN "Delivered" ELSE AbstractStage(ops[i].status)
                             /\ ops'[i].eta = ops[i].eta
            BY <2>7, <3>1, StageOf DEF execute_due, Succeed, Fail, TypeOK, Operation
        <3>3. \A i \in S : i \in Ids /\ AbstractStage(ops[i].status) = "Waiting" /\ ops[i].eta <= now
            BY <3>1, StageOf DEF DueIds
        <3>4. UNCHANGED <<now, minDelay>>
            BY <2>7 DEF execute_due
        <3> QED
            BY <3>2, <3>3, <3>4 DEF Abstract!Deliver
    <2> QED
        BY <2>1, <2>2, <2>3, <2>4, <2>5, <2>6, <2>7
        DEF Next, execute, retry, Retriable, Due, RolledBack, cancel, cancel_failed, expire, SetStatus,
            set_keeper_config, StoreKeeper, Sweep, DueIds, vars, storage, history
<1> QED
    BY <1>1, <1>2, TypeCorrect, InvHolds, PTL DEF Spec, ImplementsDelayedCalls, Abstract!CallSpec

-----------------------------------------------------------------------------
\* Times from `from` on, and times in a window.
Since(from) == {t \in Times : t >= from}
Window(from, to) == {t \in Times : from <= t /\ t < to}

\* What the keeper cap rests on, for rewards f, configuration k and time n.  The
\* epoch paid what it recorded, within its cap.  The epoch before it paid at most
\* the cap in its last epoch_len_secs seconds.  Nothing was paid beyond the epoch
\* or in the future, so that a rollover starts from zero.
KeeperBook(f, k, n) ==
    /\ k.epoch_len_secs > 0 /\ k.epoch_start <= n
    /\ SumOver(f, Since(k.epoch_start)) = k.epoch_spent
    /\ k.epoch_spent <= k.cap_per_epoch
    /\ SumOver(f, Window(k.epoch_start - k.epoch_len_secs, k.epoch_start)) <= k.cap_per_epoch
    /\ \A t \in Times : SumOver(f, Window(t, t + k.epoch_len_secs)) <= 2 * k.cap_per_epoch
    /\ \A t \in Times : t > n \/ t >= k.epoch_start + k.epoch_len_secs => f[t] = 0

\* Sums over times are sums over finite sets of naturals.
LEMMA PaidSums ==
    ASSUME NEW f \in [Times -> Nat], NEW S \in SUBSET Times
    PROVE  IsFiniteSet(S) /\ (\A t \in S : f[t] \in Nat) /\ SumOver(f, S) \in Nat
<1>1. IsFiniteSet(Times)
    BY TimelockConstants, FS_Interval DEF Times
<1>2. IsFiniteSet(S)
    BY <1>1, FS_Subset
<1>3. \A t \in S : f[t] \in Nat
    OBVIOUS
<1> QED
    BY <1>2, <1>3, SumNat

\* A configuration that has just been stored has paid nothing.
LEMMA FreshBook ==
    ASSUME NEW f \in [Times -> Nat], \A t \in Times : f[t] = 0,
           NEW k \in KeeperConfig, NEW n \in Times,
           k.epoch_start = n, k.epoch_spent = 0, k.epoch_len_secs > 0
    PROVE  KeeperBook(f, k, n)
<1>1. ASSUME NEW S \in SUBSET Times
      PROVE  SumOver(f, S) = 0
    BY PaidSums, SumZero
<1>2. /\ Since(k.epoch_start) \in SUBSET Times
      /\ \A a, b : Window(a, b) \in SUBSET Times
    BY DEF Since, Window
<1>3. k.cap_per_epoch \in Nat /\ n \in Nat
    BY TimelockConstants DEF KeeperConfig, Times
<1> QED
    BY <1>1, <1>2, <1>3 DEF KeeperBook

\* Time passing leaves the book in order.
LEMMA BookTicks ==
    ASSUME NEW f, NEW k \in KeeperConfig, NEW n \in Nat, KeeperBook(f, k, n)
    PROVE  KeeperBook(f, k, n + 1)
<1>1. k.epoch_start \in Nat /\ Times \subseteq Nat
    BY TimelockConstants DEF KeeperConfig, Times
<1>2. \A t \in Times : t > n + 1 => t > n
    BY <1>1
<1> QED
    BY <1>1, <1>2 DEF KeeperBook

\* Rolling the epoch over leaves the book in order: the window before the new
\* epoch lies inside the old one.
LEMMA BookRollsOver ==
    ASSUME NEW f \in [Times -> Nat], NEW k \in KeeperConfig, NEW n \in Times,
           KeeperBook(f, k, n), n >= k.epoch_start + k.epoch_len_secs,
           NEW j \in KeeperConfig, j.epoch_start = n, j.epoch_spent = 0,
           j.epoch_len_secs = k.epoch_len_secs, j.cap_per_epoch = k.cap_per_epoch
    PROVE  KeeperBook(f, j, n)
<1>1. /\ k.epoch_start \in Nat /\ k.epoch_len_secs \in Nat /\ k.cap_per_epoch \in Nat
      /\ k.epoch_spent \in Nat /\ n \in Nat /\ Times \subseteq Nat
    BY TimelockConstants DEF KeeperConfig, Times
<1>2. SumOver(f, Since(n)) = 0
    <2>1. \A t \in Since(n) : f[t] = 0
        BY <1>1 DEF KeeperBook, Since
    <2>2. Since(n) \in SUBSET Times
        BY DEF Since
    <2> QED
        BY <2>1, <2>2, PaidSums, SumZero
<1>3. SumOver(f, Window(n - k.epoch_len_secs, n)) <= k.cap_per_epoch
    <2>1. Window(n - k.epoch_len_secs, n) \in SUBSET Since(k.epoch_start)
        <3>1. ASSUME NEW u \in Times, n - k.epoch_len_secs <= u
              PROVE  u >= k.epoch_start
            BY <1>1, <3>1
        <3> QED
            BY <3>1 DEF Window, Since
    <2>2. Since(k.epoch_start) \in SUBSET Times /\ Window(n - k.epoch_len_secs, n) \in SUBSET Times
        BY DEF Window, Since
    <2>3. SumOver(f, Window(n - k.epoch_len_secs, n)) <= SumOver(f, Since(k.epoch_start))
        BY <2>1, <2>2, PaidSums, SumSubset
    <2>4. SumOver(f, Window(n - k.epoch_len_secs, n)) \in Nat
        BY <2>2, PaidSums
    <2> QED
        BY <1>1, <2>3, <2>4 DEF KeeperBook
<1>4. \A t \in Times : t > n \/ t >= n + k.epoch_len_secs => f[t] = 0
    BY <1>1 DEF KeeperBook
<1> QED
    BY <1>1, <1>2, <1>3, <1>4 DEF KeeperBook

\* A reward within what the epoch has left keeps the book in order: a window that
\* sees it reaches back into no more than the last epoch_len_secs seconds before
\* the epoch.
LEMMA BookRewards ==
    ASSUME NEW f \in [Times -> Nat], NEW k \in KeeperConfig, NEW n \in Times,
           KeeperBook(f, k, n), n < k.epoch_start + k.epoch_len_secs,
           NEW r \in Nat, k.epoch_spent + r <= k.cap_per_epoch,
           NEW g \in [Times -> Nat], g[n] = f[n] + r, \A t \in Times \ {n} : g[t] = f[t],
           NEW j \in KeeperConfig, j = [k EXCEPT !.epoch_spent = @ + r]
    PROVE  KeeperBook(g, j, n)
<1>1. /\ k.epoch_start \in Nat /\ k.epoch_len_secs \in Nat /\ k.cap_per_epoch \in Nat
      /\ k.epoch_spent \in Nat /\ n \in Nat /\ Times \subseteq Nat
    BY TimelockConstants DEF KeeperConfig, Times
<1>2. /\ j.epoch_start = k.epoch_start /\ j.epoch_len_secs = k.epoch_len_secs
      /\ j.cap_per_epoch = k.cap_per_epoch /\ j.epoch_spent = k.epoch_spent + r
    BY DEF KeeperConfig
<1>3. /\ \A t \in Times \ {n} : g[t] = f[t]
      /\ g[n] = f[n] + r /\ f[n] \in Nat
    OBVIOUS
<1> DEFINE E == Since(k.epoch_start)
           B == Window(k.epoch_start - k.epoch_len_secs, k.epoch_start)
<1>4. E \in SUBSET Times /\ B \in SUBSET Times /\ n \in E /\ n \notin B
    BY <1>1 DEF Since, Window, KeeperBook
<1>5. ASSUME NEW S \in SUBSET Times, n \notin S
      PROVE  SumOver(g, S) = SumOver(f, S)
    <2>1. \A t \in S : g[t] = f[t]
        BY <1>3, <1>5
    <2> QED
        BY <2>1, PaidSums, SumSame
<1>6. SumOver(g, E) = k.epoch_spent + r
    <2>1. /\ \A t \in E : f[t] \in Int
          /\ g[n] \in Int /\ \A t \in E \ {n} : g[t] = f[t]
        BY <1>3, <1>4
    <2>2. IsFiniteSet(E) /\ SumOver(f, E) = k.epoch_spent
        BY <1>4, PaidSums DEF KeeperBook
    <2> HIDE DEF E
    <2>3. SumOver(g, E) = SumOver(f, E) - f[n] + g[n]
        BY <1>4, <2>1, <2>2, SumChange
    <2> QED
        BY <1>1, <1>3, <2>2, <2>3
<1>7. SumOver(g, B) <= k.cap_per_epoch
    <2>1. SumOver(g, B) = SumOver(f, B)
        BY <1>4, <1>5
    <2> QED
        BY <2>1 DEF KeeperBook
<1>8. ASSUME NEW t \in Times
      PROVE  SumOver(g, Window(t, t + k.epoch_len_secs)) <= 2 * k.cap_per_epoch
    <2> DEFINE W == Window(t, t + k.epoch_len_secs)
    <2>1. W \in SUBSET Times
        BY DEF Window
    <2>2. CASE n \notin W
        <3>1. SumOver(g, W) = SumOver(f, W)
            BY <1>5, <2>1, <2>2
        <3> QED
            BY <3>1 DEF KeeperBook
    <2>3. CASE n \in W
        <3> DEFINE A == W \cap E
        <3>1. W \ A \in SUBSET B
            BY <1>1, <2>3 DEF Window, Since, KeeperBook
        <3>2. A \in SUBSET W /\ A \in SUBSET E /\ A \in SUBSET Times /\ W \ A \in SUBSET Times
            BY <1>4, <2>1
        <3> HIDE DEF A, E, B, W
        <3>3. SumOver(g, W) = SumOver(g, A) + SumOver(g, W \ A)
            <4>1. IsFiniteSet(W) /\ \A u \in W : g[u] \in Int
                BY <2>1, PaidSums
            <4> QED
                BY <3>2, <4>1, SumSplit
        <3>4. SumOver(g, A) <= SumOver(g, E)
            BY <1>4, <3>2, PaidSums, SumSubset
        <3>5. SumOver(g, W \ A) <= SumOver(g, B)
            BY <1>4, <3>1, PaidSums, SumSubset
        <3>6. SumOver(g, A) \in Nat /\ SumOver(g, W \ A) \in Nat /\ SumOver(g, B) \in Nat
            BY <1>4, <3>2, PaidSums
        <3>7. SumOver(g, W) <= 2 * k.cap_per_epoch
            BY <1>1, <1>6, <1>7, <3>3, <3>4, <3>5, <3>6
        <3> QED
            BY <3>7 DEF W
    <2> QED
        BY <2>2, <2>3
<1>9. \A t \in Times : t > n \/ t >= k.epoch_start + k.epoch_len_secs => g[t] = 0
    <2>1. \A t \in Times : t > n \/ t >= k.epoch_start + k.epoch_len_secs => t # n /\ f[t] = 0
        BY <1>1 DEF KeeperBook
    <2> QED
        BY <1>3, <2>1
<1> HIDE DEF E, B
<1>10. k.epoch_len_secs > 0 /\ k.epoch_start <= n
    BY DEF KeeperBook
<1> QED
    BY <1>2, <1>6, <1>7, <1>8, <1>9, <1>10 DEF KeeperBook, E, B

\* The rewards are on the book of the configuration that stands; before one is
\* stored there are none.
KeeperInv == IF keeper = NoKeeper THEN paid = NothingPaid ELSE KeeperBook(paid, keeper, now)

\* The keeper's book stays in order under every entrypoint.
LEMMA KeeperStep == TypeOK /\ KeeperInv /\ [Next]_vars => KeeperInv'
<1> SUFFICES ASSUME TypeOK, KeeperInv, [Next]_vars
             PROVE  KeeperInv'
    OBVIOUS
<1>0. /\ now \in Times /\ now \in Nat /\ paid \in [Times -> Nat]
      /\ keeper \in KeeperConfig \cup {NoKeeper}
    BY TimelockConstants DEF TypeOK, Times
<1>1. CASE UNCHANGED <<now, keeper, paid>>
    BY <1>1 DEF KeeperInv
<1>2. CASE Tick
    BY <1>0, <1>2, BookTicks DEF Tick, storage, history, KeeperInv
<1>3. ASSUME NEW r \in KeeperRewards, NEW c \in KeeperCaps, NEW l \in EpochLens,
             set_keeper_config(r, c, l)
      PROVE  KeeperInv'
    <2>1. r \in Nat /\ c \in Nat /\ l \in Nat /\ l > 0
        BY <1>3, TimelockConstants DEF set_keeper_config
    <2>2. PICK k : k = [reward_per_call |-> r, cap_per_epoch |-> c, epoch_len_secs |-> l,
                        epoch_start |-> now, epoch_spent |-> 0]
        OBVIOUS
    <2>3. keeper' = k /\ paid' = NothingPaid /\ now' = now
        BY <1>3, <2>2 DEF set_keeper_config, StoreKeeper
    <2>4. /\ k \in KeeperConfig /\ k.epoch_start = now /\ k.epoch_spent = 0
          /\ k.epoch_len_secs > 0
        BY <1>0, <2>1, <2>2 DEF KeeperConfig
    <2>5. NothingPaid \in [Times -> Nat] /\ \A t \in Times : NothingPaid[t] = 0
        BY DEF NothingPaid
    <2>6. KeeperBook(NothingPaid, k, now)
        BY <1>0, <2>4, <2>5, FreshBook
    <2>7. keeper' # NoKeeper
        BY <2>3, <2>4, AbsentKeeper
    <2> QED
        BY <2>3, <2>6, <2>7 DEF KeeperInv
<1>4. ASSUME NEW S \in SUBSET DueIds, execute_due(S)
      PROVE  KeeperInv'
    <2>1. Cardinality(S) \in Nat
        BY SweptIsFinite DEF DueIds
    <2>2. PICK c, r : c = CurrentEpoch /\ r = Reward(c, Cardinality(S))
        OBVIOUS
    <2>3. c \in KeeperConfig /\ r \in Nat
        BY <2>1, <2>2, SettleType
    <2>4. /\ keeper' = [c EXCEPT !.epoch_spent = @ + r]
          /\ paid' = [paid EXCEPT ![now] = @ + r] /\ now' = now
        BY <1>4, <2>2 DEF execute_due, settle_keeper_epoch
    <2>5. KeeperBook(paid, c, now) /\ now < c.epoch_start + c.epoch_len_secs
        <3>1. PICK k : k = IF keeper = NoKeeper THEN DefaultKeeper ELSE keeper
            OBVIOUS
        <3>2. k \in KeeperConfig
            BY <1>0, <3>1 DEF DefaultKeeper, KeeperConfig
        <3>3. KeeperBook(paid, k, now)
            <4>1. CASE keeper = NoKeeper
                <5>1. \A t \in Times : paid[t] = 0
                    BY <4>1 DEF KeeperInv, NothingPaid
                <5>2. k.epoch_start = now /\ k.epoch_spent = 0 /\ k.epoch_len_secs > 0
                    BY <3>1, <4>1 DEF DefaultKeeper
                <5> QED
                    BY <1>0, <3>2, <5>1, <5>2, FreshBook
            <4>2. CASE keeper # NoKeeper
                BY <3>1, <4>2 DEF KeeperInv
            <4> QED
                BY <4>1, <4>2
        <3>4. /\ k.epoch_start \in Nat /\ k.epoch_len_secs \in Nat /\ k.epoch_len_secs > 0
            BY <3>2, <3>3 DEF KeeperConfig, KeeperBook
        <3>5. CASE now >= k.epoch_start + k.epoch_len_secs
            <4>1. c = [k EXCEPT !.epoch_start = now, !.epoch_spent = 0]
                BY <2>2, <3>1, <3>5 DEF CurrentEpoch
            <4>2. /\ c.epoch_start = now /\ c.epoch_spent = 0
                  /\ c.epoch_len_secs = k.epoch_len_secs /\ c.cap_per_epoch = k.cap_per_epoch
                BY <3>2, <4>1 DEF KeeperConfig
            <4>3. KeeperBook(paid, c, now)
                BY <1>0, <2>3, <3>2, <3>3, <3>5, <4>2, BookRollsOver
            <4> QED
                BY <1>0, <3>4, <4>2, <4>3
        <3>6. CASE ~(now >= k.epoch_start + k.epoch_len_secs)
            <4>1. c = k
                BY <2>2, <3>1, <3>6 DEF CurrentEpoch
            <4> QED
                BY <1>0, <3>3, <3>4, <3>6, <4>1
        <3> QED
            BY <3>5, <3>6
    <2>6. c.epoch_spent + r <= c.cap_per_epoch
        <3>1. /\ c.epoch_spent \in Nat /\ c.cap_per_epoch \in Nat /\ c.reward_per_call \in Nat
              /\ c.epoch_spent <= c.cap_per_epoch
            BY <2>3, <2>5 DEF KeeperConfig, KeeperBook
        <3>2. Cardinality(S) * c.reward_per_call \in Nat
            BY <2>1, <3>1
        <3> QED
            BY <2>2, <3>1, <3>2 DEF Reward, Least, Clamp0
    <2>7. PICK g, j : g = paid' /\ j = keeper'
        OBVIOUS
    <2>8. /\ g \in [Times -> Nat] /\ g[now] = paid[now] + r
          /\ \A t \in Times \ {now} : g[t] = paid[t]
        BY <1>0, <2>3, <2>4, <2>7
    <2>9. j = [c EXCEPT !.epoch_spent = @ + r] /\ j \in KeeperConfig
        BY <2>3, <2>4, <2>7 DEF KeeperConfig
    <2>10. KeeperBook(g, j, now)
        BY <1>0, <2>3, <2>5, <2>6, <2>8, <2>9, BookRewards
    <2>11. keeper' # NoKeeper
        BY <2>7, <2>9, AbsentKeeper
    <2> QED
        BY <2>4, <2>7, <2>10, <2>11 DEF KeeperInv
<1> QED
    BY <1>1, <1>2, <1>3, <1>4
    DEF Next, initialize, queue, StoreOperation, execute, retry, MarkExecuted, RolledBack, cancel,
        cancel_failed, expire, SetStatus, Sweep, vars, storage, history

\* For every configuration: sweeping repeatedly and rolling epochs over hands out
\* at most cap_per_epoch in an epoch and twice that in any epoch_len_secs seconds.
THEOREM KeeperAlwaysCapped == Spec => []KeeperCap
<1>1. Init => KeeperInv
    BY DEF Init, KeeperInv
<1>2. TypeOK /\ KeeperInv => KeeperCap
    <2> SUFFICES ASSUME TypeOK, KeeperInv, keeper # NoKeeper
                 PROVE  KeeperCap
        BY DEF KeeperCap
    <2>1. KeeperBook(paid, keeper, now) /\ keeper \in KeeperConfig
        BY DEF KeeperInv, TypeOK
    <2> QED
        BY <2>1 DEF KeeperBook, KeeperCap, Since, Window, KeeperConfig
<1> QED
    BY <1>1, <1>2, KeeperStep, TypeCorrect, PTL DEF Spec
=============================================================================
