-------------------------- MODULE GovernedTimelock --------------------------
(***************************************************************************)
(* The governor as the admin of the timelock: governance::queue forwards a *)
(* carried proposal to timelock::queue, the timelock forwards it after the *)
(* delay, and governance::execute forwards a queued proposal directly.     *)
(*                                                                         *)
(* The timelock is deployed with the governor as its admin, so timelock    *)
(* functions behind require_admin run only when a proposal carries them    *)
(* and the governor itself forwards it (the host refuses the timelock      *)
(* calling itself).                                                        *)
(***************************************************************************)
EXTENDS Governor

CONSTANTS MaxOps,        \* bound on the timelock's operations
          Delays, Etas, KeeperRewards, KeeperCaps, EpochLens, NoKeeper,
          TargetAdmins,  \* deployments: whom the target's require_auth accepts
          Payloads       \* what proposals call: [fn, arg]

\* fn = "call" is a call of the governed target; the others are functions of the
\* timelock.  arg is the id of an operation, and for "queue" the eta of the
\* operation it is to queue, a call of the governed target.
Payload == [fn : {"call", "queue", "cancel", "cancel_failed", "expire", "set_keeper_config",
                  "execute", "retry", "execute_due"},
            arg : Nat]

ASSUME CompositionConstants ==
    /\ MaxOps \in Nat
    /\ Delays \subseteq Nat /\ Etas \subseteq Nat
    /\ KeeperRewards \subseteq Int /\ KeeperCaps \subseteq Int /\ EpochLens \subseteq Nat
    /\ TargetAdmins \subseteq {"governor", "timelock", "anyone"}
    /\ Payloads \subseteq Payload

VARIABLES initialized, minDelay, nextId, ops, keeper, queuedAt, calls, calledAt, reverts, paid,
          targetAdmin,  \* the deployment at hand
          payload,      \* target, function and args of each proposal
          \* History:
          origin,       \* origin[k]: the proposal timelock operation k came from
          route,        \* route[k]: the governor's entrypoint that brought it there
          directAt      \* when governance::execute forwarded each proposal, -1 if it has not

TL == INSTANCE Timelock WITH MaxReverts <- 0

ASSUME KeeperUnset == NoKeeper \notin TL!KeeperConfig

timelock == <<initialized, minDelay, nextId, ops, keeper, queuedAt, calls, calledAt, reverts, paid>>
aux == <<targetAdmin, payload, origin, route, directAt>>
sysVars == <<govVars, timelock, aux>>

SysInit ==
    /\ GovInit
    /\ initialized = TRUE
    /\ minDelay \in Delays
    /\ nextId = 0
    /\ ops = [i \in TL!Ids |-> TL!NoOperation]
    /\ keeper = NoKeeper
    /\ queuedAt = [i \in TL!Ids |-> 0]
    /\ calls = [i \in TL!Ids |-> 0]
    /\ calledAt = [i \in TL!Ids |-> 0]
    /\ reverts = [i \in TL!Ids |-> 0]
    /\ paid = TL!NothingPaid
    /\ targetAdmin \in TargetAdmins
    /\ payload = [p \in ProposalIds |-> [fn |-> "call", arg |-> 0]]
    /\ origin = [i \in TL!Ids |-> 0]
    /\ route = [i \in TL!Ids |-> "queue"]
    /\ directAt = [p \in ProposalIds |-> -1]

-----------------------------------------------------------------------------
Accepts(caller) == targetAdmin \in {caller, "anyone"}

\* Operation k is a call of the governed target: the one its proposal makes, or
\* the one its proposal had the timelock queue.  Any other operation calls the
\* timelock itself, which the host refuses.
CallsTarget(k) == route[k] = "execute" \/ payload[origin[k]].fn = "call"

\* The target refuses a call that does not come from the one it obeys.
OnlyAccepted ==
    \A id \in TL!Ids : calls'[id] # calls[id] => CallsTarget(id) /\ Accepts("timelock")

Propose(h, content) ==
    /\ propose(h)
    /\ payload' = [payload EXCEPT ![proposalCount] = content]
    /\ UNCHANGED <<timelock, targetAdmin, origin, route, directAt>>

QueuedFor(p, entrypoint) ==
    /\ origin' = [origin EXCEPT ![nextId] = p]
    /\ route' = [route EXCEPT ![nextId] = entrypoint]

ForwardToTimelock(p, eta) ==
    /\ IF timelockSet
       THEN TL!queue(eta) /\ QueuedFor(p, "queue")
       ELSE UNCHANGED <<timelock, origin, route>>
    /\ UNCHANGED <<targetAdmin, payload, directAt>>

\* Mutant: the proposal stays Succeeded once it is in the timelock.
QueueAgain(p, eta) ==
    /\ proposals[p].status = "Succeeded"
    /\ ForwardToTimelock(p, eta)
    /\ UNCHANGED <<now, governor, token>>

\* governance::queue with the timelock call it makes.
Queue(p, eta) == queue(p) /\ ForwardToTimelock(p, eta)

\* The functions of the timelock that governance::execute may forward, queue apart.
\* An Err of the timelock's execute or retry traps the governor, so these are
\* steps only if the callee accepts.
TimelockCall(fn, arg) ==
    \/ /\ arg \in TL!Ids
       /\ \/ fn = "cancel" /\ TL!cancel(arg)
          \/ fn = "cancel_failed" /\ TL!cancel_failed(arg)
          \/ fn = "expire" /\ TL!expire(arg)
          \/ fn = "execute" /\ TL!Due(arg) /\ TL!MarkExecuted(arg)
          \/ fn = "retry" /\ TL!Retriable(arg) /\ TL!MarkExecuted(arg)
    \/ fn = "execute_due" /\ TL!Sweep
    \/ /\ fn = "set_keeper_config"
       /\ \E r \in KeeperRewards, c \in KeeperCaps, l \in EpochLens : TL!set_keeper_config(r, c, l)

\* governance::execute forwards whatever the proposal calls, of the target or of
\* the timelock, and never looks at what the timelock holds.
ExecuteDirectly(p) ==
    LET fn == payload[p].fn
        arg == payload[p].arg
    IN /\ execute(p)
       /\ \/ fn = "call" /\ Accepts("governor") /\ UNCHANGED <<timelock, origin, route>>
          \/ fn = "queue" /\ arg \in Etas /\ TL!queue(arg) /\ QueuedFor(p, "execute")
          \/ TimelockCall(fn, arg) /\ OnlyAccepted /\ UNCHANGED <<origin, route>>
       /\ directAt' = [directAt EXCEPT ![p] = now]
       /\ UNCHANGED <<targetAdmin, payload>>

\* The timelock's permissionless entrypoints.  A call the target does not accept
\* from the timelock reverts.
TimelockStep ==
    /\ \/ \E id \in TL!Ids : TL!execute(id)
       \/ \E id \in TL!Ids : TL!retry(id)
       \/ TL!Sweep
    /\ OnlyAccepted
    /\ UNCHANGED <<governor, token, aux>>

\* Token transfers only move voting weight about, which Governor.tla covers; they
\* are left out here.
GovernorStep ==
    /\ \/ GovTick
       \/ \E cfg \in Configs : initialize(cfg)
       \/ set_timelock
       \/ \E cfg \in Configs : set_config(cfg)
       \/ \E v \in Holders, p \in ProposalIds, s \in BOOLEAN : cast_vote(v, p, s)
       \/ \E p \in ProposalIds : finalize(p)
    /\ UNCHANGED <<timelock, aux>>

SysNext ==
    \/ GovernorStep
    \/ \E h \in Holders, content \in Payloads : Propose(h, content)
    \/ \E p \in ProposalIds, eta \in Etas : Queue(p, eta)
    \/ \E p \in ProposalIds : ExecuteDirectly(p)
    \/ TimelockStep

SysSpec == SysInit /\ [][SysNext]_sysVars

-----------------------------------------------------------------------------
\* When proposal p had an effect on the governed target: once for each timelock
\* operation that did, and once (under -1) when the governor called the target.
Effects(p) ==
    {<<-1, directAt[p]>> : x \in {y \in {p} : payload[y].fn = "call" /\ directAt[y] >= 0}}
    \cup {<<id, calledAt[id]>> : id \in {i \in TL!Ids : calls[i] > 0 /\ origin[i] = p}}

\* Every operation in the timelock came from a proposal that the vote carried.
\* governance::queue puts one there for a proposal at most, and
\* governance::execute one more only if queueing it is what the proposal calls.
QueuedByVote ==
    /\ \A k \in TL!Ids : k < nextId =>
         /\ proposals[origin[k]].status \in {"Queued", "Executed"}
         /\ quorumMet[origin[k]]
         /\ route[k] = "execute" => payload[origin[k]].fn = "queue"
    /\ \A j, k \in TL!Ids :
         (j < nextId /\ k < nextId /\ origin[j] = origin[k] /\ route[j] = route[k]) => j = k

\* Where the target obeys the timelock alone, a proposal takes effect on it only
\* once the vote has closed and the delay has passed, whatever governance::execute,
\* sweeps and retries do ("a successful proposal is forwarded to the timelock via
\* queue, then the timelock executes it after its own delay").
CallsWaitForDelay ==
    targetAdmin = "timelock" =>
        \A p \in ProposalIds : \A e \in Effects(p) : e[2] > proposals[p].vote_end + minDelay

OneEffect(p) == \A d, e \in Effects(p) : d = e

\* Where the target obeys the timelock alone, a proposal takes effect on it once,
\* although governance::execute and the timelock know nothing of each other and a
\* proposal may reach the timelock on both ways; with QueuedByVote.
CallTakesEffectOnce ==
    QueuedByVote /\ (targetAdmin = "timelock" => \A p \in ProposalIds : OneEffect(p))
=============================================================================
