----------------------------- MODULE LossEvents -----------------------------
(***************************************************************************)
(* The libraries for attested drawdowns: the guardian set and its changes  *)
(* (shared/src/guardians.rs), and the loss events that a set of guardians  *)
(* attests (shared/src/loss_event.rs).  LossEvents takes the set it is     *)
(* created with and has no operation that changes it; the guardian set its *)
(* owner keeps changes on.  A refused call returns before it writes.  The  *)
(* backstop's own draw_down, cover_shortfall and absorb_loss call neither. *)
(***************************************************************************)
EXTENDS LedgerClock, Sequences, FiniteSets

CONSTANTS
    Guardians,
    GuardianDelays,   \* delays LossEvents is created with
    LossAmounts,      \* amounts declared and drawn
    MaxEvents         \* bound: events declared

ASSUME LossEventsConstants ==
    /\ IsFiniteSet(Guardians) /\ GuardianDelays \subseteq Nat
    /\ LossAmounts \subseteq Nat \ {0} /\ MaxEvents \in Nat

VARIABLES
    guardians,   \* a GuardianSet: members and threshold, or None
    panel,       \* LossEvents::guardians and delay, or None
    events,      \* LossEvents::events, by id
    \* history
    signed,      \* event -> the guardians that attested, each with the time it first did
    drawn        \* the drawdowns authorised: event, time and amount

lossVars == <<guardians, panel, events, signed, drawn>>

LossInit ==
    /\ guardians = None /\ panel = None
    /\ events = <<>> /\ signed = <<>> /\ drawn = {}

validate(members, threshold) == threshold # 0 /\ threshold <= Cardinality(members)

Store(members, threshold) ==
    /\ guardians' = [members |-> members, threshold |-> threshold]
    /\ UNCHANGED <<now, panel, events, signed, drawn>>

GuardianSetNew(members, threshold) ==
    /\ guardians = None
    /\ validate(members, threshold)
    /\ Store(members, threshold)

guardian_add(g) ==
    /\ guardians # None /\ g \notin guardians.members
    /\ Store(guardians.members \cup {g}, guardians.threshold)

guardian_remove(g) ==
    /\ guardians # None /\ g \in guardians.members
    /\ validate(guardians.members \ {g}, guardians.threshold)
    /\ Store(guardians.members \ {g}, guardians.threshold)

rotate(old, new) ==
    /\ guardians # None /\ old \in guardians.members /\ new \notin guardians.members
    /\ Store((guardians.members \ {old}) \cup {new}, guardians.threshold)

set_threshold(threshold) ==
    /\ guardians # None
    /\ validate(guardians.members, threshold)
    /\ Store(guardians.members, threshold)

approves(set, signers) == Cardinality(signers \cap set.members) >= set.threshold

-----------------------------------------------------------------------------
LossEventsNew(delay) ==
    /\ panel = None /\ guardians # None
    /\ panel' = [set |-> guardians, delay |-> delay]
    /\ UNCHANGED <<now, guardians, events, signed, drawn>>

declare(amount) ==
    /\ panel # None /\ Len(events) < MaxEvents
    /\ events' = Append(events, [amount |-> amount, attesters |-> {}, attested_at |-> None])
    /\ signed' = Append(signed, {})
    /\ UNCHANGED <<now, guardians, panel, drawn>>

attest(id, g) ==
    LET attesters == events[id].attesters \cup {g} IN
    /\ panel # None /\ g \in panel.set.members
    /\ events' = [events EXCEPT ![id].attesters = attesters,
                                ![id].attested_at =
                                    IF @ = None /\ approves(panel.set, attesters) THEN now ELSE @]
    /\ signed' = [signed EXCEPT ![id] =
                    IF g \in events[id].attesters THEN @ ELSE @ \cup {[by |-> g, at |-> now]}]
    /\ UNCHANGED <<now, guardians, panel, drawn>>

\* authorize_drawdown answers and changes nothing; the history keeps what it allowed.
authorize_drawdown(id, amount) ==
    /\ events[id].attested_at # None
    /\ now >= events[id].attested_at + panel.delay
    /\ amount <= events[id].amount
    /\ drawn' = drawn \cup {[event |-> id, at |-> now, amount |-> amount]}
    /\ UNCHANGED <<now, guardians, panel, events, signed>>

LossTick == LedgerTick /\ UNCHANGED lossVars

LossNext ==
    \/ \E members \in SUBSET Guardians, n \in 0 .. Cardinality(Guardians) : GuardianSetNew(members, n)
    \/ \E g \in Guardians : guardian_add(g) \/ guardian_remove(g)
    \/ \E old, new \in Guardians : rotate(old, new)
    \/ \E n \in 0 .. Cardinality(Guardians) + 1 : set_threshold(n)
    \/ \E delay \in GuardianDelays : LossEventsNew(delay)
    \/ \E amount \in LossAmounts : declare(amount)
    \/ \E id \in DOMAIN events, g \in Guardians : attest(id, g)
    \/ \E id \in DOMAIN events, amount \in LossAmounts : authorize_drawdown(id, amount)
    \/ LossTick

-----------------------------------------------------------------------------
\* "Backstop capital may be drawn only against a loss event that has been declared with evidence,
\* attested by enough guardians to meet the threshold, and then left to wait out a delay"
\* (loss_event.rs): whatever authorize_drawdown allowed, a threshold of distinct guardians of the
\* event's set had signed a full delay before.  And every set kept or used has a threshold its
\* members can reach (guardians.rs: "never in a way that leaves no reachable threshold").
DrawdownsAttested ==
    /\ \A set \in ({guardians} \cup (IF panel = None THEN {} ELSE {panel.set})) \ {None} :
         set.threshold \in 1 .. Cardinality(set.members)
    /\ \A d \in drawn :
         /\ d.amount <= events[d.event].amount
         /\ Cardinality({s \in signed[d.event] : s.at + panel.delay <= d.at /\ s.by \in panel.set.members})
                >= panel.set.threshold
=============================================================================
