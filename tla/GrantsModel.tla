---------------------------- MODULE GrantsModel ----------------------------
(***************************************************************************)
(* GrantsModel (grants/src/lib.rs): milestone grants without tokens, and   *)
(* the batch that governance applies to them all or nothing.  Grant ids    *)
(* are positions in the book, counted from 0; only governance creates and  *)
(* confirms, only the recipient claims.                                    *)
(***************************************************************************)
EXTENDS LedgerClock, Integers, Sequences, Collections

CONSTANTS
    Grantees,       \* recipients
    Schedules,      \* milestone amounts create_grant is called with
    AwardTotals,    \* total amounts it is called with
    MaxGrants       \* bound of the model

ASSUME GrantsConstants ==
    /\ \A s \in Schedules : s \in Seq(Int)
    /\ AwardTotals \subseteq Int /\ MaxGrants \in Nat

VARIABLE modelBook  \* self.grants, by id

GrantsModelInit == modelBook = <<>>

Milestone == [amount : Nat, confirmed : BOOLEAN, claimed : BOOLEAN]
Grant == [recipient : Grantees, total_amount : Int, claimable : Int, milestones : Seq(Milestone)]

\* A staged book that is None is none at all.
ASSUME NoBook == None \notin Seq(Grant)

AmountOf(m) == m.amount
Unclaimed(m) == IF m.confirmed /\ ~m.claimed THEN m.amount ELSE 0

AmountsIn(ms) == SumOver([k \in DOMAIN ms |-> AmountOf(ms[k])], DOMAIN ms)
UnclaimedIn(ms) == SumOver([k \in DOMAIN ms |-> Unclaimed(ms[k])], DOMAIN ms)

ValidGrant(total, amounts) ==
    /\ total > 0 /\ amounts # <<>>
    /\ \A k \in DOMAIN amounts : amounts[k] > 0
    /\ SumOver(amounts, DOMAIN amounts) = total

Created(b, recipient, total, amounts) ==
    Append(b, [recipient |-> recipient, total_amount |-> total, claimable |-> 0,
               milestones |-> [k \in DOMAIN amounts |->
                  [amount |-> amounts[k], confirmed |-> FALSE, claimed |-> FALSE]]])

\* Every earlier milestone confirmed, this one not yet.
CanConfirm(b, id, k) ==
    /\ id \in DOMAIN b
    /\ k \in DOMAIN b[id].milestones
    /\ \A j \in 1 .. k - 1 : b[id].milestones[j].confirmed
    /\ ~b[id].milestones[k].confirmed

Confirmed(b, id, k) ==
    [b EXCEPT ![id].milestones[k].confirmed = TRUE,
              ![id].claimable = @ + b[id].milestones[k].amount]

Paid(ms) == [k \in DOMAIN ms |-> [ms[k] EXCEPT !.claimed = ms[k].claimed \/ ms[k].confirmed]]

Claimed(b, id) ==
    [b EXCEPT ![id] = [b[id] EXCEPT !.claimable = 0, !.milestones = Paid(b[id].milestones)]]

model_claim(recipient, id) ==
    /\ modelBook[id].recipient = recipient
    /\ modelBook[id].claimable > 0
    /\ modelBook' = Claimed(modelBook, id)

GrantsOps ==
    [kind : {"Create"}, recipient : Grantees, total : AwardTotals, amounts : Schedules]
      \cup [kind : {"Confirm"}, id : 1 .. MaxGrants + 1, index : 1 .. 2]

\* The operation on a staged book; None when it fails.
Staged(b, op) ==
    IF b = None THEN None
    ELSE IF op.kind = "Create"
    THEN IF ValidGrant(op.total, op.amounts)
         THEN Created(b, op.recipient, op.total, op.amounts) ELSE None
    ELSE IF CanConfirm(b, op.id, op.index) THEN Confirmed(b, op.id, op.index) ELSE None

\* One operation is the plain create_grant or confirm_milestone.
batch(ops) ==
    LET staged[k \in 0 .. Len(ops)] ==
          IF k = 0 THEN modelBook ELSE Staged(staged[k - 1], ops[k])
    IN
    /\ staged[Len(ops)] # None
    /\ Len(staged[Len(ops)]) <= MaxGrants
    /\ modelBook' = staged[Len(ops)]

GrantsModelNext ==
    \/ \E id \in DOMAIN modelBook, r \in Grantees : model_claim(r, id)
    \/ \E op \in GrantsOps : batch(<<op>>) \/ \E op2 \in GrantsOps : batch(<<op, op2>>)

-----------------------------------------------------------------------------
GrantExact(g) ==
    /\ AmountsIn(g.milestones) = g.total_amount
    /\ g.claimable = UnclaimedIn(g.milestones)
    /\ \A k \in DOMAIN g.milestones :
         /\ g.milestones[k].claimed => g.milestones[k].confirmed
         /\ g.milestones[k].confirmed => \A j \in 1 .. k : g.milestones[j].confirmed

BookExact(b) == \A id \in DOMAIN b : GrantExact(b[id])

(* docs/INVARIANTS.md, INV-GRAN-02 to 06, for any order of batches,        *)
(* confirmations and claims: milestones add up to the award, they are      *)
(* confirmed in order and claimed only when confirmed, and claimable is    *)
(* exactly what is confirmed and not yet claimed (create_grant,            *)
(* confirm_milestone, claim, batch).                                       *)
GrantBookExact == BookExact(modelBook)
=============================================================================
