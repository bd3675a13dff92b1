--------------------------- MODULE GrantLifecycle ---------------------------
(***************************************************************************)
(* Changes to a funded grant (grants/src/lifecycle.rs): a request is filed,*)
(* approved and executed, each by someone else, while milestones go on     *)
(* being confirmed and claimed.  One grant, and its one open request.      *)
(* The struct itself, confirm_milestone and claim are not in the source    *)
(* tree; they are modelled from grants/tests/lifecycle.rs and              *)
(* governance_flow.rs.                                                     *)
(***************************************************************************)
EXTENDS GrantReviews, Collections, SequencesExt

CONSTANTS
    Governance,
    FirstSchedule,   \* the terms [amount, due] the grant is created with
    Amendments,      \* new_pending arguments: sequences of terms
    Extensions,      \* new_due_dates arguments
    EarnedShares,    \* earned_bps arguments
    BPS_DENOM, MAX_AMENDMENTS

Term == [amount : Int, due : Nat]
Amounts(terms) == [k \in DOMAIN terms |-> terms[k].amount]
TermSum(terms) == SumOver(Amounts(terms), DOMAIN terms)
Award == TermSum(FirstSchedule)

ASSUME LifecycleConstants ==
    /\ BPS_DENOM \in Nat \ {0} /\ MAX_AMENDMENTS \in Nat
    /\ EarnedShares \subseteq Int
    /\ FirstSchedule \in Seq(Term) /\ \A k \in DOMAIN FirstSchedule : FirstSchedule[k].amount > 0
    /\ Amendments \subseteq Seq(Term)
    /\ Extensions \subseteq Seq(Nat)

Changes ==
    [kind : {"Amendment"}, new_pending : Amendments]
      \cup [kind : {"Extension"}, new_due_dates : Extensions]
      \cup [kind : {"Termination"}, earned_bps : EarnedShares]

VARIABLES
    grant,          \* milestones, claimable, pending_refund, refunded, amendments, status
    request,        \* the open LifecycleRequest, or None
    history,        \* self.history: the AmendmentRecords
    paid            \* history: tokens the grantee received

grantVars == <<grant, request, history, paid>>
lifecycleVars == <<reviewVars, grantVars>>

Unconfirmed(t) == [amount |-> t.amount, due |-> t.due, confirmed |-> FALSE, claimed |-> FALSE]
WithTerms(terms) == [k \in DOMAIN terms |-> Unconfirmed(terms[k])]

LifecycleInit ==
    /\ ReviewsInit
    /\ grant = [milestones |-> WithTerms(FirstSchedule), claimable |-> 0,
                pending_refund |-> 0, refunded |-> 0, amendments |-> 0, status |-> "Funded"]
    /\ request = None
    /\ history = <<>>
    /\ paid = 0

current_schedule(g) ==
    [k \in DOMAIN g.milestones |->
       [amount |-> g.milestones[k].amount, due |-> g.milestones[k].due]]

confirmed_count(g) ==
    Max({k \in 0 .. Len(g.milestones) : \A j \in 1 .. k : g.milestones[j].confirmed})

Pending(g) == Picked(g.milestones, {k \in DOMAIN g.milestones : ~g.milestones[k].confirmed})

dates_ordered(floor, dates) ==
    \A k \in DOMAIN dates :
      dates[k] # 0 => dates[k] >= Max({floor} \cup {dates[j] : j \in 1 .. k - 1})

last_confirmed_due(g) ==
    Max({0} \cup {m.due : m \in {n \in ToSet(g.milestones) : n.confirmed}})

\* Unconfirmed milestones hold tokens, so the escrowed() check of a termination adds nothing.
validate_change(g, change) ==
    LET pending == Pending(g) IN
    /\ pending # <<>>
    /\ change.kind = "Amendment" =>
         /\ g.amendments < MAX_AMENDMENTS
         /\ change.new_pending # <<>>
         /\ \A k \in DOMAIN change.new_pending : change.new_pending[k].amount > 0
         /\ TermSum(change.new_pending) <= TermSum(pending)
         /\ dates_ordered(last_confirmed_due(g),
                          [k \in DOMAIN change.new_pending |-> change.new_pending[k].due])
    /\ change.kind = "Extension" =>
         /\ g.amendments < MAX_AMENDMENTS
         /\ Len(change.new_due_dates) = Len(pending)
         /\ \A k \in DOMAIN pending :
              /\ change.new_due_dates[k] >= pending[k].due
              /\ pending[k].due = 0 => change.new_due_dates[k] = 0
         /\ \E k \in DOMAIN pending : change.new_due_dates[k] > pending[k].due
         /\ dates_ordered(last_confirmed_due(g), change.new_due_dates)
    /\ change.kind = "Termination" => change.earned_bps \in 0 .. BPS_DENOM

new_status(kind) ==
    CASE kind = "Amendment" -> "AmendmentRequested"
      [] kind = "Extension" -> "ExtensionRequested"
      [] kind = "Termination" -> "TerminationRequested"

request_change(caller, change) ==
    /\ caller \in {Grantee, Governance}
    /\ grant.status \in {"Funded", "Amended", "Extended"}
    /\ validate_change(grant, change)
    /\ request' = [change |-> change, requester |-> caller, approved_by |-> None,
                   old_schedule |-> current_schedule(grant),
                   confirmed_at_request |-> confirmed_count(grant),
                   previous_status |-> grant.status]
    /\ grant' = [grant EXCEPT !.status = new_status(change.kind)]
    /\ UNCHANGED <<history, paid, reviewVars>>

\* Terminations take governance; otherwise any eligible reviewer but the requester will do.
approve_request(caller) ==
    /\ request # None
    /\ request.approved_by = None
    /\ \/ caller = Governance
       \/ /\ request.change.kind # "Termination"
          /\ caller # request.requester
          /\ caller \in Reviewers /\ Eligible(caller)
    /\ request' = [request EXCEPT !.approved_by = caller]
    /\ UNCHANGED <<grant, history, paid, reviewVars>>

\* Rejected by governance or withdrawn by the requester.
close_request(caller) ==
    /\ request # None
    /\ caller \in {Governance, request.requester}
    /\ grant' = [grant EXCEPT !.status = request.previous_status]
    /\ request' = None
    /\ UNCHANGED <<history, paid, reviewVars>>

close_if_settled(g) ==
    LET all_paid == \A m \in ToSet(g.milestones) : m.confirmed /\ m.claimed
        settled == g.claimable = 0 /\ g.pending_refund = 0
        closable == \/ g.status = "Terminated" /\ settled
                    \/ g.status \in {"Funded", "Amended", "Extended"} /\ settled /\ all_paid
    IN IF closable THEN [g EXCEPT !.status = "Closed"] ELSE g

\* The share of the next milestone that counts as earned (refract_math::split_bps).
Earned(g, earned_bps) == (Head(Pending(g)).amount * earned_bps) \div BPS_DENOM

\* What execute_request makes of the grant, its refund included.
Changed(g, change) ==
    LET confirmed == confirmed_count(g)
        kept == SubSeq(g.milestones, 1, confirmed)
        rest == SubSeq(g.milestones, confirmed + 1, Len(g.milestones))
    IN CASE change.kind = "Amendment" ->
              [g EXCEPT !.milestones = kept \o WithTerms(change.new_pending),
                        !.amendments = @ + 1, !.status = "Amended",
                        !.pending_refund = @ + TermSum(Pending(g)) - TermSum(change.new_pending)]
         [] change.kind = "Extension" ->
              [g EXCEPT !.milestones = kept \o
                          [k \in DOMAIN rest |-> [rest[k] EXCEPT !.due = change.new_due_dates[k]]],
                        !.amendments = @ + 1, !.status = "Extended"]
         [] change.kind = "Termination" ->
              LET earned == Earned(g, change.earned_bps)
                  credit == [Head(rest) EXCEPT !.amount = earned, !.confirmed = TRUE]
              IN [g EXCEPT !.milestones = kept \o (IF earned > 0 THEN <<credit>> ELSE <<>>),
                           !.claimable = @ + earned, !.status = "Terminated",
                           !.pending_refund = @ + TermSum(rest) - earned]

\* Mutant: a confirmation since the request does not make it stale.
execute_requestStale ==
    LET changed == Changed(grant, request.change) IN
    /\ request # None
    /\ request.approved_by # None
    /\ current_schedule(grant) = request.old_schedule
    /\ validate_change(grant, request.change)
    /\ history' = Append(history,
         [change |-> request.change, confirmed |-> request.confirmed_at_request,
          old_schedule |-> request.old_schedule, new_schedule |-> current_schedule(changed),
          refund |-> changed.pending_refund - grant.pending_refund])
    /\ grant' = close_if_settled(changed)
    /\ request' = None
    /\ UNCHANGED <<paid, reviewVars>>

execute_request ==
    LET changed == Changed(grant, request.change) IN
    /\ request # None
    /\ request.approved_by # None
    /\ confirmed_count(grant) = request.confirmed_at_request
    /\ current_schedule(grant) = request.old_schedule
    /\ validate_change(grant, request.change)
    /\ history' = Append(history,
         [change |-> request.change, confirmed |-> request.confirmed_at_request,
          old_schedule |-> request.old_schedule, new_schedule |-> current_schedule(changed),
          refund |-> changed.pending_refund - grant.pending_refund])
    /\ grant' = close_if_settled(changed)
    /\ request' = None
    /\ UNCHANGED <<paid, reviewVars>>

\* Mutant: the last refund does not close the grant.
execute_refundOpen ==
    /\ grant.pending_refund > 0
    /\ grant' = [grant EXCEPT !.pending_refund = 0, !.refunded = @ + grant.pending_refund]
    /\ UNCHANGED <<request, history, paid, reviewVars>>

\* A refund the treasury refuses is rolled back: no step.
execute_refund ==
    /\ grant.pending_refund > 0
    /\ grant' = close_if_settled(
         [grant EXCEPT !.pending_refund = 0, !.refunded = @ + grant.pending_refund])
    /\ UNCHANGED <<request, history, paid, reviewVars>>

\* External: in order, with the review quorum, also while a request is open.
lifecycle_confirm ==
    LET k == confirmed_count(grant) + 1 IN
    /\ grant.status \notin {"Terminated", "Closed"}
    /\ k <= Len(grant.milestones)
    /\ has_review_quorum
    /\ grant' = [grant EXCEPT !.milestones[k].confirmed = TRUE,
                              !.claimable = @ + grant.milestones[k].amount]
    /\ UNCHANGED <<request, history, paid, reviewVars>>

\* External: pays what is claimable and closes a grant that is then settled.
lifecycle_claim ==
    /\ grant.claimable > 0
    /\ paid' = paid + grant.claimable
    /\ grant' = close_if_settled(
         [grant EXCEPT !.claimable = 0,
                       !.milestones = [k \in DOMAIN grant.milestones |->
                          [grant.milestones[k] EXCEPT !.claimed = grant.milestones[k].confirmed]]])
    /\ UNCHANGED <<request, history, reviewVars>>

LifecycleNext ==
    \/ \E caller \in {Grantee, Governance} : close_request(caller) \/ \E c \in Changes : request_change(caller, c)
    \/ \E caller \in Reviewers \cup {Governance} : approve_request(caller)
    \/ execute_request \/ execute_refund
    \/ lifecycle_confirm \/ lifecycle_claim
    \/ ReviewsNext /\ UNCHANGED grantVars

LifecycleSpec == LifecycleInit /\ [][LifecycleNext]_lifecycleVars

-----------------------------------------------------------------------------
\* The milestones the grantee was paid for, and those they may claim.
ClaimedOf(g) == {k \in DOMAIN g.milestones : g.milestones[k].claimed}
ClaimableOf(g) ==
    {k \in DOMAIN g.milestones : g.milestones[k].confirmed /\ ~g.milestones[k].claimed}

\* The schedule a request asks for, given the one it was filed against.
Requested(h) ==
    LET kept == SubSeq(h.old_schedule, 1, h.confirmed)
        rest == SubSeq(h.old_schedule, h.confirmed + 1, Len(h.old_schedule))
    IN CASE h.change.kind = "Amendment" -> kept \o h.change.new_pending
         [] h.change.kind = "Extension" ->
              kept \o [k \in DOMAIN rest |-> [rest[k] EXCEPT !.due = h.change.new_due_dates[k]]]
         [] h.change.kind = "Termination" ->
              LET earned == (Head(rest).amount * h.change.earned_bps) \div BPS_DENOM
              IN kept \o (IF earned > 0 THEN <<[Head(rest) EXCEPT !.amount = earned]>> ELSE <<>>)

(* The audit trail (lifecycle.rs:12-14, 32-33): the records lead from the  *)
(* first schedule to the current one without a gap, each applied exactly   *)
(* what its request asked for of the schedule it was filed against, and    *)
(* recorded the refund that follows, however long the request waited and   *)
(* whatever was confirmed meanwhile (request_change, execute_request).     *)
HistoryExact ==
    /\ \A k \in DOMAIN history :
         /\ history[k].old_schedule = IF k = 1 THEN FirstSchedule ELSE history[k - 1].new_schedule
         /\ history[k].new_schedule = Requested(history[k])
         /\ history[k].refund = TermSum(history[k].old_schedule) - TermSum(history[k].new_schedule)
    /\ current_schedule(grant) = IF history = <<>> THEN FirstSchedule ELSE Last(history).new_schedule

(* Whatever was amended, extended, terminated or refunded in between, the  *)
(* award is either in a milestone, waiting to be refunded or refunded; the *)
(* grantee received the claimed milestones, can claim the confirmed ones,  *)
(* and a closed grant owes nothing (is_conserved in execute_request, and   *)
(* the proptest in tests/lifecycle.rs, which never interleaves a           *)
(* confirmation with an open request); with HistoryExact.                  *)
AwardConserved ==
    /\ HistoryExact
    /\ TermSum(grant.milestones) + grant.pending_refund + grant.refunded = Award
    /\ paid = SumOver(Amounts(grant.milestones), ClaimedOf(grant))
    /\ grant.claimable = SumOver(Amounts(grant.milestones), ClaimableOf(grant))
    /\ grant.status = "Closed" => paid + grant.refunded = Award

LifecycleFairness == WF_lifecycleVars(execute_refund) /\ WF_lifecycleVars(lifecycle_claim)

(* A terminated grant is wound up: once the grantee claims and the         *)
(* treasury accepts the refund, in either order, it closes                 *)
(* (lifecycle.rs:22-24; execute_refund, claim, close_if_settled).          *)
TerminatedGrantsClose == grant.status = "Terminated" ~> grant.status = "Closed"
=============================================================================
