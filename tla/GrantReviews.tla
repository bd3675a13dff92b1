---------------------------- MODULE GrantReviews ----------------------------
(***************************************************************************)
(* Reviewers of one grant (grants/src/review.rs): governance registers and *)
(* assigns them, they review, and a conflict of interest, declared by the  *)
(* reviewer or flagged by governance, recuses them.  The approving reviews *)
(* that count gate confirm_milestone.  Scores, roles and the kind and      *)
(* evidence of a conflict decide nothing and are left out.                 *)
(***************************************************************************)
EXTENDS LedgerClock, FiniteSets

CONSTANTS
    Grantee,        \* the grant's recipient
    Reviewers,      \* addresses governance may register; the grantee may be one
    Quorums         \* values set_review_quorum is called with

Review == [approve : BOOLEAN, valid : BOOLEAN]

\* None is what an absent entry of a map reads as.
ASSUME ReviewConstants == Quorums \subseteq Nat /\ None \notin Review

VARIABLES
    reviewer,       \* self.reviewers: None, "active" or "inactive"
    assigned,       \* self.assignments for the grant
    review,         \* self.reviews for the grant: None or a Review
    conflict,       \* self.conflicts for the grant: None, "active" or "waived"
    review_quorum,
    disowned        \* history: reviewers with a conflict recorded since they last reviewed

reviewVars == <<reviewer, assigned, review, conflict, review_quorum, disowned>>

ReviewsInit ==
    /\ reviewer = [r \in Reviewers |-> None]
    /\ assigned = {}
    /\ review = [r \in Reviewers |-> None]
    /\ conflict = [r \in Reviewers |-> None]
    /\ review_quorum = 0
    /\ disowned = {}

Unconflicted(r) ==
    reviewer[r] = "active" /\ r # Grantee /\ conflict[r] # "active"

Eligible(r) == Unconflicted(r) /\ r \in assigned

ValidReview(r) == IF review[r] = None THEN FALSE ELSE review[r].valid

ApprovingReviewers == {r \in Reviewers : ValidReview(r) /\ review[r].approve /\ Eligible(r)}

has_review_quorum == Cardinality(ApprovingReviewers) >= review_quorum

register_reviewer(r) ==
    /\ reviewer[r] = None
    /\ reviewer' = [reviewer EXCEPT ![r] = "active"]
    /\ UNCHANGED <<assigned, review, conflict, review_quorum, disowned>>

set_reviewer_active(r, status) ==
    /\ reviewer[r] # None
    /\ reviewer' = [reviewer EXCEPT ![r] = status]
    /\ UNCHANGED <<assigned, review, conflict, review_quorum, disowned>>

set_review_quorum(q) ==
    /\ review_quorum' = q
    /\ UNCHANGED <<reviewer, assigned, review, conflict, disowned>>

assign_reviewer(r) ==
    /\ r \notin assigned
    /\ Unconflicted(r)
    /\ assigned' = assigned \cup {r}
    /\ UNCHANGED <<reviewer, review, conflict, review_quorum, disowned>>

\* An invalidated review may be replaced, a valid one may not.
submit_review(r, approve) ==
    /\ Eligible(r)
    /\ ~ValidReview(r)
    /\ review' = [review EXCEPT ![r] = [approve |-> approve, valid |-> TRUE]]
    /\ disowned' = disowned \ {r}
    /\ UNCHANGED <<reviewer, assigned, conflict, review_quorum>>

\* Mutant: the reviewer is unassigned, the review stays valid.
record_conflictUnassignOnly(r) ==
    /\ reviewer[r] # None
    /\ conflict[r] # "active"
    /\ conflict' = [conflict EXCEPT ![r] = "active"]
    /\ assigned' = assigned \ {r}
    /\ disowned' = IF review[r] = None THEN disowned ELSE disowned \cup {r}
    /\ UNCHANGED <<review, reviewer, review_quorum>>

\* declare_conflict and flag_conflict: record_conflict, then recuse.
record_conflict(r) ==
    /\ reviewer[r] # None
    /\ conflict[r] # "active"
    /\ conflict' = [conflict EXCEPT ![r] = "active"]
    /\ assigned' = assigned \ {r}
    /\ review' = IF review[r] = None THEN review ELSE [review EXCEPT ![r].valid = FALSE]
    /\ disowned' = IF review[r] = None THEN disowned ELSE disowned \cup {r}
    /\ UNCHANGED <<reviewer, review_quorum>>

waive_conflict(r) ==
    /\ conflict[r] = "active"
    /\ conflict' = [conflict EXCEPT ![r] = "waived"]
    /\ UNCHANGED <<reviewer, assigned, review, review_quorum, disowned>>

ReviewsNext ==
    \/ \E r \in Reviewers :
         \/ register_reviewer(r)
         \/ \E status \in {"active", "inactive"} : set_reviewer_active(r, status)
         \/ assign_reviewer(r)
         \/ \E approve \in BOOLEAN : submit_review(r, approve)
         \/ record_conflict(r)
         \/ waive_conflict(r)
    \/ \E q \in Quorums : set_review_quorum(q)

ReviewsSpec == ReviewsInit /\ [][ReviewsNext]_reviewVars

-----------------------------------------------------------------------------
(* review.rs:10-20, through any sequence of conflicts, waivers and new     *)
(* assignments: nobody with an open conflict and not the grantee is        *)
(* assigned, and a review written before a conflict never counts again,    *)
(* not even once the conflict is waived and the reviewer is back           *)
(* (record_conflict, recuse, waive_conflict, submit_review).               *)
ReviewersIndependent ==
    /\ assigned \subseteq {r \in Reviewers : r # Grantee /\ conflict[r] # "active"}
    /\ \A r \in Reviewers : ValidReview(r) => r \notin disowned
=============================================================================
