------------------------------ MODULE MCGrants ------------------------------
(* The grants crate for TLC.  Its parts share no state, so the first state    *)
(* says which one is at work and the others rest.                             *)
EXTENDS Grants, GrantLifecycle, Appeals

VARIABLE part

rest(p) ==
    /\ p # "contract" => UNCHANGED grantsVars
    /\ p # "batch" => UNCHANGED modelBook
    /\ p \notin {"reviews", "lifecycle"} => UNCHANGED lifecycleVars
    /\ p # "appeals" => UNCHANGED appealVars

MCInit ==
    /\ part \in {"contract", "batch", "reviews", "lifecycle", "appeals"}
    /\ LedgerInit /\ GrantsInit /\ GrantsModelInit /\ LifecycleInit /\ AppealsInit

\* A grant's changes are followed with one reviewer, its reviews alone with all.
TheReviewer == CHOOSE r \in Reviewers : r # Grantee
OneReviewer == \A r \in Reviewers \ {TheReviewer} : reviewer'[r] = None

MCNext ==
    /\ UNCHANGED part
    /\ rest(part)
    /\ \/ part = "contract" /\ GrantsNext
       \/ part = "batch" /\ GrantsModelNext
       \/ part = "reviews" /\ ReviewsNext /\ UNCHANGED grantVars
       \/ part = "lifecycle" /\ LifecycleNext /\ OneReviewer
       \/ part = "appeals" /\ AppealsNext

MCSpec ==
    /\ MCInit
    /\ [][MCNext]_<<part, modelBook, grantsVars, lifecycleVars, appealVars>>
    /\ (part = "lifecycle") => LifecycleFairness
    /\ (part = "appeals") => AppealsFairness

term(a, d) == [amount |-> a, due |-> d]
MCFirstSchedule == <<term(1, 1), term(2, 2)>>
MCAmendments == {<<term(2, 2)>>, <<term(1, 1), term(1, 2)>>}
MCExtensions == {<<1, 3>>, <<2>>, <<3>>}
MCSchedules == {<<3>>, <<1, 2>>, <<2>>}
=============================================================================
