---------------------------- MODULE GrantsProofs ----------------------------
(***************************************************************************)
(* Proofs about the grants crate: the reviewers of a grant, the panels of  *)
(* an appeal, and the books of GrantsModel and RefractGrants.              *)
(***************************************************************************)
EXTENDS Grants, GrantLifecycle, Appeals, CollectionTheorems, SequenceTheorems

-----------------------------------------------------------------------------
(* Reviews. *)

\* ReviewersIndependent with the types its steps need.
ReviewsInv ==
  /\ review \in [Reviewers -> Review \cup {None}]
  /\ conflict \in [Reviewers -> {None, "active", "waived"}]
  /\ reviewer \in [Reviewers -> {None, "active", "inactive"}]
  /\ ReviewersIndependent

(* Through every sequence of conflicts, waivers and new assignments, and   *)
(* for every set of reviewers: nobody with an open conflict is assigned,   *)
(* nor the grantee, and a review written before a conflict never counts    *)
(* again.                                                                  *)
THEOREM ReviewersAlwaysIndependent == ReviewsSpec => []ReviewersIndependent
  <1> USE ReviewConstants
  <1>1. ReviewsInit => ReviewsInv
    BY DEF ReviewsInit, ReviewsInv, ReviewersIndependent, ValidReview
  <1>2. ReviewsInv /\ [ReviewsNext]_reviewVars => ReviewsInv'
    <2> SUFFICES ASSUME ReviewsInv, [ReviewsNext]_reviewVars  PROVE ReviewsInv'
      OBVIOUS
    <2> USE DEF ReviewsInv, ReviewersIndependent
    <2>1. ASSUME NEW r \in Reviewers, register_reviewer(r)  PROVE ReviewsInv'
      BY <2>1 DEF register_reviewer, ValidReview
    <2>2. ASSUME NEW r \in Reviewers, NEW status \in {"active", "inactive"},
                 set_reviewer_active(r, status)
          PROVE  ReviewsInv'
      BY <2>2 DEF set_reviewer_active, ValidReview
    <2>3. ASSUME NEW r \in Reviewers, assign_reviewer(r)  PROVE ReviewsInv'
      BY <2>3 DEF assign_reviewer, Unconflicted, ValidReview
    <2>4. ASSUME NEW r \in Reviewers, NEW approve \in BOOLEAN, submit_review(r, approve)
          PROVE  ReviewsInv'
      <3> DEFINE w == [approve |-> approve, valid |-> TRUE]
      <3>1. w \in Review
        BY DEF Review
      <3>2. review' = [review EXCEPT ![r] = w] /\ disowned' = disowned \ {r}
            /\ UNCHANGED <<reviewer, assigned, conflict>>
        BY <2>4 DEF submit_review
      <3> HIDE DEF w
      <3>3. \A s \in Reviewers \ {r} : review'[s] = review[s]
        BY <3>2
      <3>4. \A s \in Reviewers : ValidReview(s)' => s \notin disowned'
        BY <3>2, <3>3 DEF ValidReview
      <3> QED  BY <3>1, <3>2, <3>4
    <2>5. ASSUME NEW r \in Reviewers, record_conflict(r)  PROVE ReviewsInv'
      <3>1. /\ conflict' = [conflict EXCEPT ![r] = "active"] /\ assigned' = assigned \ {r}
            /\ UNCHANGED reviewer
        BY <2>5 DEF record_conflict
      <3>2. CASE review[r] = None
        BY <2>5, <3>1, <3>2 DEF record_conflict, ValidReview
      <3>3. CASE review[r] # None
        <4> DEFINE w == [review[r] EXCEPT !.valid = FALSE]
        <4>1. w \in Review /\ ~ w.valid
          BY <3>3 DEF Review
        <4>2. review' = [review EXCEPT ![r] = w] /\ disowned' = disowned \cup {r}
          BY <2>5, <3>3 DEF record_conflict
        <4> HIDE DEF w
        <4>3. \A s \in Reviewers \ {r} : review'[s] = review[s]
          BY <4>2
        <4>4. review'[r] = w
          BY <4>2
        <4>5. \A s \in Reviewers : ValidReview(s)' => s \notin disowned'
          BY <4>1, <4>2, <4>3, <4>4 DEF ValidReview
        <4>6. /\ review' \in [Reviewers -> Review \cup {None}]
              /\ conflict' \in [Reviewers -> {None, "active", "waived"}]
          BY <3>1, <4>1, <4>2
        <4>7. assigned' \subseteq {s \in Reviewers : s # Grantee /\ conflict'[s] # "active"}
          BY <3>1
        <4> QED  BY <3>1, <4>5, <4>6, <4>7
      <3> QED  BY <3>2, <3>3
    <2>6. ASSUME NEW r \in Reviewers, waive_conflict(r)  PROVE ReviewsInv'
      BY <2>6 DEF waive_conflict, ValidReview
    <2>7. ASSUME UNCHANGED reviewVars \/ \E q \in Quorums : set_review_quorum(q)  PROVE ReviewsInv'
      BY <2>7 DEF reviewVars, set_review_quorum, ValidReview
    <2> QED  BY <2>1, <2>2, <2>3, <2>4, <2>5, <2>6, <2>7 DEF ReviewsNext
  <1>3. ReviewsInv => ReviewersIndependent
    BY DEF ReviewsInv
  <1> QED  BY <1>1, <1>2, <1>3, PTL DEF ReviewsSpec

-----------------------------------------------------------------------------
(* Appeals. *)

\* The types of an application and of the ballots, by panel and panelist.
AppStatus == {"Rejected", "AppealSubmitted", "UnderReReview", "Overturned", "Upheld", "Escalated", "Funded"}
Application == [status : AppStatus, decided_at : Nat, appeals_used : Nat, appeals_allowed : Nat,
                finalized : BOOLEAN]
Ballots == [1 .. MaxPanels -> [Panelists -> Votes \cup {None}]]

\* Who of the present panel of appeal a voted c.
VotesFor(a, b, c) == {m \in Panelists : a.panel_version > 0 /\ b[a.panel_version][m] = c}

\* Of one appeal and the ballots: no ballot is cast for a panel to come, those of
\* the present panel are its members', and the tally counts exactly them.
Counted(a, b) ==
  /\ \A v \in 1 .. MaxPanels, m \in Panelists : v > a.panel_version => b[v][m] = None
  /\ \A m \in Panelists : a.panel_version > 0 /\ b[a.panel_version][m] # None => m \in a.panel
  /\ a.panel_version = 0 => a.panel = {}
  /\ a.panel \cap (OriginalReviewers \cup {Applicant}) = {}
  /\ \A c \in Votes : a.tally[c] = Cardinality(VotesFor(a, b, c))

\* An outcome the timelock has not spoken on is a strict majority's.
ByMajority(status, a) ==
  /\ status = "Overturned" => 2 * a.tally["Overturn"] > Cardinality(a.panel)
  /\ status = "Upheld" => 2 * a.tally["Uphold"] > Cardinality(a.panel)

\* The types of the appeal's state.
AppealsTypes == now \in Nat /\ app \in Application /\ ballots \in Ballots /\ appeal \in Appeal \cup {None}

\* The inductive invariant: an appeal exists once the rejection is appealed, its
\* tally is exact, and what is decided short of the timelock is by majority.
AppealsInv ==
  /\ AppealsTypes
  /\ appeal = None => app.status = "Rejected"
  /\ appeal # None => Counted(appeal, ballots) /\ (~app.finalized => ByMajority(app.status, appeal))

\* No appeal is open in the initial state.
LEMMA AppealsInvInit == LedgerInit /\ AppealsInit => AppealsInv
  BY AbsentAppeal DEF LedgerInit, AppealsInit, AppealsInv, AppealsTypes, Application, AppStatus,
     Ballots, NoBallots

\* The stored tally is the panel's own ballots, so that its majority decides.
LEMMA CountedIsDecided == AppealsInv => PanelDecides
  <1> SUFFICES ASSUME AppealsInv, appeal # None  PROVE PanelDecides
    BY DEF PanelDecides
  <1>1. \A c \in Votes : BallotsFor(c) = VotesFor(appeal, ballots, c)
    BY DEF BallotsFor, VotesFor
  <1>2. Counted(appeal, ballots)
    BY DEF AppealsInv
  <1>3. \A c \in Votes : VotesFor(appeal, ballots, c) \subseteq appeal.panel
    BY <1>2, AbsentAppeal DEF VotesFor, Counted
  <1> QED  BY <1>1, <1>2, <1>3 DEF AppealsInv, PanelDecides, Counted, ByMajority

\* A new round starts without ballots, and so does every new panel.
LEMMA RoundStep ==
  ASSUME AppealsInv, submit_appeal
  PROVE  AppealsInv'
  <1> USE LedgerConstants, AppealConstants, AbsentAppeal
  <1> DEFINE a == [submitted_at |-> now, panel |-> {}, panel_version |-> 0,
                   panel_assigned_at |-> 0, tally |-> NoVotes, outcome |-> "Open"]
             p == [app EXCEPT !.appeals_used = @ + 1, !.status = "AppealSubmitted"]
  <1>1. app' = p /\ appeal' = a /\ ballots' = NoBallots /\ now' = now
    BY DEF submit_appeal
  <1>2. p \in Application /\ p.status = "AppealSubmitted"
    <2>1. app \in Application /\ app.appeals_used + 1 \in Nat
      BY DEF AppealsInv, AppealsTypes, Application
    <2> QED  BY <2>1 DEF Application, AppStatus
  <1>3. a.panel = {} /\ a.panel_version = 0 /\ a.tally = NoVotes
    OBVIOUS
  <1>4. a \in Appeal
    <2>1. NoVotes \in Tally /\ now \in Nat /\ 0 \in 0 .. MaxPanels
      BY DEF NoVotes, Tally, AppealsInv, AppealsTypes
    <2> QED  BY <2>1 DEF Appeal
  <1> HIDE DEF a, p
  <1>5. NoBallots \in Ballots /\ \A v \in 1 .. MaxPanels, m \in Panelists : NoBallots[v][m] = None
    BY DEF NoBallots, Ballots
  <1>6. \A c \in Votes : VotesFor(a, NoBallots, c) = {} /\ NoVotes[c] = 0
    BY <1>3 DEF VotesFor, NoVotes
  <1>7. Counted(a, NoBallots)
    BY <1>3, <1>5, <1>6, FS_EmptySet DEF Counted
  <1>8. ByMajority(p.status, a)
    BY <1>2 DEF ByMajority
  <1>9. a # None
    BY <1>4
  <1>10. AppealsTypes'
    BY <1>1, <1>2, <1>4, <1>5 DEF AppealsInv, AppealsTypes
  <1> QED  BY <1>1, <1>7, <1>8, <1>9, <1>10 DEF AppealsInv

\* A new panel starts with an empty tally and a version no ballot has yet.
LEMMA PanelStep ==
  ASSUME AppealsInv, NEW panel \in SUBSET Panelists, assign_appeal_panel(panel)
  PROVE  AppealsInv'
  <1> USE LedgerConstants, AppealConstants, AbsentAppeal
  <1> DEFINE a == [appeal EXCEPT !.panel = panel, !.panel_version = @ + 1,
                                 !.panel_assigned_at = now, !.tally = NoVotes]
             p == [app EXCEPT !.status = "UnderReReview"]
  <1>1. /\ app' = p /\ appeal' = a /\ UNCHANGED <<now, ballots>>
        /\ panel \cap (OriginalReviewers \cup {Applicant}) = {} /\ appeal.panel_version < MaxPanels
        /\ app.status \in {"AppealSubmitted", "UnderReReview"}
    BY DEF assign_appeal_panel
  <1>2. p \in Application /\ p.status = "UnderReReview" /\ p.finalized = app.finalized
    BY DEF AppealsInv, AppealsTypes, Application, AppStatus
  <1>3. appeal \in Appeal /\ appeal # None /\ now \in Nat /\ Counted(appeal, ballots)
    BY <1>1 DEF AppealsInv, AppealsTypes
  <1>4. NoVotes \in Tally
    BY DEF NoVotes, Tally
  <1>5. appeal.panel_version \in Nat /\ appeal.panel_version + 1 \in 0 .. MaxPanels
    BY <1>1, <1>3 DEF Appeal
  <1>6. /\ a \in Appeal /\ a.panel = panel /\ a.panel_version = appeal.panel_version + 1
        /\ a.tally = NoVotes
    BY <1>3, <1>4, <1>5 DEF Appeal
  <1> HIDE DEF a, p
  <1>7. \A v \in 1 .. MaxPanels, m \in Panelists : v >= a.panel_version => ballots[v][m] = None
    BY <1>3, <1>5, <1>6 DEF Counted
  <1>8. a.panel_version \in 1 .. MaxPanels
    BY <1>5, <1>6
  <1>9. \A c \in Votes : VotesFor(a, ballots, c) = {} /\ NoVotes[c] = 0
    BY <1>7, <1>8 DEF VotesFor, NoVotes
  <1>10. Counted(a, ballots)
    <2>1. \A v \in 1 .. MaxPanels, m \in Panelists : v > a.panel_version => ballots[v][m] = None
      BY <1>7, <1>8
    <2>2. \A m \in Panelists : ballots[a.panel_version][m] = None
      BY <1>7, <1>8
    <2>3. \A c \in Votes : a.tally[c] = Cardinality(VotesFor(a, ballots, c))
      BY <1>6, <1>9, FS_EmptySet
    <2>4. a.panel_version # 0 /\ a.panel \cap (OriginalReviewers \cup {Applicant}) = {}
      BY <1>1, <1>6, <1>8
    <2> QED  BY <2>1, <2>2, <2>3, <2>4 DEF Counted
  <1>11. ByMajority(p.status, a)
    BY <1>2 DEF ByMajority
  <1>12. AppealsTypes' /\ a # None
    BY <1>1, <1>2, <1>6 DEF AppealsInv, AppealsTypes
  <1> QED  BY <1>1, <1>10, <1>11, <1>12 DEF AppealsInv

\* A ballot is a member's first for the present panel: it adds one to one count.
LEMMA BallotStep ==
  ASSUME AppealsInv, NEW member \in Panelists, NEW vote \in Votes, submit_appeal_review(member, vote)
  PROVE  AppealsInv'
  <1> USE AppealConstants, AbsentAppeal
  <1> DEFINE version == appeal.panel_version
             n == Cardinality(appeal.panel)
             tally == [appeal.tally EXCEPT ![vote] = appeal.tally[vote] + 1]
             complete == tally["Uphold"] + tally["Overturn"] + tally["Escalate"] = n
             outcome == PanelOutcome(tally, n)
             a == [appeal EXCEPT !.tally = tally,
                                 !.outcome = IF complete THEN outcome ELSE appeal.outcome]
             p == [app EXCEPT !.status = IF complete THEN outcome ELSE app.status]
             row == [ballots[version] EXCEPT ![member] = vote]
  <1>1. /\ app.status = "UnderReReview" /\ member \in appeal.panel
        /\ ballots[version][member] = None
        /\ ballots' = [ballots EXCEPT ![version] = row]
        /\ appeal' = a /\ app' = p /\ now' = now
    BY DEF submit_appeal_review
  <1>2. appeal \in Appeal /\ appeal # None /\ Counted(appeal, ballots) /\ app \in Application
        /\ ballots \in Ballots /\ now \in Nat
    BY <1>1 DEF AppealsInv, AppealsTypes
  <1>3. version \in 1 .. MaxPanels
    BY <1>1, <1>2 DEF Counted, Appeal
  <1>4. appeal.tally \in Tally /\ tally \in Tally
    BY <1>2 DEF Appeal, Tally
  <1>5. outcome \in {"Overturned", "Upheld", "Escalated"}
    BY DEF PanelOutcome
  <1>6. n \in Nat
    <2>1. appeal.panel \in SUBSET Panelists
      BY <1>2 DEF Appeal
    <2> QED  BY <2>1, FS_Subset, FS_CardinalityType
  <1>7. outcome = "Overturned" => 2 * tally["Overturn"] > n
    BY <1>4, <1>6 DEF PanelOutcome, Tally, Votes
  <1>8. outcome = "Upheld" => 2 * tally["Uphold"] > n
    BY <1>4, <1>6 DEF PanelOutcome, Tally, Votes
  <1>9. tally[vote] = appeal.tally[vote] + 1 /\ \A c \in Votes \ {vote} : tally[c] = appeal.tally[c]
    BY <1>4 DEF Tally
  <1> HIDE DEF outcome, complete, tally
  <1>10. /\ a \in Appeal /\ a.panel = appeal.panel /\ a.panel_version = version /\ a.tally = tally
    BY <1>2, <1>4, <1>5 DEF Appeal
  <1>11. p \in Application /\ p.status = (IF complete THEN outcome ELSE "UnderReReview")
    BY <1>1, <1>2, <1>5 DEF Application, AppStatus
  <1> HIDE DEF a, p
  <1>12. ballots[version] \in [Panelists -> Votes \cup {None}]
    BY <1>2, <1>3 DEF Ballots
  <1>13. /\ row \in [Panelists -> Votes \cup {None}] /\ row[member] = vote
         /\ \A m \in Panelists \ {member} : row[m] = ballots[version][m]
    BY <1>12
  <1> HIDE DEF row
  <1>14. /\ ballots' \in Ballots /\ ballots'[version] = row
         /\ \A v \in 1 .. MaxPanels : v # version => ballots'[v] = ballots[v]
    BY <1>1, <1>2, <1>3, <1>13 DEF Ballots
  <1> HIDE DEF version
  <1>15. ASSUME NEW c \in Votes
         PROVE  tally[c] = Cardinality(VotesFor(a, ballots', c))
    <2>1. VotesFor(appeal, ballots, c) = {m \in Panelists : ballots[version][m] = c}
      BY <1>3 DEF VotesFor, version
    <2>2. VotesFor(a, ballots', c) = {m \in Panelists : row[m] = c}
      BY <1>3, <1>10, <1>14 DEF VotesFor
    <2>3. IsFiniteSet(VotesFor(appeal, ballots, c))
      BY FS_Subset DEF VotesFor
    <2>4. appeal.tally[c] = Cardinality(VotesFor(appeal, ballots, c))
      BY <1>2 DEF Counted
    <2>5. CASE c = vote
      <3>1. VotesFor(a, ballots', c) = VotesFor(appeal, ballots, c) \cup {member}
        BY <1>13, <2>1, <2>2, <2>5
      <3>2. member \notin VotesFor(appeal, ballots, c)
        BY <1>1, <2>1
      <3>3. Cardinality(VotesFor(a, ballots', c)) = Cardinality(VotesFor(appeal, ballots, c)) + 1
        BY <2>3, <3>1, <3>2, FS_AddElement
      <3> QED  BY <1>9, <2>4, <2>5, <3>3
    <2>6. CASE c # vote
      <3>1. VotesFor(a, ballots', c) = VotesFor(appeal, ballots, c)
        BY <1>1, <1>13, <2>1, <2>2, <2>6
      <3> QED  BY <1>9, <2>4, <2>6, <3>1
    <2> QED  BY <2>5, <2>6
  <1>16. Counted(a, ballots')
    <2>1. \A v \in 1 .. MaxPanels, m \in Panelists : v > version => ballots'[v][m] = None
      <3>1. \A v \in 1 .. MaxPanels : v > version => v # version
        BY <1>3
      <3> QED  BY <1>2, <1>14, <3>1 DEF Counted, version
    <2>2. \A m \in Panelists : row[m] # None => m \in appeal.panel
      BY <1>1, <1>2, <1>3, <1>13 DEF Counted, version
    <2>3. version # 0
      BY <1>3
    <2> QED  BY <1>2, <1>10, <1>14, <1>15, <2>1, <2>2, <2>3 DEF Counted
  <1>17. ByMajority(p.status, a)
    BY <1>7, <1>8, <1>10, <1>11 DEF ByMajority
  <1>18. AppealsTypes' /\ a # None
    BY <1>1, <1>2, <1>10, <1>11, <1>14 DEF AppealsTypes
  <1> QED  BY <1>1, <1>16, <1>17, <1>18 DEF AppealsInv

\* The appeal's votes and panel stay; only the outcome and the status change.
LEMMA OutcomeStep ==
  ASSUME AppealsInv, NEW status \in AppStatus, NEW outcome \in {"Overturned", "Upheld", "Escalated"},
         NEW final \in BOOLEAN, appeal # None, UNCHANGED <<now, ballots>>,
         appeal' = [appeal EXCEPT !.outcome = outcome],
         app' \in Application, app'.status = status, app'.finalized = final,
         final \/ ByMajority(status, appeal)
  PROVE  AppealsInv'
  <1> DEFINE a == [appeal EXCEPT !.outcome = outcome]
  <1>1. appeal \in Appeal /\ Counted(appeal, ballots)
    BY DEF AppealsInv, AppealsTypes
  <1>2. /\ a \in Appeal /\ a.panel = appeal.panel /\ a.panel_version = appeal.panel_version
        /\ a.tally = appeal.tally /\ appeal' = a
    BY <1>1 DEF Appeal
  <1> HIDE DEF a
  <1>3. Counted(a, ballots) /\ (final \/ ByMajority(status, a))
    BY <1>1, <1>2 DEF Counted, VotesFor, ByMajority
  <1>4. AppealsTypes' /\ a # None
    BY <1>2, AbsentAppeal DEF AppealsInv, AppealsTypes
  <1> QED  BY <1>2, <1>3, <1>4 DEF AppealsInv

(* However often the panel of an appeal is replaced, and for every set of  *)
(* panelists: the tally is the votes of the present panel, nobody votes on *)
(* a decision of their own, and short of the timelock an application is    *)
(* upheld or overturned only by a strict majority of the whole panel.      *)
THEOREM PanelsAlwaysDecide == AppealsSpec => []PanelDecides
  <1>1. AppealsInv /\ [AppealsNext]_appealVars => AppealsInv'
    <2> SUFFICES ASSUME AppealsInv, [AppealsNext]_appealVars  PROVE AppealsInv'
      OBVIOUS
    <2>0. app \in Application /\ (app.status # "Rejected" => appeal # None) /\ now \in Nat
      BY DEF AppealsInv, AppealsTypes
    <2>1. CASE escalate_stalled
      <3> DEFINE p == [app EXCEPT !.status = "Escalated"]
      <3>1. p \in Application /\ p.status = "Escalated" /\ p.finalized \in BOOLEAN
        BY <2>0 DEF Application, AppStatus
      <3>2. appeal # None /\ app' = p /\ appeal' = [appeal EXCEPT !.outcome = "Escalated"]
            /\ UNCHANGED <<now, ballots>>
        BY <2>0, <2>1 DEF escalate_stalled
      <3> HIDE DEF p
      <3> QED  BY <3>1, <3>2, OutcomeStep DEF ByMajority, AppStatus
    <2>2. ASSUME NEW overturn \in BOOLEAN, final_decision(overturn)  PROVE AppealsInv'
      <3> DEFINE outcome == IF overturn THEN "Overturned" ELSE "Upheld"
                 p == [app EXCEPT !.status = outcome, !.finalized = TRUE]
      <3>1. p \in Application /\ p.status = outcome /\ p.finalized
            /\ outcome \in {"Overturned", "Upheld"}
        BY <2>0 DEF Application, AppStatus
      <3>2. appeal # None /\ app' = p /\ appeal' = [appeal EXCEPT !.outcome = outcome]
            /\ UNCHANGED <<now, ballots>>
        BY <2>0, <2>2 DEF final_decision
      <3> HIDE DEF p, outcome
      <3> QED  BY <3>1, <3>2, OutcomeStep DEF AppStatus
    <2>3. CASE reopen_appeal
      <3> DEFINE p == [app EXCEPT !.appeals_allowed = @ + 1, !.status = "Rejected",
                                  !.decided_at = now, !.finalized = FALSE]
      <3>1. p \in Application /\ p.status = "Rejected"
        <4>1. app.appeals_allowed + 1 \in Nat
          BY <2>0 DEF Application
        <4> QED  BY <2>0, <4>1 DEF Application, AppStatus
      <3>2. app' = p /\ UNCHANGED <<now, appeal, ballots>>
        BY <2>3 DEF reopen_appeal
      <3> HIDE DEF p
      <3> QED  BY <3>1, <3>2 DEF AppealsInv, AppealsTypes, ByMajority
    <2>4. CASE fund_application
      <3> DEFINE p == [app EXCEPT !.status = "Funded"]
      <3>1. p \in Application /\ p.status = "Funded"
        BY <2>0 DEF Application, AppStatus
      <3>2. appeal # None /\ app' = p /\ UNCHANGED <<now, appeal, ballots>>
        BY <2>0, <2>4 DEF fund_application
      <3> HIDE DEF p
      <3> QED  BY <3>1, <3>2 DEF AppealsInv, AppealsTypes, ByMajority
    <2>5. CASE AppealsTick \/ UNCHANGED appealVars
      BY <2>0, <2>5 DEF AppealsTick, LedgerTick, appealVars, AppealsInv, AppealsTypes
    <2> QED  BY <2>1, <2>2, <2>3, <2>4, <2>5, RoundStep, PanelStep, BallotStep DEF AppealsNext
  <1> QED  BY <1>1, AppealsInvInit, CountedIsDecided, PTL DEF AppealsSpec

-----------------------------------------------------------------------------
(* The grant book. *)

\* What the sums over a list of milestones range over.
LEMMA MilestoneFacts ==
  ASSUME NEW ms \in Seq(Milestone)
  PROVE  /\ DOMAIN ms = 1 .. Len(ms) /\ Len(ms) \in Nat /\ IsFiniteSet(DOMAIN ms)
         /\ \A k \in DOMAIN ms : /\ ms[k] \in Milestone
                                 /\ AmountOf(ms[k]) \in Nat
                                 /\ Unclaimed(ms[k]) \in Nat
                                 /\ PaidOut(ms[k]) \in Nat
         /\ AmountsIn(ms) \in Nat
         /\ UnclaimedIn(ms) \in Nat
         /\ PaidOutIn(ms) \in Nat
  <1>1. DOMAIN ms = 1 .. Len(ms) /\ Len(ms) \in Nat /\ \A k \in DOMAIN ms : ms[k] \in Milestone
    OBVIOUS
  <1>2. IsFiniteSet(DOMAIN ms)
    BY <1>1, FS_Interval
  <1>3. \A k \in DOMAIN ms : AmountOf(ms[k]) \in Nat /\ Unclaimed(ms[k]) \in Nat /\ PaidOut(ms[k]) \in Nat
    BY <1>1 DEF Milestone, AmountOf, Unclaimed, PaidOut
  <1> DEFINE f == [k \in DOMAIN ms |-> AmountOf(ms[k])]
             u == [k \in DOMAIN ms |-> Unclaimed(ms[k])]
             p == [k \in DOMAIN ms |-> PaidOut(ms[k])]
  <1>4. (\A k \in DOMAIN ms : f[k] \in Nat) /\ (\A k \in DOMAIN ms : u[k] \in Nat)
        /\ (\A k \in DOMAIN ms : p[k] \in Nat)
    BY <1>3
  <1> HIDE DEF f, u, p
  <1>5. SumOver(f, DOMAIN ms) \in Nat /\ SumOver(u, DOMAIN ms) \in Nat /\ SumOver(p, DOMAIN ms) \in Nat
    BY <1>2, <1>4, SumNat
  <1> QED  BY <1>1, <1>2, <1>3, <1>5 DEF f, u, p, AmountsIn, UnclaimedIn, PaidOutIn

\* A list that differs in one milestone.
LEMMA MilestoneChange ==
  ASSUME NEW ms \in Seq(Milestone), NEW k \in DOMAIN ms, NEW m \in Milestone,
         NEW new \in Seq(Milestone), DOMAIN new = DOMAIN ms,
         new[k] = m, \A j \in DOMAIN ms \ {k} : new[j] = ms[j]
  PROVE  /\ AmountsIn(new) = AmountsIn(ms) - AmountOf(ms[k]) + AmountOf(m)
         /\ UnclaimedIn(new) = UnclaimedIn(ms) - Unclaimed(ms[k]) + Unclaimed(m)
         /\ PaidOutIn(new) = PaidOutIn(ms) - PaidOut(ms[k]) + PaidOut(m)
  <1>1. /\ new \in Seq(Milestone) /\ DOMAIN new = DOMAIN ms
        /\ new[k] = m /\ \A j \in DOMAIN ms \ {k} : new[j] = ms[j]
    OBVIOUS
  <1>2. /\ IsFiniteSet(DOMAIN ms)
        /\ \A j \in DOMAIN ms : /\ AmountOf(ms[j]) \in Int /\ AmountOf(new[j]) \in Int
                                /\ Unclaimed(ms[j]) \in Int /\ Unclaimed(new[j]) \in Int
                                /\ PaidOut(ms[j]) \in Int /\ PaidOut(new[j]) \in Int
    <2>1. \A t \in Seq(Milestone) : \A j \in DOMAIN t :
             AmountOf(t[j]) \in Int /\ Unclaimed(t[j]) \in Int /\ PaidOut(t[j]) \in Int
      <3> SUFFICES ASSUME NEW t \in Seq(Milestone), NEW j \in DOMAIN t
                   PROVE  AmountOf(t[j]) \in Int /\ Unclaimed(t[j]) \in Int /\ PaidOut(t[j]) \in Int
        OBVIOUS
      <3>1. AmountOf(t[j]) \in Nat /\ Unclaimed(t[j]) \in Nat /\ PaidOut(t[j]) \in Nat
        BY MilestoneFacts
      <3> QED  BY <3>1
    <2> QED  BY <1>1, <2>1, MilestoneFacts
  <1>3. AmountsIn(new) = AmountsIn(ms) - AmountOf(ms[k]) + AmountOf(m)
    <2> DEFINE f == [j \in DOMAIN ms |-> AmountOf(ms[j])]
               g == [j \in DOMAIN new |-> AmountOf(new[j])]
    <2>1. /\ \A j \in DOMAIN ms : f[j] \in Int /\ g[j] \in Int
          /\ \A j \in DOMAIN ms \ {k} : g[j] = f[j]
          /\ f[k] = AmountOf(ms[k]) /\ g[k] = AmountOf(m)
      BY <1>1, <1>2
    <2> HIDE DEF f, g
    <2>2. SumOver(g, DOMAIN ms) = SumOver(f, DOMAIN ms) - f[k] + g[k]
      <3>1. PICK D : D = DOMAIN ms
        OBVIOUS
      <3>2. /\ IsFiniteSet(D) /\ k \in D /\ g[k] \in Int
            /\ \A j \in D : f[j] \in Int
            /\ \A j \in D \ {k} : g[j] = f[j]
        BY <1>2, <2>1, <3>1, Zenon
      <3>3. SumOver(g, D) = SumOver(f, D) - f[k] + g[k]
        BY <3>2, SumChange
      <3> QED  BY <3>1, <3>3, Zenon
    <2> QED  BY <1>1, <2>1, <2>2 DEF f, g, AmountsIn, UnclaimedIn, PaidOutIn
  <1>4. UnclaimedIn(new) = UnclaimedIn(ms) - Unclaimed(ms[k]) + Unclaimed(m)
    <2> DEFINE f == [j \in DOMAIN ms |-> Unclaimed(ms[j])]
               g == [j \in DOMAIN new |-> Unclaimed(new[j])]
    <2>1. /\ \A j \in DOMAIN ms : f[j] \in Int /\ g[j] \in Int
          /\ \A j \in DOMAIN ms \ {k} : g[j] = f[j]
          /\ f[k] = Unclaimed(ms[k]) /\ g[k] = Unclaimed(m)
      BY <1>1, <1>2
    <2> HIDE DEF f, g
    <2>2. SumOver(g, DOMAIN ms) = SumOver(f, DOMAIN ms) - f[k] + g[k]
      <3>1. PICK D : D = DOMAIN ms
        OBVIOUS
      <3>2. /\ IsFiniteSet(D) /\ k \in D /\ g[k] \in Int
            /\ \A j \in D : f[j] \in Int
            /\ \A j \in D \ {k} : g[j] = f[j]
        BY <1>2, <2>1, <3>1, Zenon
      <3>3. SumOver(g, D) = SumOver(f, D) - f[k] + g[k]
        BY <3>2, SumChange
      <3> QED  BY <3>1, <3>3, Zenon
    <2> QED  BY <1>1, <2>1, <2>2 DEF f, g, AmountsIn, UnclaimedIn, PaidOutIn
  <1>5. PaidOutIn(new) = PaidOutIn(ms) - PaidOut(ms[k]) + PaidOut(m)
    <2> DEFINE f == [j \in DOMAIN ms |-> PaidOut(ms[j])]
               g == [j \in DOMAIN new |-> PaidOut(new[j])]
    <2>1. /\ \A j \in DOMAIN ms : f[j] \in Int /\ g[j] \in Int
          /\ \A j \in DOMAIN ms \ {k} : g[j] = f[j]
          /\ f[k] = PaidOut(ms[k]) /\ g[k] = PaidOut(m)
      BY <1>1, <1>2
    <2> HIDE DEF f, g
    <2>2. SumOver(g, DOMAIN ms) = SumOver(f, DOMAIN ms) - f[k] + g[k]
      <3>1. PICK D : D = DOMAIN ms
        OBVIOUS
      <3>2. /\ IsFiniteSet(D) /\ k \in D /\ g[k] \in Int
            /\ \A j \in D : f[j] \in Int
            /\ \A j \in D \ {k} : g[j] = f[j]
        BY <1>2, <2>1, <3>1, Zenon
      <3>3. SumOver(g, D) = SumOver(f, D) - f[k] + g[k]
        BY <3>2, SumChange
      <3> QED  BY <3>1, <3>3, Zenon
    <2> QED  BY <1>1, <2>1, <2>2 DEF f, g, AmountsIn, UnclaimedIn, PaidOutIn
  <1> QED  BY <1>1, <1>3, <1>4, <1>5

\* Confirming the next milestone makes its amount claimable and nothing else.
LEMMA ConfirmedExact ==
  ASSUME NEW g \in Grant, GrantExact(g), NEW k \in DOMAIN g.milestones, NEW h \in Grant,
         \A j \in 1 .. k - 1 : g.milestones[j].confirmed, ~g.milestones[k].confirmed,
         h.milestones = [g.milestones EXCEPT ![k] = [g.milestones[k] EXCEPT !.confirmed = TRUE]],
         h.claimable = g.claimable + g.milestones[k].amount, h.total_amount = g.total_amount
  PROVE  GrantExact(h) /\ PaidOutIn(h.milestones) = PaidOutIn(g.milestones)
  <1> DEFINE ms == g.milestones
             m == [ms[k] EXCEPT !.confirmed = TRUE]
             new == h.milestones
  <1>1. ms \in Seq(Milestone) /\ g.claimable \in Int /\ g.total_amount \in Int
    BY DEF Grant
  <1>2. ms[k] \in Milestone /\ DOMAIN ms = 1 .. Len(ms) /\ Len(ms) \in Nat
    BY <1>1
  <1>3. ~ms[k].claimed
    BY DEF GrantExact
  <1>4. m \in Milestone /\ m.amount = ms[k].amount /\ m.confirmed /\ ~m.claimed
    BY <1>2, <1>3 DEF Milestone
  <1>5. /\ AmountOf(m) = AmountOf(ms[k]) /\ Unclaimed(ms[k]) = 0 /\ Unclaimed(m) = ms[k].amount
        /\ PaidOut(m) = PaidOut(ms[k])
    BY <1>3, <1>4 DEF AmountOf, Unclaimed, PaidOut
  <1> HIDE DEF m
  <1>6. new = [ms EXCEPT ![k] = m]
    BY DEF m
  <1>7. /\ AmountOf(ms[k]) \in Nat /\ PaidOut(ms[k]) \in Nat /\ ms[k].amount \in Nat
        /\ AmountsIn(ms) \in Nat /\ UnclaimedIn(ms) \in Nat /\ PaidOutIn(ms) \in Nat
    BY <1>1, <1>2, MilestoneFacts DEF Milestone
  <1> HIDE DEF ms, new
  <1>8. /\ DOMAIN new = DOMAIN ms
        /\ AmountsIn(new) = AmountsIn(ms) - AmountOf(ms[k]) + AmountOf(m)
        /\ UnclaimedIn(new) = UnclaimedIn(ms) - Unclaimed(ms[k]) + Unclaimed(m)
        /\ PaidOutIn(new) = PaidOutIn(ms) - PaidOut(ms[k]) + PaidOut(m)
    <2>1. k \in DOMAIN ms
      BY DEF ms
    <2>2. ms \in Seq(Milestone) /\ m \in Milestone
      BY <1>1, <1>4
    <2>3. /\ new \in Seq(Milestone) /\ DOMAIN new = DOMAIN ms
          /\ new[k] = m /\ \A j \in DOMAIN ms \ {k} : new[j] = ms[j]
      BY <1>6, <2>1, <2>2
    <2> QED  BY <2>1, <2>2, <2>3, MilestoneChange
  <1>9. /\ AmountsIn(new) = AmountsIn(ms)
        /\ UnclaimedIn(new) = UnclaimedIn(ms) + ms[k].amount
        /\ PaidOutIn(new) = PaidOutIn(ms)
    <2> DEFINE x == AmountsIn(ms)
               y == UnclaimedIn(ms)
               z == PaidOutIn(ms)
               u == AmountOf(ms[k])
               v == ms[k].amount
               w == PaidOut(ms[k])
    <2>1. x \in Nat /\ y \in Nat /\ z \in Nat /\ u \in Nat /\ v \in Nat /\ w \in Nat
      BY <1>7
    <2>2. /\ AmountsIn(new) = x - u + u
          /\ UnclaimedIn(new) = y - 0 + v
          /\ PaidOutIn(new) = z - w + w
      BY <1>5, <1>8
    <2> HIDE DEF x, y, z, u, v, w
    <2>3. x - u + u = x /\ y - 0 + v = y + v /\ z - w + w = z
      BY <2>1
    <2> QED  BY <2>2, <2>3 DEF x, y, z, v
  <1>10. \A j \in DOMAIN new : /\ new[j].claimed => new[j].confirmed
                               /\ new[j].confirmed => \A i \in 1 .. j : new[i].confirmed
    <2>1. new[k] = m /\ \A j \in DOMAIN ms \ {k} : new[j] = ms[j]
      BY <1>1, <1>6, <1>2 DEF ms
    <2>2. \A j \in DOMAIN ms : /\ ms[j].claimed => ms[j].confirmed
                               /\ ms[j].confirmed => \A i \in 1 .. j : ms[i].confirmed
      BY DEF GrantExact, ms
    <2>3. (\A j \in 1 .. k - 1 : ms[j].confirmed) /\ ~ms[k].confirmed /\ k \in 1 .. Len(ms)
      BY <1>2 DEF ms
    <2>4. ASSUME NEW j \in DOMAIN ms, new[j].confirmed, NEW i \in 1 .. j  PROVE new[i].confirmed
      <3>1. CASE j = k
        <4>1. i = k \/ i \in 1 .. k - 1
          BY <2>3, <3>1
        <4>2. i \in DOMAIN ms
          BY <1>2, <2>3, <4>1
        <4> QED  BY <1>4, <2>1, <2>3, <4>1, <4>2
      <3>2. CASE j # k
        <4>1. ms[j].confirmed
          BY <2>1, <2>4, <3>2
        <4>2. ms[i].confirmed /\ i \in DOMAIN ms
          BY <1>2, <2>2, <4>1
        <4> QED  BY <1>4, <2>1, <4>2
      <3> QED  BY <3>1, <3>2
    <2>5. ASSUME NEW j \in DOMAIN ms, new[j].claimed  PROVE new[j].confirmed
      BY <1>4, <2>1, <2>2, <2>5
    <2> QED  BY <1>8, <2>4, <2>5
  <1>11. AmountsIn(ms) = g.total_amount /\ g.claimable = UnclaimedIn(ms)
    BY DEF GrantExact, ms
  <1>12. h.claimable = g.claimable + ms[k].amount /\ h.milestones = new /\ g.milestones = ms
    BY DEF ms, new
  <1> QED  BY <1>9, <1>10, <1>11, <1>12 DEF GrantExact

\* A claim moves exactly what is claimable from the unclaimed to the paid out.
LEMMA ClaimedExact ==
  ASSUME NEW g \in Grant, GrantExact(g), NEW h \in Grant, h.claimable = 0,
         h.total_amount = g.total_amount, DOMAIN h.milestones = DOMAIN g.milestones,
         \A k \in DOMAIN g.milestones :
            /\ h.milestones[k].amount = g.milestones[k].amount
            /\ h.milestones[k].confirmed = g.milestones[k].confirmed
            /\ h.milestones[k].claimed = (g.milestones[k].claimed \/ g.milestones[k].confirmed)
  PROVE  /\ GrantExact(h)
         /\ PaidOutIn(h.milestones) = PaidOutIn(g.milestones) + g.claimable
  <1> DEFINE ms == g.milestones
             new == h.milestones
  <1>1. ms \in Seq(Milestone) /\ new \in Seq(Milestone) /\ DOMAIN new = DOMAIN ms
    BY DEF Grant
  <1>2. /\ IsFiniteSet(DOMAIN ms)
        /\ \A k \in DOMAIN ms : PaidOut(ms[k]) \in Nat /\ Unclaimed(ms[k]) \in Nat
    BY <1>1, MilestoneFacts
  <1>3. ASSUME NEW k \in DOMAIN ms
        PROVE  /\ new[k].amount = ms[k].amount
               /\ new[k].confirmed = ms[k].confirmed
               /\ new[k].claimed = ms[k].confirmed
               /\ ms[k].claimed => ms[k].confirmed
               /\ ms[k].confirmed \in BOOLEAN /\ ms[k].claimed \in BOOLEAN
    <2>1. ms[k] \in Milestone
      BY <1>1
    <2>2. ms[k].confirmed \in BOOLEAN /\ ms[k].claimed \in BOOLEAN
      BY <2>1 DEF Milestone
    <2>3. ms[k].claimed => ms[k].confirmed
      BY DEF GrantExact
    <2> QED  BY <2>2, <2>3
  <1>4. \A k \in DOMAIN ms : /\ AmountOf(new[k]) = AmountOf(ms[k])
                             /\ Unclaimed(new[k]) = 0
                             /\ PaidOut(new[k]) = PaidOut(ms[k]) + Unclaimed(ms[k])
    <2> SUFFICES ASSUME NEW k \in DOMAIN ms
                 PROVE  /\ AmountOf(new[k]) = AmountOf(ms[k])
                        /\ Unclaimed(new[k]) = 0
                        /\ PaidOut(new[k]) = PaidOut(ms[k]) + Unclaimed(ms[k])
      OBVIOUS
    <2>1. ms[k].amount \in Nat
      <3>1. ms[k] \in Milestone
        BY <1>1
      <3> QED  BY <3>1 DEF Milestone
    <2>2. CASE ms[k].confirmed
      BY <1>3, <2>1, <2>2 DEF AmountOf, Unclaimed, PaidOut
    <2>3. CASE ~ms[k].confirmed
      BY <1>3, <2>1, <2>3 DEF AmountOf, Unclaimed, PaidOut
    <2> QED  BY <2>2, <2>3
  <1>5. AmountsIn(new) = AmountsIn(ms)
    <2>1. [k \in DOMAIN new |-> AmountOf(new[k])] = [k \in DOMAIN ms |-> AmountOf(ms[k])]
      BY <1>1, <1>4
    <2> QED  BY <1>1, <2>1 DEF AmountsIn
  <1>6. UnclaimedIn(new) = 0
    <2> DEFINE u == [k \in DOMAIN new |-> Unclaimed(new[k])]
    <2>1. \A k \in DOMAIN ms : u[k] = 0
      BY <1>1, <1>4
    <2> HIDE DEF u
    <2>2. SumOver(u, DOMAIN ms) = 0
      BY <1>2, <2>1, SumZero
    <2> QED  BY <1>1, <2>2 DEF u, UnclaimedIn
  <1>7. PaidOutIn(new) = PaidOutIn(ms) + UnclaimedIn(ms)
    <2> DEFINE f == [k \in DOMAIN ms |-> PaidOut(ms[k])]
               u == [k \in DOMAIN ms |-> Unclaimed(ms[k])]
               q == [k \in DOMAIN new |-> PaidOut(new[k])]
    <2>1. \A k \in DOMAIN ms : f[k] \in Int /\ u[k] \in Int /\ q[k] = f[k] + u[k]
      BY <1>1, <1>2, <1>4
    <2> HIDE DEF f, u, q
    <2>2. SumOver(q, DOMAIN ms) = SumOver(f, DOMAIN ms) + SumOver(u, DOMAIN ms)
      BY <1>2, <2>1, SumPlus
    <2> QED  BY <1>1, <2>2 DEF f, u, q, PaidOutIn, UnclaimedIn
  <1>8. \A k \in DOMAIN new : /\ new[k].claimed => new[k].confirmed
                              /\ new[k].confirmed => \A j \in 1 .. k : new[j].confirmed
    <2> SUFFICES ASSUME NEW k \in DOMAIN ms
                 PROVE  /\ new[k].claimed => new[k].confirmed
                        /\ new[k].confirmed => \A j \in 1 .. k : new[j].confirmed
      BY <1>1
    <2>1. ms[k].confirmed => \A j \in 1 .. k : ms[j].confirmed
      BY DEF GrantExact
    <2>2. \A j \in 1 .. k : j \in DOMAIN ms
      BY <1>1
    <2> QED  BY <1>3, <2>1, <2>2
  <1> QED  BY <1>5, <1>6, <1>7, <1>8 DEF GrantExact

\* A grant that passes create_grant's checks starts with nothing claimable.
LEMMA CreatedExact ==
  ASSUME NEW total \in Int, NEW amounts \in Seq(Int), ValidGrant(total, amounts), NEW h \in Grant,
         h.total_amount = total, h.claimable = 0,
         h.milestones = [k \in DOMAIN amounts |->
                           [amount |-> amounts[k], confirmed |-> FALSE, claimed |-> FALSE]]
  PROVE  GrantExact(h) /\ PaidOutIn(h.milestones) = 0
  <1> DEFINE new == h.milestones
  <1>1. /\ DOMAIN new = DOMAIN amounts /\ DOMAIN amounts = 1 .. Len(amounts) /\ Len(amounts) \in Nat
        /\ \A k \in DOMAIN amounts : /\ new[k].amount = amounts[k]
                                     /\ ~new[k].confirmed /\ ~new[k].claimed
    OBVIOUS
  <1>2. IsFiniteSet(DOMAIN amounts)
    BY <1>1, FS_Interval
  <1> HIDE DEF new
  <1>3. AmountsIn(new) = total
    <2> DEFINE f == [k \in DOMAIN new |-> AmountOf(new[k])]
    <2>1. \A k \in DOMAIN amounts : f[k] = amounts[k]
      BY <1>1 DEF AmountOf
    <2> HIDE DEF f
    <2>2. SumOver(f, DOMAIN amounts) = SumOver(amounts, DOMAIN amounts)
      BY <1>2, <2>1, SumSame
    <2> QED  BY <1>1, <2>2 DEF f, AmountsIn, ValidGrant
  <1>4. UnclaimedIn(new) = 0
    <2> DEFINE f == [k \in DOMAIN new |-> Unclaimed(new[k])]
    <2>1. \A k \in DOMAIN amounts : f[k] = 0
      BY <1>1 DEF Unclaimed
    <2> HIDE DEF f
    <2>2. SumOver(f, DOMAIN amounts) = 0
      BY <1>2, <2>1, SumZero
    <2> QED  BY <1>1, <2>2 DEF f, UnclaimedIn
  <1>5. PaidOutIn(new) = 0
    <2> DEFINE f == [k \in DOMAIN new |-> PaidOut(new[k])]
    <2>1. \A k \in DOMAIN amounts : f[k] = 0
      BY <1>1 DEF PaidOut
    <2> HIDE DEF f
    <2>2. SumOver(f, DOMAIN amounts) = 0
      BY <1>2, <2>1, SumZero
    <2> QED  BY <1>1, <2>2 DEF f, PaidOutIn
  <1> QED  BY <1>1, <1>3, <1>4, <1>5 DEF GrantExact, new

BookKept(b) == b \in Seq(Grant) /\ BookExact(b)

\* A book has finitely many grants, and what was paid out of it is a number.
LEMMA BookFacts ==
  ASSUME NEW b \in Seq(Grant)
  PROVE  /\ DOMAIN b = 1 .. Len(b) /\ Len(b) \in Nat /\ IsFiniteSet(DOMAIN b)
         /\ \A id \in DOMAIN b : b[id] \in Grant /\ PaidOutIn(b[id].milestones) \in Nat
         /\ PaidOutOf(b) \in Nat
  <1>1. DOMAIN b = 1 .. Len(b) /\ Len(b) \in Nat /\ \A id \in DOMAIN b : b[id] \in Grant
    OBVIOUS
  <1>2. \A id \in DOMAIN b : b[id].milestones \in Seq(Milestone)
    BY <1>1 DEF Grant
  <1>3. IsFiniteSet(DOMAIN b)
    BY <1>1, FS_Interval
  <1>4. \A id \in DOMAIN b : PaidOutIn(b[id].milestones) \in Nat
    BY <1>2, MilestoneFacts
  <1> DEFINE f == [id \in DOMAIN b |-> PaidOutIn(b[id].milestones)]
  <1>5. \A id \in DOMAIN b : f[id] \in Nat
    BY <1>4
  <1> HIDE DEF f
  <1>6. SumOver(f, DOMAIN b) \in Nat
    BY <1>3, <1>5, SumNat
  <1> QED  BY <1>1, <1>3, <1>4, <1>6 DEF f, PaidOutOf

\* A book that differs in one grant.
LEMMA BookChange ==
  ASSUME NEW b, BookKept(b), NEW id \in DOMAIN b, NEW h \in Grant, GrantExact(h),
         NEW new, new = [b EXCEPT ![id] = h]
  PROVE  /\ BookKept(new)
         /\ PaidOutOf(new) =
              PaidOutOf(b) - PaidOutIn(b[id].milestones) + PaidOutIn(h.milestones)
  <1>1. b \in Seq(Grant) /\ \A i \in DOMAIN b : GrantExact(b[i])
    BY DEF BookKept, BookExact
  <1>2. /\ new \in Seq(Grant) /\ DOMAIN new = DOMAIN b
        /\ new[id] = h /\ \A i \in DOMAIN b \ {id} : new[i] = b[i]
    BY <1>1
  <1>3. BookKept(new)
    BY <1>1, <1>2 DEF BookKept, BookExact
  <1> DEFINE f == [i \in DOMAIN b |-> PaidOutIn(b[i].milestones)]
             g == [i \in DOMAIN new |-> PaidOutIn(new[i].milestones)]
  <1>4. /\ IsFiniteSet(DOMAIN b) /\ \A i \in DOMAIN b : f[i] \in Int
    BY <1>1, BookFacts
  <1>5. PaidOutIn(h.milestones) \in Int
    BY MilestoneFacts DEF Grant
  <1>6. /\ g[id] \in Int /\ g[id] = PaidOutIn(h.milestones) /\ f[id] = PaidOutIn(b[id].milestones)
        /\ \A i \in DOMAIN b \ {id} : g[i] = f[i]
    BY <1>2, <1>5
  <1> HIDE DEF f, g
  <1>7. SumOver(g, DOMAIN b) = SumOver(f, DOMAIN b) - f[id] + g[id]
    BY <1>4, <1>6, SumChange
  <1> QED  BY <1>2, <1>3, <1>6, <1>7 DEF f, g, PaidOutOf

\* create_grant adds a grant of which nothing is paid out.
LEMMA CreatedBook ==
  ASSUME NEW b, BookKept(b), NEW r \in Grantees, NEW total \in Int, NEW amounts \in Seq(Int),
         ValidGrant(total, amounts)
  PROVE  /\ BookKept(Created(b, r, total, amounts))
         /\ PaidOutOf(Created(b, r, total, amounts)) = PaidOutOf(b)
  <1> DEFINE ms == [k \in DOMAIN amounts |->
                      [amount |-> amounts[k], confirmed |-> FALSE, claimed |-> FALSE]]
             h == [recipient |-> r, total_amount |-> total, claimable |-> 0, milestones |-> ms]
             new == Append(b, h)
  <1>1. Created(b, r, total, amounts) = new
    BY DEF Created
  <1>2. DOMAIN amounts = 1 .. Len(amounts) /\ Len(amounts) \in Nat
        /\ \A k \in DOMAIN amounts : amounts[k] \in Nat
    BY DEF ValidGrant
  <1>3. ms \in Seq(Milestone)
    <2>1. \A k \in DOMAIN amounts :
             [amount |-> amounts[k], confirmed |-> FALSE, claimed |-> FALSE] \in Milestone
      BY <1>2 DEF Milestone
    <2>2. ms \in [1 .. Len(amounts) -> Milestone]
      BY <1>2, <2>1
    <2> QED  BY <1>2, <2>2, SeqDef
  <1>4. h.milestones = ms /\ h.total_amount = total /\ h.claimable = 0
    OBVIOUS
  <1>5. h \in Grant
    <2> HIDE DEF ms
    <2> QED  BY <1>3 DEF Grant
  <1> HIDE DEF h
  <1>6. GrantExact(h) /\ PaidOutIn(h.milestones) = 0
    BY <1>4, <1>5, CreatedExact
  <1>7. b \in Seq(Grant) /\ \A i \in DOMAIN b : GrantExact(b[i])
    BY DEF BookKept, BookExact
  <1>8. /\ new \in Seq(Grant) /\ DOMAIN new = 1 .. Len(b) + 1 /\ DOMAIN b = 1 .. Len(b)
        /\ Len(b) \in Nat /\ new[Len(b) + 1] = h /\ \A i \in 1 .. Len(b) : new[i] = b[i]
    BY <1>5, <1>7
  <1> HIDE DEF new
  <1>9. BookKept(new)
    <2> SUFFICES ASSUME NEW i \in DOMAIN new  PROVE GrantExact(new[i])
      BY <1>8 DEF BookKept, BookExact
    <2>1. i \in 1 .. Len(b) \/ i = Len(b) + 1
      BY <1>8
    <2> QED  BY <1>6, <1>7, <1>8, <2>1
  <1>10. PaidOutOf(new) = PaidOutOf(b)
    <2> DEFINE f == [i \in DOMAIN b |-> PaidOutIn(b[i].milestones)]
               g == [i \in DOMAIN new |-> PaidOutIn(new[i].milestones)]
    <2>1. \A i \in 1 .. Len(b) + 1 : g[i] \in Int
      BY <1>8, BookFacts
    <2>2. g[Len(b) + 1] = 0 /\ \A i \in 1 .. Len(b) : g[i] = f[i]
      BY <1>6, <1>8
    <2> HIDE DEF f, g
    <2>3. SumOver(g, 1 .. Len(b) + 1) = SumOver(f, 1 .. Len(b)) + g[Len(b) + 1]
      BY <1>8, <2>1, <2>2, SumNext
    <2>4. SumOver(f, 1 .. Len(b)) = PaidOutOf(b) /\ SumOver(g, 1 .. Len(b) + 1) = PaidOutOf(new)
      BY <1>8 DEF f, g, PaidOutOf
    <2>5. PaidOutOf(b) \in Int
      BY <1>7, BookFacts
    <2> QED  BY <2>2, <2>3, <2>4, <2>5
  <1> QED  BY <1>1, <1>9, <1>10

\* confirm_milestone pays nothing out.
LEMMA ConfirmedBook ==
  ASSUME NEW b, BookKept(b), NEW id, NEW k, CanConfirm(b, id, k)
  PROVE  BookKept(Confirmed(b, id, k)) /\ PaidOutOf(Confirmed(b, id, k)) = PaidOutOf(b)
  <1> DEFINE g == b[id]
             m == [g.milestones[k] EXCEPT !.confirmed = TRUE]
             ms == [g.milestones EXCEPT ![k] = m]
             h == [g EXCEPT !.milestones = ms, !.claimable = g.claimable + g.milestones[k].amount]
             new == [b EXCEPT ![id] = h]
  <1>1. /\ b \in Seq(Grant) /\ id \in DOMAIN b /\ k \in DOMAIN g.milestones
        /\ \A j \in 1 .. k - 1 : g.milestones[j].confirmed
        /\ ~g.milestones[k].confirmed
    BY DEF BookKept, CanConfirm
  <1>2. g \in Grant /\ GrantExact(g)
    BY <1>1 DEF BookKept, BookExact
  <1>3. g.milestones \in Seq(Milestone) /\ g.claimable \in Int
    BY <1>2 DEF Grant
  <1>4. g.milestones[k] \in Milestone
    BY <1>1, <1>3
  <1>5. m \in Milestone /\ g.milestones[k].amount \in Nat
    BY <1>4 DEF Milestone
  <1>6. ms \in Seq(Milestone) /\ g.claimable + g.milestones[k].amount \in Int
    <2> HIDE DEF m
    <2> QED  BY <1>1, <1>3, <1>5
  <1>7. Confirmed(b, id, k) = new
    BY <1>1, <1>2, <1>3, <1>4 DEF Confirmed, Grant
  <1>8. /\ h \in Grant /\ h.milestones = ms /\ h.total_amount = g.total_amount
        /\ h.claimable = g.claimable + g.milestones[k].amount
    <2> HIDE DEF ms
    <2> QED  BY <1>2, <1>6 DEF Grant
  <1> HIDE DEF h
  <1>9. GrantExact(h) /\ PaidOutIn(h.milestones) = PaidOutIn(g.milestones)
    BY <1>1, <1>2, <1>8, ConfirmedExact
  <1>10. /\ BookKept(new)
         /\ PaidOutOf(new) = PaidOutOf(b) - PaidOutIn(g.milestones) + PaidOutIn(h.milestones)
    BY <1>1, <1>8, <1>9, BookChange
  <1>11. PaidOutOf(b) \in Int /\ PaidOutIn(g.milestones) \in Int
    BY <1>1, BookFacts
  <1> QED  BY <1>7, <1>9, <1>10, <1>11

\* A claim pays out exactly what was claimable.
LEMMA ClaimedBook ==
  ASSUME NEW b, BookKept(b), NEW id \in DOMAIN b
  PROVE  /\ BookKept(Claimed(b, id))
         /\ PaidOutOf(Claimed(b, id)) = PaidOutOf(b) + b[id].claimable
  <1> DEFINE g == b[id]
             mark(k) == [g.milestones[k] EXCEPT
                           !.claimed = g.milestones[k].claimed \/ g.milestones[k].confirmed]
             ms == [k \in DOMAIN g.milestones |-> mark(k)]
             h == [g EXCEPT !.claimable = 0, !.milestones = ms]
             new == [b EXCEPT ![id] = h]
  <1>1. b \in Seq(Grant) /\ g \in Grant /\ GrantExact(g)
    BY DEF BookKept, BookExact
  <1>2. g.milestones \in Seq(Milestone) /\ g.claimable \in Int
    BY <1>1 DEF Grant
  <1>3. DOMAIN g.milestones = 1 .. Len(g.milestones) /\ Len(g.milestones) \in Nat
        /\ \A k \in DOMAIN g.milestones : g.milestones[k] \in Milestone
    BY <1>2
  <1>4. Claimed(b, id) = new
    BY DEF Claimed, Paid
  <1>5. \A k \in DOMAIN g.milestones :
           /\ mark(k) \in Milestone
           /\ mark(k).amount = g.milestones[k].amount
           /\ mark(k).confirmed = g.milestones[k].confirmed
           /\ mark(k).claimed = (g.milestones[k].claimed \/ g.milestones[k].confirmed)
    BY <1>3 DEF Milestone
  <1> HIDE DEF mark
  <1>6. /\ ms \in Seq(Milestone) /\ DOMAIN ms = DOMAIN g.milestones
        /\ \A k \in DOMAIN g.milestones : ms[k] = mark(k)
    <2>1. ms \in [1 .. Len(g.milestones) -> Milestone]
      BY <1>3, <1>5
    <2> QED  BY <1>3, <2>1, SeqDef
  <1> HIDE DEF ms
  <1>7. h \in Grant /\ h.milestones = ms /\ h.total_amount = g.total_amount /\ h.claimable = 0
    <2>1. h.milestones = ms /\ h.total_amount = g.total_amount /\ h.claimable = 0
      BY <1>1 DEF Grant
    <2>2. h \in Grant
      <3>1. \A c \in Int : [g EXCEPT !.claimable = c, !.milestones = ms] \in Grant
        BY <1>1, <1>6 DEF Grant
      <3>2. 0 \in Int
        OBVIOUS
      <3> QED  BY <3>1, <3>2
    <2> QED  BY <2>1, <2>2
  <1> HIDE DEF h
  <1>8. GrantExact(h) /\ PaidOutIn(h.milestones) = PaidOutIn(g.milestones) + g.claimable
    BY <1>1, <1>5, <1>6, <1>7, ClaimedExact
  <1>9. /\ BookKept(new)
        /\ PaidOutOf(new) = PaidOutOf(b) - PaidOutIn(g.milestones) + PaidOutIn(h.milestones)
    BY <1>7, <1>8, BookChange
  <1>10. PaidOutOf(b) \in Int /\ PaidOutIn(g.milestones) \in Int
    BY <1>1, BookFacts
  <1> QED  BY <1>2, <1>4, <1>8, <1>9, <1>10

\* Each operation of a batch works on a kept book, or the batch has failed.
LEMMA StagedKept ==
  ASSUME NEW b, b = None \/ BookKept(b), NEW op \in GrantsOps
  PROVE  Staged(b, op) = None \/ BookKept(Staged(b, op))
  <1>1. CASE b = None
    BY <1>1 DEF Staged
  <1>2. CASE b # None /\ op.kind = "Create"
    <2>1. op.recipient \in Grantees /\ op.total \in AwardTotals /\ op.amounts \in Schedules
      BY <1>2 DEF GrantsOps
    <2>2. op.total \in Int /\ op.amounts \in Seq(Int)
      BY <2>1, GrantsConstants
    <2>3. CASE ValidGrant(op.total, op.amounts)
      <3>1. Staged(b, op) = Created(b, op.recipient, op.total, op.amounts)
        BY <1>2, <2>3 DEF Staged
      <3> QED  BY <1>2, <2>1, <2>2, <2>3, <3>1, CreatedBook
    <2>4. CASE ~ValidGrant(op.total, op.amounts)
      BY <1>2, <2>4 DEF Staged
    <2> QED  BY <2>3, <2>4
  <1>3. CASE b # None /\ op.kind # "Create"
    <2>1. op.kind = "Confirm"
      BY <1>3 DEF GrantsOps
    <2>2. CASE CanConfirm(b, op.id, op.index)
      <3>1. Staged(b, op) = Confirmed(b, op.id, op.index)
        BY <1>3, <2>1, <2>2 DEF Staged
      <3> QED  BY <1>3, <2>2, <3>1, ConfirmedBook
    <2>3. CASE ~CanConfirm(b, op.id, op.index)
      BY <1>3, <2>1, <2>3 DEF Staged
    <2> QED  BY <2>2, <2>3
  <1> QED  BY <1>1, <1>2, <1>3

\* The staged book after one and after two operations is what it should be.
LEMMA BatchStaged ==
  ASSUME NEW ops, NEW n \in {1, 2}, Len(ops) = n, batch(ops)
  PROVE  /\ modelBook' # None
         /\ n = 1 => modelBook' = Staged(modelBook, ops[1])
         /\ n = 2 => modelBook' = Staged(Staged(modelBook, ops[1]), ops[2])
  <1> DEFINE one == Staged(modelBook, ops[1])
             two == Staged(one, ops[2])
             w == [k \in 0 .. n |-> IF k = 0 THEN modelBook ELSE IF k = 1 THEN one ELSE two]
             Stages(f) == f = [k \in 0 .. n |-> IF k = 0 THEN modelBook ELSE Staged(f[k - 1], ops[k])]
             f == CHOOSE g : Stages(g)
  <1>1. \A k \in 0 .. n : w[k] = IF k = 0 THEN modelBook ELSE Staged(w[k - 1], ops[k])
    <2>1. w[0] = modelBook /\ w[1] = one /\ (n = 2 => w[2] = two)
      <3> HIDE DEF one, two
      <3>1. 0 \in 0 .. n /\ 1 \in 0 .. n /\ (n = 2 => 2 \in 0 .. n)
        OBVIOUS
      <3> QED  BY <3>1
    <2>2. \A k \in 0 .. n : k = 0 \/ k = 1 \/ (n = 2 /\ k = 2)
      OBVIOUS
    <2> HIDE DEF w
    <2> QED  BY <2>1, <2>2
  <1>2. Stages(w)
    BY <1>1
  <1>3. Stages(f)
    <2> HIDE DEF Stages
    <2> QED  BY <1>2
  <1> HIDE DEF f
  <1>4. f[0] = modelBook /\ f[1] = one /\ (n = 2 => f[2] = two)
    <2>1. f[0] = modelBook
      BY <1>3
    <2>2. f[1] = Staged(f[0], ops[1])
      BY <1>3
    <2>3. n = 2 => f[2] = Staged(f[1], ops[2])
      BY <1>3
    <2> QED  BY <2>1, <2>2, <2>3
  <1>5. modelBook' = f[n] /\ f[n] # None
    BY DEF batch, f
  <1> QED  BY <1>4, <1>5

\* Every step of the grants model keeps what was claimed equal to what the
\* milestones say.
LEMMA ModelStep ==
  ASSUME BookKept(modelBook), GrantsModelNext
  PROVE  BookKept(modelBook')
  <1>1. ASSUME NEW id \in DOMAIN modelBook, NEW r \in Grantees, model_claim(r, id)
        PROVE  BookKept(modelBook')
    BY <1>1, ClaimedBook DEF model_claim
  <1>2. ASSUME NEW op \in GrantsOps, batch(<<op>>)  PROVE BookKept(modelBook')
    <2>1. Len(<<op>>) = 1 /\ <<op>>[1] = op
      OBVIOUS
    <2>2. modelBook' # None /\ modelBook' = Staged(modelBook, op)
      BY <1>2, <2>1, BatchStaged
    <2> QED  BY <2>2, StagedKept
  <1>3. ASSUME NEW op \in GrantsOps, NEW op2 \in GrantsOps, batch(<<op, op2>>)
        PROVE  BookKept(modelBook')
    <2>1. Len(<<op, op2>>) = 2 /\ <<op, op2>>[1] = op /\ <<op, op2>>[2] = op2
      OBVIOUS
    <2>2. modelBook' # None /\ modelBook' = Staged(Staged(modelBook, op), op2)
      BY <1>3, <2>1, BatchStaged
    <2> QED  BY <2>2, StagedKept
  <1> QED  BY <1>1, <1>2, <1>3 DEF GrantsModelNext

-----------------------------------------------------------------------------
\* The money: what left the contract is what the book says was paid out.
GrantsInv ==
  /\ BookKept(modelBook) /\ BookKept(grantBook)
  /\ feeRate \in Nat
  /\ grantsPaid \in Int /\ accruedFees \in Int /\ feesSwept \in Int
  /\ grantTokens \in Nat /\ grantsFunded \in Int
  /\ grantsPaid + accruedFees + feesSwept = PaidOutOf(grantBook)
  /\ grantTokens = grantsFunded - grantsPaid - feesSwept

\* Nothing is funded, claimed or owed in the initial state.
LEMMA GrantsInvInit == GrantsInit /\ GrantsModelInit => GrantsInv
  <1> SUFFICES ASSUME GrantsInit, GrantsModelInit  PROVE GrantsInv
    OBVIOUS
  <1>1. BookKept(<<>>)
    BY DEF BookKept, BookExact
  <1>2. PaidOutOf(<<>>) = 0
    <2> DEFINE f == [id \in DOMAIN <<>> |-> PaidOutIn(<<>>[id].milestones)]
    <2>1. DOMAIN <<>> = {}
      OBVIOUS
    <2> HIDE DEF f
    <2>2. SumOver(f, {}) = 0
      BY SumEmpty
    <2> QED  BY <2>1, <2>2 DEF f, PaidOutOf
  <1> QED  BY <1>1, <1>2 DEF GrantsInit, GrantsModelInit, GrantsInv

\* Whatever the rate, the fee is a whole number of tokens.
LEMMA FeeType ==
  ASSUME NEW gross \in Int, gross > 0, NEW rate \in Nat
  PROVE  assess_fee(gross, rate) \in Int
  <1>1. gross \div FeeDenom \in Int /\ gross % FeeDenom \in Int
    BY GrantsFeeConstants
  <1> DEFINE x == gross \div FeeDenom
             y == gross % FeeDenom
  <1> HIDE DEF x, y
  <1>2. x * rate \in Int /\ y * rate \in Int
    BY <1>1 DEF x, y
  <1> DEFINE z == y * rate
  <1> HIDE DEF z
  <1>3. z \div FeeDenom \in Int
    BY <1>2, GrantsFeeConstants DEF z
  <1>4. x * rate + z \div FeeDenom \in Int
    BY <1>2, <1>3
  <1> QED  BY <1>4 DEF assess_fee, x, y, z

\* Every entrypoint of the contract pays out what the model below it records,
\* split into net and fee.
LEMMA ContractStep ==
  ASSUME GrantsInv, GrantsNext, UNCHANGED modelBook
  PROVE  GrantsInv'
  <1> USE DEF grantMoney, grantSettings
  <1>0. BookKept(grantBook) /\ PaidOutOf(grantBook) \in Int
    BY BookFacts DEF GrantsInv, BookKept
  <1>1. CASE set_fee_config
    BY <1>1 DEF GrantsInv, set_fee_config
  <1>2. CASE sweep_fees
    BY <1>2 DEF GrantsInv, sweep_fees
  <1>3. ASSUME NEW rate \in FeeRates, SetFeeRate(rate)  PROVE GrantsInv'
    BY <1>3, GrantsFeeConstants DEF GrantsInv, SetFeeRate
  <1>4. ASSUME NEW amount \in Gifts, Fund(amount)  PROVE GrantsInv'
    BY <1>4, GrantsFeeConstants DEF GrantsInv, Fund
  <1>5. ASSUME NEW r \in Grantees, NEW total \in AwardTotals, NEW s \in Schedules,
               create_grant(r, total, s)
        PROVE  GrantsInv'
    <2>1. total \in Int /\ s \in Seq(Int)
      BY GrantsConstants
    <2>2. grantBook' = Created(grantBook, r, total, s) /\ ValidGrant(total, s)
          /\ UNCHANGED <<grantMoney, feeRate>>
      BY <1>5 DEF create_grant
    <2>3. BookKept(grantBook') /\ PaidOutOf(grantBook') = PaidOutOf(grantBook)
      BY <1>0, <2>1, <2>2, CreatedBook
    <2> QED  BY <2>2, <2>3 DEF GrantsInv
  <1>6. ASSUME NEW id, NEW k, confirm_milestone(id, k)  PROVE GrantsInv'
    <2>1. grantBook' = Confirmed(grantBook, id, k) /\ CanConfirm(grantBook, id, k)
          /\ UNCHANGED <<grantMoney, feeRate>>
      BY <1>6 DEF confirm_milestone
    <2>2. BookKept(grantBook') /\ PaidOutOf(grantBook') = PaidOutOf(grantBook)
      BY <1>0, <2>1, ConfirmedBook
    <2> QED  BY <2>1, <2>2 DEF GrantsInv
  <1>7. ASSUME NEW id \in DOMAIN grantBook, claim(id)  PROVE GrantsInv'
    <2> DEFINE gross == grantBook[id].claimable
               fee == assess_fee(gross, fee_bps)
    <2>1. /\ gross > 0 /\ gross - fee <= grantTokens
          /\ grantBook' = Claimed(grantBook, id)
          /\ accruedFees' = accruedFees + fee
          /\ grantTokens' = grantTokens - (gross - fee)
          /\ grantsPaid' = grantsPaid + (gross - fee)
          /\ UNCHANGED <<grantsFunded, feesSwept, feeRate>>
      BY <1>7 DEF claim
    <2>2. BookKept(grantBook') /\ PaidOutOf(grantBook') = PaidOutOf(grantBook) + gross
      BY <1>0, <2>1, ClaimedBook
    <2>3. gross \in Int
      <3>1. grantBook[id] \in Grant
        BY <1>0 DEF BookKept
      <3> QED  BY <3>1 DEF Grant
    <2>4. fee_bps \in Nat
      BY DEF fee_bps, GrantsInv
    <2>5. fee \in Int
      BY <2>1, <2>3, <2>4, FeeType
    <2> HIDE DEF gross, fee
    <2> QED  BY <1>0, <2>1, <2>2, <2>3, <2>5 DEF GrantsInv
  <1>8. ASSUME NEW r \in Grantees, NEW status \in {"Allowed", "Blocked", None}, screen_grantee(r, status)
        PROVE  GrantsInv'
    BY <1>8 DEF GrantsInv, screen_grantee
  <1> QED  BY <1>1, <1>2, <1>3, <1>4, <1>5, <1>6, <1>7, <1>8 DEF GrantsNext

(* INV-GRAN-02 to 07 with fees, for every schedule, every number of grants *)
(* and every sequence of rates: both books stay exact, and what left the   *)
(* contract or is set aside as fees is exactly what the claimed milestones *)
(* add up to.                                                              *)
THEOREM ClaimsAlwaysPaidExactly == GrantsSpec => []ClaimsPaidExactly
  <1> DEFINE Step == \/ GrantsNext /\ UNCHANGED modelBook
                     \/ GrantsModelNext /\ UNCHANGED grantsVars
  <1>1. GrantsInv /\ [Step]_<<grantsVars, modelBook>> => GrantsInv'
    <2> SUFFICES ASSUME GrantsInv, [Step]_<<grantsVars, modelBook>>  PROVE GrantsInv'
      OBVIOUS
    <2>1. CASE GrantsNext /\ UNCHANGED modelBook
      BY <2>1, ContractStep
    <2>2. CASE GrantsModelNext /\ UNCHANGED grantsVars
      <3>1. BookKept(modelBook')
        BY <2>2, ModelStep DEF GrantsInv
      <3> QED  BY <2>2, <3>1 DEF GrantsInv, grantsVars, grantMoney, grantSettings
    <2>3. CASE UNCHANGED <<grantsVars, modelBook>>
      BY <2>3 DEF GrantsInv, grantsVars, grantMoney, grantSettings
    <2> QED  BY <2>1, <2>2, <2>3
  <1>2. GrantsInv => ClaimsPaidExactly
    BY DEF GrantsInv, ClaimsPaidExactly, BookKept, GrantBookExact
  <1> QED  BY <1>1, <1>2, GrantsInvInit, PTL DEF GrantsSpec

-----------------------------------------------------------------------------
(* Changes to a funded grant (GrantLifecycle). *)

ScheduledMilestone == [amount : Nat, due : Nat, confirmed : BOOLEAN, claimed : BOOLEAN]

OpenStatuses ==
  {"Funded", "Amended", "Extended", "AmendmentRequested", "ExtensionRequested", "TerminationRequested"}

GrantStatuses == OpenStatuses \cup {"Terminated", "Closed"}

GrantState ==
  [milestones : Seq(ScheduledMilestone), claimable : Int, pending_refund : Int, refunded : Int,
   amendments : Nat, status : GrantStatuses]

\* The first c milestones of ms are the confirmed ones, and only those may be claimed.
Prefix(ms, c) ==
  /\ c \in 0 .. Len(ms)
  /\ \A k \in 1 .. Len(ms) : /\ ms[k].confirmed <=> k <= c
                             /\ ms[k].claimed => ms[k].confirmed

\* The amounts of two schedules put one after the other add up.
LEMMA TermSumConcat ==
  ASSUME NEW S, \A x \in S : x.amount \in Int, NEW a \in Seq(S), NEW b \in Seq(S)
  PROVE  /\ TermSum(a) \in Int /\ TermSum(b) \in Int
         /\ TermSum(a \o b) = TermSum(a) + TermSum(b)
  <1> DEFINE n == Len(a)
             m == Len(b)
             F == Amounts(a \o b)
             A == Amounts(a)
             B == Amounts(b)
             h == [k \in 1 .. m |-> n + k]
             tail == (1 .. n + m) \ (1 .. n)
  <1>1. /\ n \in Nat /\ m \in Nat /\ DOMAIN a = 1 .. n /\ DOMAIN b = 1 .. m
        /\ DOMAIN (a \o b) = 1 .. n + m
        /\ \A k \in 1 .. n : (a \o b)[k] = a[k] /\ a[k] \in S
        /\ \A k \in 1 .. m : (a \o b)[n + k] = b[k] /\ b[k] \in S
        /\ a \o b \in Seq(S)
    OBVIOUS
  <1>2. \A k \in 1 .. n + m : (a \o b)[k] \in S
    BY <1>1
  <1>3. /\ \A k \in 1 .. n + m : F[k] \in Int
        /\ \A k \in 1 .. n : F[k] = A[k] /\ A[k] \in Int
        /\ \A k \in 1 .. m : B[k] \in Int /\ h[k] = n + k /\ B[k] = F[n + k]
    BY <1>1, <1>2 DEF Amounts
  <1>4. /\ IsFiniteSet(1 .. n + m) /\ IsFiniteSet(1 .. n) /\ IsFiniteSet(1 .. m)
    BY <1>1, FS_Interval
  <1>5. {h[k] : k \in 1 .. m} = tail
    <2>1. ASSUME NEW x \in tail  PROVE x \in {h[k] : k \in 1 .. m}
      <3>1. x - n \in 1 .. m /\ h[x - n] = x
        BY <1>1
      <3> QED  BY <3>1
    <2>2. \A k \in 1 .. m : h[k] \in tail
      BY <1>1
    <2> HIDE DEF tail
    <2> QED  BY <2>1, <2>2
  <1>6. \A x, y \in 1 .. m : h[x] = h[y] => x = y
    BY <1>1
  <1>7. \A k \in 1 .. m : B[k] \in Int /\ B[k] = F[h[k]]
    BY <1>3
  <1>8. 1 .. n \in SUBSET (1 .. n + m)
    BY <1>1
  <1>9. SumOver(F, DOMAIN (a \o b)) = TermSum(a \o b) /\ SumOver(A, 1 .. n) = TermSum(a) /\ SumOver(B, 1 .. m) = TermSum(b)
    BY <1>1 DEF TermSum
  <1> HIDE DEF F, A, B, h
  <1>10. SumOver(F, 1 .. n + m) = SumOver(F, 1 .. n) + SumOver(F, tail)
    BY <1>3, <1>4, <1>8, SumSplit
  <1>11. SumOver(F, 1 .. n) = SumOver(A, 1 .. n)
    BY <1>3, <1>4, SumSame
  <1>12. SumOver(B, 1 .. m) = SumOver(F, {h[k] : k \in 1 .. m})
    <2> DEFINE T == 1 .. m
    <2>1. /\ IsFiniteSet(T) /\ \A k \in T : B[k] \in Int /\ B[k] = F[h[k]]
          /\ \A x, y \in T : h[x] = h[y] => x = y
      BY <1>4, <1>6, <1>7
    <2> HIDE DEF T
    <2>2. SumOver(B, T) = SumOver(F, {h[k] : k \in T})
      BY <2>1, SumReindex
    <2> QED  BY <2>2 DEF T
  <1>13. SumOver(A, 1 .. n) \in Int /\ SumOver(B, 1 .. m) \in Int
    BY <1>3, <1>4, SumInt
  <1> QED  BY <1>1, <1>5, <1>9, <1>10, <1>11, <1>12, <1>13

\* Two schedules of equal amounts add up to the same.
LEMMA TermSumSame ==
  ASSUME NEW a, NEW b, NEW n \in Nat, DOMAIN a = 1 .. n, DOMAIN b = 1 .. n,
         \A k \in 1 .. n : a[k].amount = b[k].amount
  PROVE  TermSum(a) = TermSum(b)
  <1> DEFINE A == Amounts(a)
             B == Amounts(b)
  <1>1. \A k \in 1 .. n : A[k] = B[k]
    BY DEF Amounts
  <1>2. IsFiniteSet(1 .. n)
    BY FS_Interval
  <1>3. TermSum(a) = SumOver(A, 1 .. n) /\ TermSum(b) = SumOver(B, 1 .. n)
    BY DEF TermSum
  <1> HIDE DEF A, B
  <1> QED  BY <1>1, <1>2, <1>3, SumSame

\* A schedule cut after c entries, and its two parts.
LEMMA CutAt ==
  ASSUME NEW S, NEW ms \in Seq(S), NEW c \in 0 .. Len(ms)
  PROVE  LET kept == SubSeq(ms, 1, c)
             rest == SubSeq(ms, c + 1, Len(ms))
         IN /\ kept \in Seq(S) /\ Len(kept) = c /\ \A k \in 1 .. c : kept[k] = ms[k]
            /\ rest \in Seq(S) /\ Len(rest) = Len(ms) - c
            /\ \A k \in 1 .. Len(ms) - c : rest[k] = ms[c + k]
            /\ kept \o rest = ms
  <1> DEFINE kept == SubSeq(ms, 1, c)
             rest == SubSeq(ms, c + 1, Len(ms))
  <1>1. kept \in Seq(S) /\ Len(kept) = c /\ \A k \in 1 .. c : kept[k] = ms[k]
    OBVIOUS
  <1>2. rest \in Seq(S) /\ Len(rest) = Len(ms) - c /\ \A k \in 1 .. Len(ms) - c : rest[k] = ms[c + k]
    OBVIOUS
  <1> HIDE DEF kept, rest
  <1>3. kept \o rest = ms
    <2>1. kept \o rest \in Seq(S) /\ Len(kept \o rest) = Len(ms)
      BY <1>1, <1>2
    <2>2. ASSUME NEW k \in 1 .. Len(ms)  PROVE (kept \o rest)[k] = ms[k]
      <3>1. CASE k <= c
        BY <1>1, <1>2, <3>1
      <3>2. CASE k > c
        <4>1. k - c \in 1 .. Len(ms) - c /\ c + (k - c) = k
          BY <3>2
        <4>2. rest[k - c] = ms[k]
          BY <1>2, <4>1
        <4>3. (kept \o rest)[k] = rest[k - c]
          BY <1>1, <1>2, <3>2, <4>1
        <4> QED  BY <4>2, <4>3
      <3>3. k \in Int /\ c \in Int
        OBVIOUS
      <3>4. k <= c \/ k > c
        BY <3>3
      <3> QED  BY <3>1, <3>2, <3>4
    <2> QED  BY <2>1, <2>2, SeqEqual
  <1> QED  BY <1>1, <1>2, <1>3 DEF kept, rest

\* Of a schedule confirmed up to c, confirmed_count is c and the pending milestones
\* are those after it.
LEMMA PrefixCounted ==
  ASSUME NEW g, g.milestones \in Seq(ScheduledMilestone), NEW c, Prefix(g.milestones, c)
  PROVE  /\ confirmed_count(g) = c
         /\ Pending(g) = SubSeq(g.milestones, c + 1, Len(g.milestones))
  <1> DEFINE ms == g.milestones
             n == Len(ms)
             P == c + 1 .. n
  <1>1. n \in Nat /\ c \in 0 .. n /\ DOMAIN ms = 1 .. n
        /\ \A k \in 1 .. n : ms[k].confirmed <=> k <= c
        /\ c + 1 \in Int /\ n \in Int /\ c \in Int
    BY DEF Prefix
  <1>2. confirmed_count(g) = c
    <2> DEFINE K == {k \in 0 .. n : \A j \in 1 .. k : ms[j].confirmed}
    <2>1. K = 0 .. c
      <3>1. ASSUME NEW k \in K  PROVE k <= c
        <4>1. CASE k = 0  BY <1>1, <4>1
        <4>2. CASE k # 0
          <5>1. ms[k].confirmed
            BY <4>2
          <5> QED  BY <1>1, <5>1
        <4> QED  BY <4>1, <4>2
      <3>2. \A k \in 0 .. c : k \in K
        BY <1>1
      <3>3. K \subseteq Int
        OBVIOUS
      <3>4. \A k \in K : k >= 0
        OBVIOUS
      <3> HIDE DEF K, n
      <3>5. \A k \in K : k \in 0 .. c
        BY <1>1, <3>1, <3>3, <3>4
      <3> QED  BY <3>2, <3>5
    <2>2. confirmed_count(g) = Max(K)
      BY DEF confirmed_count
    <2> HIDE DEF K
    <2>3. Max(0 .. c) = c
      BY <1>1 DEF Max
    <2> QED  BY <2>1, <2>2, <2>3
  <1>3. {k \in DOMAIN ms : ~ms[k].confirmed} = P
    BY <1>1
  <1>4. Cardinality(P) = n - c
    <2> HIDE DEF n
    <2>1. Cardinality(P) = IF c + 1 > n THEN 0 ELSE n - (c + 1) + 1
      BY <1>1, FS_Interval
    <2> QED  BY <1>1, <2>1
  <1>5. ASSUME NEW j \in 1 .. n - c
        PROVE  (CHOOSE k \in P : Cardinality({i \in P : i <= k}) = j) = c + j
    <2>1. \A k \in P : {i \in P : i <= k} = c + 1 .. k /\ c + 1 \in Int /\ k \in Int
      BY <1>1
    <2>2. \A k \in P : Cardinality({i \in P : i <= k}) = k - c
      <3> SUFFICES ASSUME NEW k \in P  PROVE Cardinality({i \in P : i <= k}) = k - c
        OBVIOUS
      <3>1. c + 1 <= k /\ k \in Int
        BY <1>1
      <3>2. Cardinality(c + 1 .. k) = IF c + 1 > k THEN 0 ELSE k - (c + 1) + 1
        BY <1>1, <3>1, FS_Interval
      <3>3. Cardinality(c + 1 .. k) = k - c
        BY <1>1, <3>1, <3>2
      <3>4. {i \in P : i <= k} = c + 1 .. k
        BY <2>1
      <3> HIDE DEF P
      <3> QED  BY <3>3, <3>4
    <2>3. c + j \in P /\ \A k \in P : (k - c = j) <=> (k = c + j)
      BY <1>1
    <2> HIDE DEF P
    <2> QED  BY <2>2, <2>3
  <1>6. Pending(g) = Picked(ms, P)
    BY <1>3 DEF Pending
  <1>7. Picked(ms, P) = [j \in 1 .. n - c |-> ms[c + j]]
    <2> DEFINE nth(j) == CHOOSE k \in P : Cardinality({i \in P : i <= k}) = j
    <2>1. Picked(ms, P) = [j \in 1 .. Cardinality(P) |-> ms[nth(j)]]
      BY DEF Picked
    <2>2. \A j \in 1 .. n - c : nth(j) = c + j
      BY <1>5
    <2> HIDE DEF P, ms, n, nth
    <2> QED  BY <1>4, <2>1, <2>2
  <1>8. /\ SubSeq(ms, c + 1, n) \in Seq(ScheduledMilestone) /\ Len(SubSeq(ms, c + 1, n)) = n - c
        /\ \A j \in 1 .. n - c : SubSeq(ms, c + 1, n)[j] = ms[c + j]
    BY <1>1, CutAt
  <1>9. SubSeq(ms, c + 1, n) = [j \in 1 .. n - c |-> ms[c + j]]
    <2> DEFINE rest == SubSeq(ms, c + 1, n)
    <2>1. rest = [j \in 1 .. Len(rest) |-> rest[j]]
      BY <1>8
    <2> HIDE DEF rest
    <2> QED  BY <1>8, <2>1 DEF rest
  <1> QED  BY <1>2, <1>6, <1>7, <1>9

\* h keeps the confirmed milestones of g and goes on with tail, of which nothing was claimed.
SplicedAt(g, h, c, tail) ==
  /\ g.milestones \in Seq(ScheduledMilestone) /\ Prefix(g.milestones, c)
  /\ tail \in Seq(ScheduledMilestone) /\ \A k \in 1 .. Len(tail) : ~tail[k].claimed
  /\ h.milestones = SubSeq(g.milestones, 1, c) \o tail

\* What such a schedule adds up to, and that as much of it was claimed.
LEMMA Spliced ==
  ASSUME NEW g, NEW h, NEW c, NEW tail, SplicedAt(g, h, c, tail)
  PROVE  /\ h.milestones \in Seq(ScheduledMilestone) /\ Len(h.milestones) = c + Len(tail)
         /\ \A k \in 1 .. c : h.milestones[k] = g.milestones[k]
         /\ \A k \in 1 .. Len(tail) : h.milestones[c + k] = tail[k]
         /\ TermSum(g.milestones) \in Int /\ TermSum(tail) \in Int
         /\ TermSum(SubSeq(g.milestones, c + 1, Len(g.milestones))) \in Int
         /\ TermSum(h.milestones) = TermSum(g.milestones) + TermSum(tail)
              - TermSum(SubSeq(g.milestones, c + 1, Len(g.milestones)))
         /\ ClaimedOf(h) = ClaimedOf(g)
         /\ SumOver(Amounts(h.milestones), ClaimedOf(h)) = SumOver(Amounts(g.milestones), ClaimedOf(g))
  <1> DEFINE ms == g.milestones
             hs == h.milestones
             kept == SubSeq(ms, 1, c)
             rest == SubSeq(ms, c + 1, Len(ms))
  <1>1. /\ Len(ms) \in Nat /\ c \in 0 .. Len(ms) /\ c \in Nat /\ DOMAIN ms = 1 .. Len(ms)
        /\ ms \in Seq(ScheduledMilestone) /\ tail \in Seq(ScheduledMilestone)
    BY DEF Prefix, SplicedAt
  <1>2. /\ kept \in Seq(ScheduledMilestone) /\ Len(kept) = c /\ \A k \in 1 .. c : kept[k] = ms[k]
        /\ rest \in Seq(ScheduledMilestone) /\ kept \o rest = ms
    <2> HIDE DEF ms
    <2> QED  BY <1>1, CutAt
  <1>3. hs = kept \o tail /\ \A k \in 1 .. Len(tail) : ~tail[k].claimed
    BY DEF SplicedAt
  <1> HIDE DEF ms, hs, kept, rest
  <1>4. /\ hs \in Seq(ScheduledMilestone) /\ Len(hs) = c + Len(tail) /\ Len(tail) \in Nat
        /\ DOMAIN hs = 1 .. c + Len(tail)
        /\ \A k \in 1 .. c : hs[k] = ms[k]
        /\ \A k \in 1 .. Len(tail) : hs[c + k] = tail[k]
    <2>1. /\ hs \in Seq(ScheduledMilestone) /\ Len(hs) = c + Len(tail) /\ Len(tail) \in Nat
          /\ DOMAIN hs = 1 .. c + Len(tail)
      <3>1. hs \in Seq(ScheduledMilestone) /\ Len(hs) = Len(kept) + Len(tail) /\ Len(tail) \in Nat
        <4>1. kept \in Seq(ScheduledMilestone) /\ tail \in Seq(ScheduledMilestone) /\ hs = kept \o tail
          BY <1>1, <1>2, <1>3
        <4> QED  BY <4>1
      <3> QED  BY <1>2, <3>1
    <2>2. \A k \in 1 .. c : hs[k] = kept[k]
      BY <1>1, <1>2, <1>3, <2>1
    <2>3. \A k \in 1 .. Len(tail) : hs[c + k] = tail[k]
      BY <1>1, <1>2, <1>3, <2>1
    <2> QED  BY <1>2, <2>1, <2>2, <2>3
  <1>5. /\ TermSum(kept) \in Int /\ TermSum(tail) \in Int /\ TermSum(rest) \in Int
        /\ TermSum(hs) = TermSum(kept) + TermSum(tail)
        /\ TermSum(ms) = TermSum(kept) + TermSum(rest)
    <2>1. \A x \in ScheduledMilestone : x.amount \in Int
      BY DEF ScheduledMilestone
    <2> QED  BY <1>1, <1>2, <1>3, <2>1, TermSumConcat
  <1>6. TermSum(ms) \in Int /\ TermSum(hs) = TermSum(ms) + TermSum(tail) - TermSum(rest)
    BY <1>5
  <1>7. \A k \in 1 .. Len(ms) : ms[k].claimed => k \in 1 .. c
    BY <1>1 DEF Prefix, ms, SplicedAt
  <1>8. \A k \in 1 .. c + Len(tail) : hs[k].claimed => k \in 1 .. c
    <2> SUFFICES ASSUME NEW k \in 1 .. c + Len(tail), hs[k].claimed, k > c  PROVE FALSE
      BY <1>1, <1>4
    <2>1. k - c \in 1 .. Len(tail) /\ c + (k - c) = k
      BY <1>1, <1>4
    <2>2. hs[k] = tail[k - c]
      BY <1>4, <2>1
    <2> QED  BY <1>3, <2>1, <2>2
  <1>9. ClaimedOf(h) = ClaimedOf(g)
    <2>1. ClaimedOf(h) = {k \in 1 .. c + Len(tail) : hs[k].claimed}
      BY <1>4 DEF ClaimedOf, hs
    <2>2. ClaimedOf(g) = {k \in 1 .. Len(ms) : ms[k].claimed}
      BY <1>1 DEF ClaimedOf, ms
    <2>3. 1 .. c \subseteq 1 .. c + Len(tail) /\ 1 .. c \subseteq 1 .. Len(ms)
      BY <1>1, <1>4
    <2> QED  BY <1>4, <1>7, <1>8, <2>1, <2>2, <2>3
  <1>10. SumOver(Amounts(hs), ClaimedOf(g)) = SumOver(Amounts(ms), ClaimedOf(g))
    <2> DEFINE A == Amounts(ms)
               H == Amounts(hs)
    <2>1. ClaimedOf(g) \subseteq 1 .. c
      BY <1>1, <1>7 DEF ClaimedOf, ms
    <2>2. \A k \in 1 .. c : H[k] = A[k]
      BY <1>1, <1>4 DEF Amounts
    <2>3. IsFiniteSet(ClaimedOf(g))
      <3>1. IsFiniteSet(1 .. c)
        BY <1>1, FS_Interval
      <3> QED  BY <2>1, <3>1, FS_Subset
    <2>4. \A k \in ClaimedOf(g) : H[k] = A[k]
      BY <2>1, <2>2
    <2> HIDE DEF A, H
    <2>5. SumOver(H, ClaimedOf(g)) = SumOver(A, ClaimedOf(g))
      BY <2>3, <2>4, SumSame
    <2> QED  BY <2>5 DEF A, H
  <1> QED  BY <1>4, <1>5, <1>6, <1>9, <1>10 DEF ms, hs, rest

\* When what it goes on with is unconfirmed, as much is confirmed and claimable as before.
LEMMA SplicedPending ==
  ASSUME NEW g, NEW h, NEW c, NEW tail, SplicedAt(g, h, c, tail),
         \A k \in 1 .. Len(tail) : ~tail[k].confirmed
  PROVE  /\ Prefix(h.milestones, c)
         /\ SumOver(Amounts(h.milestones), ClaimableOf(h)) = SumOver(Amounts(g.milestones), ClaimableOf(g))
  <1> DEFINE ms == g.milestones
             hs == h.milestones
  <1>1. Len(ms) \in Nat /\ c \in 0 .. Len(ms) /\ c \in Nat /\ DOMAIN ms = 1 .. Len(ms)
    BY DEF Prefix, SplicedAt
  <1>2. /\ hs \in Seq(ScheduledMilestone) /\ Len(hs) = c + Len(tail) /\ Len(tail) \in Nat
        /\ \A k \in 1 .. c : hs[k] = ms[k]
        /\ \A k \in 1 .. Len(tail) : hs[c + k] = tail[k]
    <2>1. Len(tail) \in Nat
      BY DEF SplicedAt
    <2>2. /\ h.milestones \in Seq(ScheduledMilestone) /\ Len(h.milestones) = c + Len(tail)
          /\ \A k \in 1 .. c : h.milestones[k] = g.milestones[k]
          /\ \A k \in 1 .. Len(tail) : h.milestones[c + k] = tail[k]
      BY Spliced
    <2> QED  BY <2>1, <2>2
  <1>3. \A k \in 1 .. Len(ms) : (ms[k].confirmed <=> k <= c) /\ (ms[k].claimed => ms[k].confirmed)
    BY DEF Prefix, SplicedAt
  <1> HIDE DEF ms, hs
  <1>4. DOMAIN hs = 1 .. c + Len(tail)
    BY <1>2
  <1>5. \A k \in 1 .. c + Len(tail) : (hs[k].confirmed <=> k <= c) /\ (hs[k].claimed => hs[k].confirmed)
    <2> SUFFICES ASSUME NEW k \in 1 .. c + Len(tail)
                 PROVE  (hs[k].confirmed <=> k <= c) /\ (hs[k].claimed => hs[k].confirmed)
      OBVIOUS
    <2>1. CASE k <= c
      <3>1. k \in 1 .. c /\ k \in 1 .. Len(ms)
        BY <1>1, <2>1
      <3> QED  BY <1>2, <1>3, <2>1, <3>1
    <2>2. CASE ~(k <= c)
      <3>1. k - c \in 1 .. Len(tail) /\ c + (k - c) = k
        BY <1>1, <1>2, <2>2
      <3>2. hs[k] = tail[k - c]
        BY <1>2, <3>1
      <3>3. ~tail[k - c].claimed
        BY <3>1 DEF SplicedAt
      <3> QED  BY <2>2, <3>1, <3>2, <3>3
    <2> QED  BY <2>1, <2>2
  <1>6. Prefix(hs, c)
    <2>1. c \in 0 .. Len(hs)
      BY <1>1, <1>2
    <2> QED  BY <1>2, <1>5, <2>1 DEF Prefix
  <1>7. ClaimableOf(h) = ClaimableOf(g)
    <2>1. ClaimableOf(h) = {k \in 1 .. c + Len(tail) : hs[k].confirmed /\ ~hs[k].claimed}
      BY <1>4 DEF ClaimableOf, hs
    <2>2. ClaimableOf(g) = {k \in 1 .. Len(ms) : ms[k].confirmed /\ ~ms[k].claimed}
      BY <1>1 DEF ClaimableOf, ms
    <2>3. 1 .. c \subseteq 1 .. c + Len(tail) /\ 1 .. c \subseteq 1 .. Len(ms)
      BY <1>1, <1>2
    <2>4. /\ \A k \in 1 .. Len(ms) : ms[k].confirmed => k \in 1 .. c
          /\ \A k \in 1 .. c + Len(tail) : hs[k].confirmed => k \in 1 .. c
      BY <1>1, <1>3, <1>5
    <2> QED  BY <1>2, <2>1, <2>2, <2>3, <2>4
  <1>8. SumOver(Amounts(hs), ClaimableOf(g)) = SumOver(Amounts(ms), ClaimableOf(g))
    <2> DEFINE A == Amounts(ms)
               H == Amounts(hs)
    <2>1. ClaimableOf(g) \subseteq 1 .. c
      BY <1>1, <1>3 DEF ClaimableOf, ms
    <2>2. \A k \in 1 .. c : H[k] = A[k]
      BY <1>1, <1>2, <1>4 DEF Amounts
    <2>3. IsFiniteSet(ClaimableOf(g))
      <3>1. IsFiniteSet(1 .. c)
        BY <1>1, FS_Interval
      <3> QED  BY <2>1, <3>1, FS_Subset
    <2>4. \A k \in ClaimableOf(g) : H[k] = A[k]
      BY <2>1, <2>2
    <2> HIDE DEF A, H
    <2>5. SumOver(H, ClaimableOf(g)) = SumOver(A, ClaimableOf(g))
      BY <2>3, <2>4, SumSame
    <2> QED  BY <2>5 DEF A, H
  <1> QED  BY <1>6, <1>7, <1>8 DEF ms, hs

\* When it goes on with one confirmed milestone, that one becomes claimable too.
LEMMA SplicedCredit ==
  ASSUME NEW g, NEW h, NEW c, NEW m \in ScheduledMilestone, SplicedAt(g, h, c, <<m>>), m.confirmed
  PROVE  /\ Prefix(h.milestones, c + 1)
         /\ SumOver(Amounts(h.milestones), ClaimableOf(h))
              = SumOver(Amounts(g.milestones), ClaimableOf(g)) + m.amount
  <1> DEFINE ms == g.milestones
             hs == h.milestones
  <1>1. Len(ms) \in Nat /\ c \in 0 .. Len(ms) /\ c \in Nat /\ DOMAIN ms = 1 .. Len(ms)
    BY DEF Prefix, SplicedAt
  <1>2. /\ hs \in Seq(ScheduledMilestone) /\ Len(hs) = c + 1
        /\ \A k \in 1 .. c : hs[k] = ms[k]
        /\ hs[c + 1] = m
    <2> DEFINE tail == <<m>>
    <2>1. Len(tail) = 1 /\ tail[1] = m
      OBVIOUS
    <2>2. SplicedAt(g, h, c, tail)
      OBVIOUS
    <2> HIDE DEF tail
    <2>3. /\ h.milestones \in Seq(ScheduledMilestone) /\ Len(h.milestones) = c + Len(tail)
          /\ \A k \in 1 .. c : h.milestones[k] = g.milestones[k]
          /\ \A k \in 1 .. Len(tail) : h.milestones[c + k] = tail[k]
      BY <2>2, Spliced
    <2>4. 1 \in 1 .. Len(tail)
      BY <2>1
    <2> QED  BY <2>1, <2>3, <2>4
  <1>3. \A k \in 1 .. Len(ms) : (ms[k].confirmed <=> k <= c) /\ (ms[k].claimed => ms[k].confirmed)
    BY DEF Prefix, SplicedAt
  <1> HIDE DEF ms, hs
  <1>4. DOMAIN hs = 1 .. c + 1
    BY <1>2
  <1>5. \A k \in 1 .. c + 1 : hs[k].confirmed /\ (hs[k].claimed => hs[k].confirmed)
    <2> SUFFICES ASSUME NEW k \in 1 .. c + 1  PROVE hs[k].confirmed
      OBVIOUS
    <2>1. CASE k = c + 1
      BY <1>2, <2>1
    <2>2. CASE k # c + 1
      <3>1. k \in 1 .. c /\ k \in 1 .. Len(ms) /\ k <= c
        BY <1>1, <2>2
      <3> QED  BY <1>2, <1>3, <3>1
    <2> QED  BY <2>1, <2>2
  <1>6. Prefix(hs, c + 1)
    <2>1. c + 1 \in 0 .. Len(hs) /\ \A k \in 1 .. c + 1 : k <= c + 1
      BY <1>1, <1>2
    <2> QED  BY <1>2, <1>5, <2>1 DEF Prefix
  <1>7. c + 1 \notin ClaimableOf(g) /\ ClaimableOf(g) \subseteq 1 .. c /\ ClaimableOf(h) = ClaimableOf(g) \cup {c + 1}
    <2>1. ClaimableOf(h) = {k \in 1 .. c + 1 : hs[k].confirmed /\ ~hs[k].claimed}
      BY <1>4 DEF ClaimableOf, hs
    <2>2. ClaimableOf(g) = {k \in 1 .. Len(ms) : ms[k].confirmed /\ ~ms[k].claimed}
      BY <1>1 DEF ClaimableOf, ms
    <2>3. 1 .. c \subseteq 1 .. Len(ms) /\ 1 .. c + 1 = (1 .. c) \cup {c + 1} /\ c + 1 \notin 1 .. c
      BY <1>1
    <2>4. \A k \in 1 .. Len(ms) : ms[k].confirmed => k \in 1 .. c
      BY <1>1, <1>3
    <2>5. hs[c + 1].confirmed /\ ~hs[c + 1].claimed
      BY <1>2 DEF SplicedAt
    <2> QED  BY <1>2, <2>1, <2>2, <2>3, <2>4, <2>5
  <1>8. SumOver(Amounts(hs), ClaimableOf(h)) = SumOver(Amounts(ms), ClaimableOf(g)) + m.amount
    <2> DEFINE A == Amounts(ms)
               H == Amounts(hs)
    <2>2. /\ \A k \in 1 .. c : H[k] = A[k]
          /\ \A k \in 1 .. c + 1 : H[k] \in Int
          /\ H[c + 1] = m.amount
      <3>1. \A k \in 1 .. c + 1 : hs[k] \in ScheduledMilestone /\ hs[k].amount \in Int /\ H[k] = hs[k].amount
        <4>1. \A k \in 1 .. c + 1 : hs[k] \in ScheduledMilestone
          BY <1>2
        <4>2. \A k \in 1 .. c + 1 : hs[k].amount \in Int
          BY <4>1 DEF ScheduledMilestone
        <4>3. \A k \in 1 .. c + 1 : H[k] = hs[k].amount
          BY <1>4 DEF Amounts
        <4> QED  BY <4>1, <4>2, <4>3
      <3>2. \A k \in 1 .. c : A[k] = ms[k].amount /\ k \in 1 .. c + 1
        BY <1>1 DEF Amounts
      <3>3. c + 1 \in 1 .. c + 1
        BY <1>1
      <3> HIDE DEF A, H
      <3> QED  BY <1>2, <3>1, <3>2, <3>3
    <2>3. IsFiniteSet(ClaimableOf(g)) /\ IsFiniteSet(ClaimableOf(h))
      <3>1. IsFiniteSet(1 .. c)
        BY <1>1, FS_Interval
      <3>2. IsFiniteSet(ClaimableOf(g))
        BY <1>7, <3>1, FS_Subset
      <3> QED  BY <1>7, <3>2, FS_AddElement
    <2>4. \A k \in ClaimableOf(g) : H[k] = A[k]
      BY <1>7, <2>2
    <2>5. \A k \in ClaimableOf(h) : H[k] \in Int
      BY <1>1, <1>7, <2>2
    <2>6. c + 1 \in ClaimableOf(h) /\ ClaimableOf(h) \ {c + 1} = ClaimableOf(g)
      BY <1>7
    <2> HIDE DEF A, H
    <2>7. SumOver(H, ClaimableOf(g)) = SumOver(A, ClaimableOf(g))
      BY <2>3, <2>4, SumSame
    <2>8. SumOver(H, ClaimableOf(h)) = H[c + 1] + SumOver(H, ClaimableOf(h) \ {c + 1})
      <3>1. PICK S, last : S = ClaimableOf(h) /\ last = c + 1
        OBVIOUS
      <3>2. IsFiniteSet(S) /\ last \in S /\ \A k \in S : H[k] \in Int
        BY <2>3, <2>5, <2>6, <3>1
      <3>3. SumOver(H, S) = H[last] + SumOver(H, S \ {last})
        BY <3>2, SumRemove
      <3> QED  BY <3>1, <3>3
    <2>9. SumOver(H, ClaimableOf(g)) \in Int /\ m.amount \in Int
      <3>1. \A k \in ClaimableOf(g) : H[k] \in Int
        BY <2>5, <2>6
      <3> QED  BY <2>3, <3>1, SumInt DEF ScheduledMilestone
    <2>10. SumOver(H, ClaimableOf(h)) = m.amount + SumOver(A, ClaimableOf(g))
      BY <2>2, <2>6, <2>7, <2>8
    <2>11. m.amount + SumOver(A, ClaimableOf(g)) = SumOver(A, ClaimableOf(g)) + m.amount
      BY <2>7, <2>9
    <2> QED  BY <2>10, <2>11 DEF A, H
  <1> QED  BY <1>6, <1>8 DEF ms, hs

\* A milestone list without what happened to its milestones.
Terms(ms) == [k \in DOMAIN ms |-> [amount |-> ms[k].amount, due |-> ms[k].due]]

\* The terms of a milestone list, and what they add up to.
LEMMA TermsKept ==
  ASSUME NEW ms \in Seq(ScheduledMilestone)
  PROVE  /\ Terms(ms) \in Seq(Term) /\ Len(Terms(ms)) = Len(ms)
         /\ \A k \in 1 .. Len(ms) : Terms(ms)[k] = [amount |-> ms[k].amount, due |-> ms[k].due]
         /\ TermSum(Terms(ms)) = TermSum(ms)
  <1>1. /\ Terms(ms) \in Seq(Term) /\ Len(Terms(ms)) = Len(ms) /\ Len(ms) \in Nat
        /\ DOMAIN Terms(ms) = 1 .. Len(ms) /\ DOMAIN ms = 1 .. Len(ms)
    <2>1. Len(ms) \in Nat /\ DOMAIN ms = 1 .. Len(ms) /\ \A k \in 1 .. Len(ms) : ms[k] \in ScheduledMilestone
      OBVIOUS
    <2>2. \A m \in ScheduledMilestone : [amount |-> m.amount, due |-> m.due] \in Term
      BY DEF Term, ScheduledMilestone
    <2>3. \A k \in 1 .. Len(ms) : [amount |-> ms[k].amount, due |-> ms[k].due] \in Term
      BY <2>1, <2>2
    <2>4. Terms(ms) \in [1 .. Len(ms) -> Term]
      BY <2>1, <2>3 DEF Terms
    <2> QED  BY <2>1, <2>4
  <1>2. \A k \in 1 .. Len(ms) : Terms(ms)[k] = [amount |-> ms[k].amount, due |-> ms[k].due]
    BY <1>1 DEF Terms
  <1>3. \A k \in 1 .. Len(ms) : Terms(ms)[k].amount = ms[k].amount
    <2> SUFFICES ASSUME NEW k \in 1 .. Len(ms)  PROVE Terms(ms)[k].amount = ms[k].amount
      OBVIOUS
    <2>1. Terms(ms)[k] = [amount |-> ms[k].amount, due |-> ms[k].due]
      BY <1>2
    <2> QED  BY <2>1
  <1>4. TermSum(Terms(ms)) = TermSum(ms)
    BY <1>1, <1>3, TermSumSame
  <1> QED  BY <1>1, <1>2, <1>4

\* The first c terms of the grant's schedule, and then others.
Rescheduled(g, c, terms) == SubSeq(current_schedule(g), 1, c) \o terms

\* The schedule of a spliced milestone list is the schedule spliced.
LEMMA TermsSpliced ==
  ASSUME NEW g, NEW h, NEW c, NEW tail, SplicedAt(g, h, c, tail)
  PROVE  current_schedule(h) = Rescheduled(g, c, Terms(tail))
  <1> DEFINE ms == g.milestones
             hs == h.milestones
             kept == SubSeq(Terms(ms), 1, c)
             T == Terms(tail)
             H == Terms(hs)
  <1>1. /\ ms \in Seq(ScheduledMilestone) /\ c \in 0 .. Len(ms) /\ tail \in Seq(ScheduledMilestone) /\ Len(ms) \in Nat
    BY DEF SplicedAt, Prefix
  <1>2. /\ hs \in Seq(ScheduledMilestone) /\ Len(hs) = c + Len(tail)
        /\ \A k \in 1 .. c : hs[k] = ms[k]
        /\ \A k \in 1 .. Len(tail) : hs[c + k] = tail[k]
    BY Spliced
  <1>3. current_schedule(h) = H /\ current_schedule(g) = Terms(ms)
    BY DEF current_schedule, Terms
  <1> HIDE DEF ms, hs
  <1>4. /\ H \in Seq(Term) /\ Len(H) = c + Len(tail) /\ T \in Seq(Term) /\ Len(T) = Len(tail)
        /\ Len(tail) \in Nat
        /\ \A k \in 1 .. c + Len(tail) : H[k] = [amount |-> hs[k].amount, due |-> hs[k].due]
        /\ \A k \in 1 .. Len(tail) : T[k] = [amount |-> tail[k].amount, due |-> tail[k].due]
    BY <1>1, <1>2, TermsKept
  <1>5. /\ kept \in Seq(Term) /\ Len(kept) = c
        /\ \A k \in 1 .. c : kept[k] = [amount |-> ms[k].amount, due |-> ms[k].due]
    <2> DEFINE G == Terms(ms)
    <2>1. G \in Seq(Term) /\ Len(G) = Len(ms)
          /\ \A k \in 1 .. Len(ms) : G[k] = [amount |-> ms[k].amount, due |-> ms[k].due]
      BY <1>1, TermsKept
    <2> HIDE DEF G
    <2>2. c \in 0 .. Len(G)
      BY <1>1, <2>1
    <2>3. SubSeq(G, 1, c) \in Seq(Term) /\ Len(SubSeq(G, 1, c)) = c /\ \A k \in 1 .. c : SubSeq(G, 1, c)[k] = G[k]
      BY <2>1, <2>2, CutAt
    <2>4. \A k \in 1 .. c : k \in 1 .. Len(ms)
      BY <1>1
    <2> QED  BY <2>1, <2>3, <2>4 DEF G
  <1> HIDE DEF kept, T, H
  <1>6. H = kept \o T
    <2>1. kept \o T \in Seq(Term) /\ Len(kept \o T) = Len(H)
      BY <1>4, <1>5
    <2>2. ASSUME NEW k \in 1 .. Len(H)  PROVE (kept \o T)[k] = H[k]
      <3>0. k \in Int /\ c \in Int /\ c >= 0
        BY <1>1, <1>4
      <3>1. CASE k <= c
        <4>1. k \in 1 .. c
          BY <3>0, <3>1
        <4>2. (kept \o T)[k] = kept[k]
          BY <1>4, <1>5, <4>1
        <4> QED  BY <1>2, <1>4, <1>5, <4>1, <4>2
      <3>2. CASE k > c
        <4>1. k - c \in 1 .. Len(tail) /\ c + (k - c) = k
          BY <3>0, <3>2, <1>4
        <4>2. hs[k] = tail[k - c]
          BY <1>2, <4>1
        <4>3. (kept \o T)[k] = T[k - c]
          BY <1>4, <1>5, <3>0, <3>2, <4>1
        <4> QED  BY <1>4, <4>1, <4>2, <4>3
      <3>3. k <= c \/ k > c
        BY <3>0
      <3> QED  BY <3>1, <3>2, <3>3
    <2> QED  BY <1>4, <2>1, <2>2, SeqEqual
  <1> QED  BY <1>3, <1>6 DEF kept, T, H, Rescheduled

\* The grant's books, paid being what the grantee received.
GrantOK(g, got) ==
  /\ g \in GrantState
  /\ \E c \in Nat : Prefix(g.milestones, c)
  /\ TermSum(g.milestones) + g.pending_refund + g.refunded = Award
  /\ got = SumOver(Amounts(g.milestones), ClaimedOf(g))
  /\ g.claimable = SumOver(Amounts(g.milestones), ClaimableOf(g))
  /\ g.status \in {"Terminated", "Closed"} => \A k \in 1 .. Len(g.milestones) : g.milestones[k].confirmed
  /\ g.status = "Closed" => g.claimable = 0 /\ g.pending_refund = 0

\* A change of status to one under which milestones may still be confirmed.
LEMMA StatusOpen ==
  ASSUME NEW g, NEW got, GrantOK(g, got), NEW status \in OpenStatuses
  PROVE  GrantOK([g EXCEPT !.status = status], got)
  <1> DEFINE h == [g EXCEPT !.status = status]
  <1>1. /\ h \in GrantState /\ h.milestones = g.milestones /\ h.claimable = g.claimable
        /\ h.pending_refund = g.pending_refund /\ h.refunded = g.refunded /\ h.status = status
    <2>1. status \in GrantStatuses
      BY DEF GrantStatuses
    <2> QED  BY <2>1 DEF GrantOK, GrantState
  <1> HIDE DEF h
  <1>2. ClaimedOf(h) = ClaimedOf(g) /\ ClaimableOf(h) = ClaimableOf(g)
    BY <1>1 DEF ClaimedOf, ClaimableOf
  <1>3. GrantOK(h, got)
    BY <1>1, <1>2 DEF GrantOK, OpenStatuses
  <1> QED  BY <1>3 DEF h

\* close_if_settled keeps the books.
LEMMA CloseKept ==
  ASSUME NEW g, NEW got, GrantOK(g, got)
  PROVE  GrantOK(close_if_settled(g), got) /\ current_schedule(close_if_settled(g)) = current_schedule(g)
  <1>1. CASE close_if_settled(g) = g
    BY <1>1
  <1>2. CASE close_if_settled(g) # g
    <2> DEFINE h == [g EXCEPT !.status = "Closed"]
    <2>1. /\ close_if_settled(g) = h /\ g.claimable = 0 /\ g.pending_refund = 0
          /\ \/ g.status = "Terminated"
             \/ \A m \in ToSet(g.milestones) : m.confirmed /\ m.claimed
      BY <1>2 DEF close_if_settled
    <2>2. /\ h \in GrantState /\ h.milestones = g.milestones /\ h.claimable = g.claimable
          /\ h.pending_refund = g.pending_refund /\ h.refunded = g.refunded
          /\ g.milestones \in Seq(ScheduledMilestone)
      <3>1. g \in GrantState
        BY DEF GrantOK
      <3>2. "Closed" \in GrantStatuses
        BY DEF GrantStatuses
      <3> QED  BY <3>1, <3>2 DEF GrantState
    <2> HIDE DEF h
    <2>3. ClaimedOf(h) = ClaimedOf(g) /\ ClaimableOf(h) = ClaimableOf(g) /\ current_schedule(h) = current_schedule(g)
      BY <2>2 DEF ClaimedOf, ClaimableOf, current_schedule
    <2>4. \A k \in 1 .. Len(g.milestones) : g.milestones[k].confirmed
      <3>1. CASE g.status = "Terminated"
        BY <3>1 DEF GrantOK
      <3>2. CASE \A m \in ToSet(g.milestones) : m.confirmed /\ m.claimed
        <4>1. DOMAIN g.milestones = 1 .. Len(g.milestones)
          BY <2>2
        <4> QED  BY <3>2, <4>1 DEF ToSet
      <3> QED  BY <2>1, <3>1, <3>2
    <2> QED  BY <2>1, <2>2, <2>3, <2>4 DEF GrantOK
  <1> QED  BY <1>1, <1>2

\* What execute_request leaves of a grant's books, h for g: they are kept, the schedule is
\* the one asked for, and the refund is what it adds up to less.
ChangeKept(g, h, c, change, got) ==
  /\ GrantOK(h, got)
  /\ h.pending_refund - g.pending_refund = TermSum(g.milestones) - TermSum(h.milestones)
  /\ \A rec : /\ rec.change = change /\ rec.confirmed = c /\ rec.old_schedule = current_schedule(g)
              => current_schedule(h) = Requested(rec)

\* A splice that moves the difference to pending_refund keeps the books.
LEMMA SpliceKept ==
  ASSUME NEW g, NEW got, GrantOK(g, got), NEW h \in GrantState, NEW c, NEW tail,
         SplicedAt(g, h, c, tail),
         h.refunded = g.refunded,
         h.pending_refund = g.pending_refund
            + TermSum(SubSeq(g.milestones, c + 1, Len(g.milestones))) - TermSum(tail),
         h.status \in {"Amended", "Extended", "Terminated"},
         \/ /\ \A k \in 1 .. Len(tail) : ~tail[k].confirmed
            /\ h.claimable = g.claimable
            /\ h.status = "Terminated" => tail = <<>>
         \/ \E m \in ScheduledMilestone : tail = <<m>> /\ m.confirmed /\ h.claimable = g.claimable + m.amount
  PROVE  /\ GrantOK(h, got)
         /\ h.pending_refund - g.pending_refund = TermSum(g.milestones) - TermSum(h.milestones)
  <1> DEFINE rest == SubSeq(g.milestones, c + 1, Len(g.milestones))
  <1>1. /\ g.pending_refund \in Int /\ g.refunded \in Int
        /\ TermSum(g.milestones) + g.pending_refund + g.refunded = Award
        /\ got = SumOver(Amounts(g.milestones), ClaimedOf(g))
        /\ g.claimable = SumOver(Amounts(g.milestones), ClaimableOf(g))
    BY DEF GrantOK, GrantState
  <1>2. /\ h.milestones \in Seq(ScheduledMilestone) /\ Len(h.milestones) = c + Len(tail)
        /\ TermSum(g.milestones) \in Int /\ TermSum(tail) \in Int /\ TermSum(rest) \in Int
        /\ TermSum(h.milestones) = TermSum(g.milestones) + TermSum(tail) - TermSum(rest)
        /\ SumOver(Amounts(h.milestones), ClaimedOf(h)) = SumOver(Amounts(g.milestones), ClaimedOf(g))
    BY Spliced
  <1>3. h.pending_refund = g.pending_refund + TermSum(rest) - TermSum(tail)
    OBVIOUS
  <1>4. c \in Nat
    BY DEF SplicedAt, Prefix
  <1> HIDE DEF rest
  <1>5. /\ h.pending_refund - g.pending_refund = TermSum(g.milestones) - TermSum(h.milestones)
        /\ TermSum(h.milestones) + h.pending_refund + h.refunded = Award
    BY <1>1, <1>2, <1>3
  <1>6. /\ \E d \in Nat : Prefix(h.milestones, d)
        /\ h.claimable = SumOver(Amounts(h.milestones), ClaimableOf(h))
        /\ h.status = "Terminated" => \A k \in 1 .. Len(h.milestones) : h.milestones[k].confirmed
    <2>1. CASE /\ \A k \in 1 .. Len(tail) : ~tail[k].confirmed
               /\ h.claimable = g.claimable
               /\ h.status = "Terminated" => tail = <<>>
      <3>1. /\ Prefix(h.milestones, c)
            /\ SumOver(Amounts(h.milestones), ClaimableOf(h)) = SumOver(Amounts(g.milestones), ClaimableOf(g))
        BY <2>1, SplicedPending
      <3>2. ASSUME h.status = "Terminated"
            PROVE  \A k \in 1 .. Len(h.milestones) : h.milestones[k].confirmed
        <4>1. Len(h.milestones) = c
          BY <1>2, <1>4, <2>1, <3>2
        <4> QED  BY <1>4, <3>1, <4>1 DEF Prefix
      <3> QED  BY <1>1, <1>4, <2>1, <3>1, <3>2
    <2>2. CASE \E m \in ScheduledMilestone : tail = <<m>> /\ m.confirmed /\ h.claimable = g.claimable + m.amount
      <3>1. PICK m \in ScheduledMilestone : tail = <<m>> /\ m.confirmed /\ h.claimable = g.claimable + m.amount
        BY <2>2
      <3>2. SplicedAt(g, h, c, <<m>>)
        BY <3>1
      <3>3. /\ Prefix(h.milestones, c + 1)
            /\ SumOver(Amounts(h.milestones), ClaimableOf(h))
                 = SumOver(Amounts(g.milestones), ClaimableOf(g)) + m.amount
        BY <3>1, <3>2, SplicedCredit
      <3>4. Len(h.milestones) = c + 1
        BY <1>2, <3>1
      <3>5. \A k \in 1 .. Len(h.milestones) : h.milestones[k].confirmed
        BY <1>4, <3>3, <3>4 DEF Prefix
      <3>6. c + 1 \in Nat
        BY <1>4
      <3> QED  BY <1>1, <3>1, <3>3, <3>5, <3>6
    <2> QED  BY <2>1, <2>2
  <1>7. h.status # "Closed"
    OBVIOUS
  <1>8. GrantOK(h, got)
    <2>1. h.status \in {"Terminated", "Closed"} => h.status = "Terminated"
      BY <1>7
    <2> QED  BY <1>1, <1>2, <1>5, <1>6, <1>7, <2>1 DEF GrantOK
  <1> QED  BY <1>5, <1>8

\* A grant by its fields.
Books(ms, toClaim, refund, back, n, status) ==
  [milestones |-> ms, claimable |-> toClaim, pending_refund |-> refund, refunded |-> back,
   amendments |-> n, status |-> status]

\* Every grant is one, and one of the right types is a grant.
LEMMA BooksFacts ==
  /\ \A g \in GrantState :
       /\ g = Books(g.milestones, g.claimable, g.pending_refund, g.refunded, g.amendments, g.status)
       /\ g.milestones \in Seq(ScheduledMilestone) /\ g.claimable \in Int /\ g.pending_refund \in Int
       /\ g.refunded \in Int /\ g.amendments \in Nat
  /\ \A ms \in Seq(ScheduledMilestone) : \A toClaim, refund, back \in Int : \A n \in Nat : \A status \in GrantStatuses :
       Books(ms, toClaim, refund, back, n, status) \in GrantState
  BY DEF Books, GrantState

\* New terms as milestones: unconfirmed, unclaimed and of the same amounts.
LEMMA NewTerms ==
  ASSUME NEW terms \in Seq(Term), \A k \in DOMAIN terms : terms[k].amount > 0
  PROVE  /\ WithTerms(terms) \in Seq(ScheduledMilestone) /\ Len(WithTerms(terms)) = Len(terms)
         /\ \A k \in 1 .. Len(terms) : ~WithTerms(terms)[k].claimed /\ ~WithTerms(terms)[k].confirmed
         /\ TermSum(WithTerms(terms)) = TermSum(terms)
         /\ Terms(WithTerms(terms)) = terms
  <1> DEFINE n == Len(terms)
             w == WithTerms(terms)
  <1>1. n \in Nat /\ DOMAIN terms = 1 .. n /\ \A k \in 1 .. n : terms[k] \in Term /\ terms[k].amount > 0
    OBVIOUS
  <1>2. \A t \in Term : t.amount > 0 => Unconfirmed(t) \in ScheduledMilestone
    BY DEF Unconfirmed, ScheduledMilestone, Term
  <1>3. /\ w \in [1 .. n -> ScheduledMilestone]
        /\ \A k \in 1 .. n : w[k] = Unconfirmed(terms[k])
    BY <1>1, <1>2 DEF WithTerms
  <1>4. \A k \in 1 .. n : ~w[k].claimed /\ ~w[k].confirmed /\ w[k].amount = terms[k].amount /\ w[k].due = terms[k].due
    BY <1>3 DEF Unconfirmed
  <1> HIDE DEF w
  <1>5. w \in Seq(ScheduledMilestone) /\ Len(w) = n /\ DOMAIN w = 1 .. n
    BY <1>1, <1>3
  <1>6. TermSum(w) = TermSum(terms)
    BY <1>1, <1>4, <1>5, TermSumSame
  <1>7. Terms(w) = terms
    <2>1. Terms(w) \in Seq(Term) /\ Len(Terms(w)) = n
          /\ \A k \in 1 .. n : Terms(w)[k] = [amount |-> w[k].amount, due |-> w[k].due]
      BY <1>5, TermsKept
    <2>2. \A k \in 1 .. n : terms[k] = [amount |-> terms[k].amount, due |-> terms[k].due]
      BY <1>1 DEF Term
    <2>3. \A k \in 1 .. n : Terms(w)[k] = terms[k]
      BY <1>4, <2>1, <2>2
    <2> QED  BY <2>1, <2>3, SeqEqual
  <1> QED  BY <1>4, <1>5, <1>6, <1>7 DEF w

\* An amendment (execute_request, RequestKind::Amendment).
LEMMA Amended ==
  ASSUME NEW g, NEW got, GrantOK(g, got), NEW c, Prefix(g.milestones, c),
         NEW change, change.kind = "Amendment", change.new_pending \in Seq(Term),
         validate_change(g, change)
  PROVE  ChangeKept(g, Changed(g, change), c, change, got)
  <1> DEFINE h == Changed(g, change)
             tail == WithTerms(change.new_pending)
             rest == SubSeq(g.milestones, c + 1, Len(g.milestones))
  <1>1. g \in GrantState /\ g.milestones \in Seq(ScheduledMilestone)
    BY DEF GrantOK, GrantState
  <1>2. confirmed_count(g) = c /\ Pending(g) = rest
    BY <1>1, PrefixCounted
  <1>3. \A k \in DOMAIN change.new_pending : change.new_pending[k].amount > 0
    BY DEF validate_change
  <1>4. /\ tail \in Seq(ScheduledMilestone) /\ Len(tail) = Len(change.new_pending)
        /\ \A k \in 1 .. Len(tail) : ~tail[k].claimed /\ ~tail[k].confirmed
        /\ TermSum(tail) = TermSum(change.new_pending)
        /\ Terms(tail) = change.new_pending
    BY <1>3, NewTerms
  <1> DEFINE new == SubSeq(g.milestones, 1, c) \o tail
  <1>5. h = [g EXCEPT !.milestones = new, !.amendments = @ + 1, !.status = "Amended",
                      !.pending_refund = @ + TermSum(rest) - TermSum(change.new_pending)]
    BY <1>2 DEF Changed
  <1>6. new \in Seq(ScheduledMilestone)
    <2>1. c \in 0 .. Len(g.milestones)
      BY DEF Prefix
    <2>2. PICK ms \in Seq(ScheduledMilestone) : ms = g.milestones
      BY <1>1
    <2>3. SubSeq(ms, 1, c) \in Seq(ScheduledMilestone)
      BY <2>1, <2>2, CutAt
    <2> HIDE DEF tail
    <2> QED  BY <1>4, <2>2, <2>3
  <1>7. TermSum(rest) \in Int /\ TermSum(tail) \in Int
    <2> DEFINE x == [g EXCEPT !.milestones = new]
    <2>1. SplicedAt(g, x, c, tail)
      <3> HIDE DEF tail
      <3>1. x.milestones = new
        BY <1>1 DEF GrantState
      <3> HIDE DEF x
      <3> QED  BY <1>1, <1>4, <3>1 DEF SplicedAt
    <2> HIDE DEF x, tail
    <2> QED  BY <2>1, Spliced
  <1> HIDE DEF new, rest, tail
  <1>8. /\ h \in GrantState /\ h.milestones = new /\ h.status = "Amended"
        /\ h.claimable = g.claimable /\ h.refunded = g.refunded
        /\ h.pending_refund = g.pending_refund + TermSum(rest) - TermSum(tail)
    <2>1. PICK refund \in Int : refund = g.pending_refund + TermSum(rest) - TermSum(change.new_pending)
      BY <1>1, <1>4, <1>7 DEF GrantState
    <2>2. h = Books(new, g.claimable, refund, g.refunded, g.amendments + 1, "Amended")
      <3>1. h = [g EXCEPT !.milestones = new, !.amendments = @ + 1, !.status = "Amended", !.pending_refund = refund]
        BY <1>5, <2>1
      <3>2. g = Books(g.milestones, g.claimable, g.pending_refund, g.refunded, g.amendments, g.status)
        BY <1>1, BooksFacts
      <3> HIDE DEF h
      <3> QED  BY <3>1, <3>2 DEF Books
    <2> HIDE DEF h
    <2>3. /\ h \in GrantState /\ h.milestones = new /\ h.status = "Amended"
          /\ h.claimable = g.claimable /\ h.refunded = g.refunded /\ h.pending_refund = refund
      <3>1. "Amended" \in GrantStatuses
        BY DEF GrantStatuses, OpenStatuses
      <3>2. g.amendments + 1 \in Nat
        BY <1>1, BooksFacts
      <3>3. h \in GrantState
        BY <1>1, <1>6, <2>1, <2>2, <3>1, <3>2, BooksFacts
      <3> QED  BY <2>2, <3>3 DEF Books
    <2> QED  BY <1>4, <2>1, <2>3
  <1> HIDE DEF h
  <1>9. SplicedAt(g, h, c, tail)
    BY <1>1, <1>4, <1>8 DEF SplicedAt, new
  <1>10. /\ GrantOK(h, got)
         /\ h.pending_refund - g.pending_refund = TermSum(g.milestones) - TermSum(h.milestones)
    <2>1. /\ \A k \in 1 .. Len(tail) : ~tail[k].confirmed
          /\ h.claimable = g.claimable
          /\ h.status = "Terminated" => tail = <<>>
      BY <1>4, <1>8
    <2>2. h.status \in {"Amended", "Extended", "Terminated"}
      BY <1>8
    <2>3. h.pending_refund = g.pending_refund
            + TermSum(SubSeq(g.milestones, c + 1, Len(g.milestones))) - TermSum(tail)
      BY <1>8 DEF rest
    <2> QED  BY <1>8, <1>9, <2>1, <2>2, <2>3, SpliceKept
  <1>11. ASSUME NEW rec, rec.change = change, rec.confirmed = c, rec.old_schedule = current_schedule(g)
         PROVE  current_schedule(h) = Requested(rec)
    <2>1. current_schedule(h) = Rescheduled(g, c, change.new_pending)
      BY <1>4, <1>9, TermsSpliced
    <2>2. Requested(rec) = Rescheduled(g, c, change.new_pending)
      BY <1>11 DEF Requested, Rescheduled
    <2> QED  BY <2>1, <2>2
  <1> QED  BY <1>10, <1>11 DEF ChangeKept, h

\* The milestones after the confirmed ones, and their terms.
LEMMA RestFacts ==
  ASSUME NEW g, g.milestones \in Seq(ScheduledMilestone), NEW c, Prefix(g.milestones, c)
  PROVE  LET rest == SubSeq(g.milestones, c + 1, Len(g.milestones))
             schedule == current_schedule(g)
         IN /\ rest \in Seq(ScheduledMilestone) /\ Len(rest) \in Nat
            /\ \A k \in 1 .. Len(rest) : ~rest[k].claimed /\ ~rest[k].confirmed
            /\ SubSeq(schedule, c + 1, Len(schedule)) = Terms(rest)
            /\ SubSeq(g.milestones, 1, c) \in Seq(ScheduledMilestone)
  <1>1. PICK ms \in Seq(ScheduledMilestone) : ms = g.milestones
    OBVIOUS
  <1> DEFINE n == Len(ms)
             rest == SubSeq(ms, c + 1, n)
             T == Terms(ms)
             R == SubSeq(T, c + 1, n)
  <1>2. /\ n \in Nat /\ c \in 0 .. n
        /\ \A k \in 1 .. n : (ms[k].confirmed <=> k <= c) /\ (ms[k].claimed => ms[k].confirmed)
    BY <1>1 DEF Prefix
  <1>3. T \in Seq(Term) /\ Len(T) = n /\ \A k \in 1 .. n : T[k] = [amount |-> ms[k].amount, due |-> ms[k].due]
    BY TermsKept
  <1>4. /\ rest \in Seq(ScheduledMilestone) /\ Len(rest) = n - c /\ \A k \in 1 .. n - c : rest[k] = ms[c + k]
        /\ SubSeq(ms, 1, c) \in Seq(ScheduledMilestone)
    BY <1>2, CutAt
  <1>5. current_schedule(g) = T
    BY <1>1 DEF current_schedule, Terms
  <1> HIDE DEF T
  <1>6. R \in Seq(Term) /\ Len(R) = n - c /\ \A k \in 1 .. n - c : R[k] = T[c + k]
    BY <1>2, <1>3, CutAt
  <1>7. /\ Terms(rest) \in Seq(Term) /\ Len(Terms(rest)) = n - c
        /\ \A k \in 1 .. n - c : Terms(rest)[k] = [amount |-> rest[k].amount, due |-> rest[k].due]
    BY <1>4, TermsKept
  <1>8. \A k \in 1 .. n - c : c + k \in 1 .. n /\ ~(c + k <= c)
    BY <1>2
  <1> HIDE DEF n, rest, R
  <1>9. R = Terms(rest)
    <2>1. ASSUME NEW k \in 1 .. n - c  PROVE R[k] = Terms(rest)[k]
      <3>1. T[c + k] = [amount |-> ms[c + k].amount, due |-> ms[c + k].due]
        BY <1>3, <1>8
      <3> QED  BY <1>4, <1>6, <1>7, <3>1
    <2> QED  BY <1>6, <1>7, <2>1, SeqEqual
  <1>10. \A k \in 1 .. Len(rest) : ~rest[k].claimed /\ ~rest[k].confirmed
    <2> SUFFICES ASSUME NEW k \in 1 .. n - c  PROVE ~rest[k].claimed /\ ~rest[k].confirmed
      BY <1>4
    <2> QED  BY <1>2, <1>4, <1>8
  <1>11. Len(rest) \in Nat
    BY <1>4
  <1> QED  BY <1>1, <1>3, <1>4, <1>5, <1>9, <1>10, <1>11 DEF n, rest, R

\* Milestones moved to other dates.
Moved(terms, dates) == [k \in DOMAIN terms |-> [terms[k] EXCEPT !.due = dates[k]]]

\* Their amounts and their state stay.
LEMMA MovedFacts ==
  ASSUME NEW rest \in Seq(ScheduledMilestone), NEW dates \in Seq(Nat), Len(dates) = Len(rest),
         \A k \in 1 .. Len(rest) : ~rest[k].claimed /\ ~rest[k].confirmed
  PROVE  /\ Moved(rest, dates) \in Seq(ScheduledMilestone)
         /\ \A k \in 1 .. Len(Moved(rest, dates)) :
              ~Moved(rest, dates)[k].claimed /\ ~Moved(rest, dates)[k].confirmed
         /\ TermSum(Moved(rest, dates)) = TermSum(rest)
         /\ Terms(Moved(rest, dates)) = Moved(Terms(rest), dates)
  <1> DEFINE n == Len(rest)
             m == Moved(rest, dates)
  <1>1. n \in Nat /\ DOMAIN rest = 1 .. n /\ \A k \in 1 .. n : rest[k] \in ScheduledMilestone /\ dates[k] \in Nat
    OBVIOUS
  <1>2. \A x \in ScheduledMilestone : \A d \in Nat :
          /\ [x EXCEPT !.due = d] \in ScheduledMilestone /\ [x EXCEPT !.due = d].due = d
          /\ [x EXCEPT !.due = d].amount = x.amount
          /\ [x EXCEPT !.due = d].claimed = x.claimed /\ [x EXCEPT !.due = d].confirmed = x.confirmed
    BY DEF ScheduledMilestone
  <1>3. m \in [1 .. n -> ScheduledMilestone] /\ \A k \in 1 .. n : m[k] = [rest[k] EXCEPT !.due = dates[k]]
    BY <1>1, <1>2 DEF Moved
  <1>4. \A k \in 1 .. n : /\ m[k].due = dates[k] /\ m[k].amount = rest[k].amount
                          /\ ~m[k].claimed /\ ~m[k].confirmed
    <2> SUFFICES ASSUME NEW k \in 1 .. n
                 PROVE  /\ m[k].due = dates[k] /\ m[k].amount = rest[k].amount
                        /\ ~m[k].claimed /\ ~m[k].confirmed
      OBVIOUS
    <2>1. PICK x \in ScheduledMilestone, d \in Nat : x = rest[k] /\ d = dates[k]
      BY <1>1
    <2>2. m[k] = [x EXCEPT !.due = d] /\ ~x.claimed /\ ~x.confirmed
      BY <1>3, <2>1
    <2> HIDE DEF m
    <2> QED  BY <1>2, <2>1, <2>2
  <1>5. m \in Seq(ScheduledMilestone) /\ Len(m) = n /\ DOMAIN m = 1 .. n
    <2>1. m \in [1 .. n -> ScheduledMilestone]
      BY <1>3
    <2> HIDE DEF m
    <2> QED  BY <1>1, <2>1
  <1> HIDE DEF m
  <1>6. TermSum(m) = TermSum(rest)
    BY <1>1, <1>4, <1>5, TermSumSame
  <1>7. Terms(m) = Moved(Terms(rest), dates)
    <2>1. /\ Terms(m) \in Seq(Term) /\ Len(Terms(m)) = n
          /\ \A k \in 1 .. n : Terms(m)[k] = [amount |-> m[k].amount, due |-> m[k].due]
      BY <1>5, TermsKept
    <2>2. /\ Terms(rest) \in Seq(Term) /\ Len(Terms(rest)) = n
          /\ \A k \in 1 .. n : Terms(rest)[k] = [amount |-> rest[k].amount, due |-> rest[k].due]
      BY TermsKept
    <2>3. Terms(m) = [k \in 1 .. n |-> [amount |-> m[k].amount, due |-> m[k].due]]
      BY <1>5 DEF Terms
    <2>4. DOMAIN Terms(rest) = 1 .. n
      BY <1>1 DEF Terms
    <2>5. Moved(Terms(rest), dates) = [k \in 1 .. n |-> [Terms(rest)[k] EXCEPT !.due = dates[k]]]
      BY <2>4 DEF Moved
    <2>6. ASSUME NEW k \in 1 .. n
          PROVE  [amount |-> m[k].amount, due |-> m[k].due] = [Terms(rest)[k] EXCEPT !.due = dates[k]]
      <3>1. PICK t : t = Terms(rest)[k]
        OBVIOUS
      <3>2. t = [amount |-> rest[k].amount, due |-> rest[k].due]
        BY <2>2, <3>1
      <3>3. [t EXCEPT !.due = dates[k]] = [amount |-> rest[k].amount, due |-> dates[k]]
        BY <3>2
      <3> QED  BY <1>4, <3>1, <3>3
    <2> QED  BY <2>3, <2>5, <2>6
  <1> QED  BY <1>4, <1>5, <1>6, <1>7 DEF m

\* An extension (execute_request, RequestKind::Extension).
LEMMA Extended ==
  ASSUME NEW g, NEW got, GrantOK(g, got), NEW c, Prefix(g.milestones, c),
         NEW change, change.kind = "Extension", change.new_due_dates \in Seq(Nat),
         validate_change(g, change)
  PROVE  ChangeKept(g, Changed(g, change), c, change, got)
  <1> DEFINE h == Changed(g, change)
             rest == SubSeq(g.milestones, c + 1, Len(g.milestones))
             tail == Moved(rest, change.new_due_dates)
             new == SubSeq(g.milestones, 1, c) \o tail
  <1>1. g \in GrantState /\ g.milestones \in Seq(ScheduledMilestone)
    BY DEF GrantOK, GrantState
  <1>2. confirmed_count(g) = c /\ Pending(g) = rest
    BY <1>1, PrefixCounted
  <1>3. /\ rest \in Seq(ScheduledMilestone)
        /\ \A k \in 1 .. Len(rest) : ~rest[k].claimed /\ ~rest[k].confirmed
        /\ SubSeq(current_schedule(g), c + 1, Len(current_schedule(g))) = Terms(rest)
        /\ SubSeq(g.milestones, 1, c) \in Seq(ScheduledMilestone)
    BY <1>1, RestFacts
  <1>4. h = [g EXCEPT !.milestones = new, !.amendments = @ + 1, !.status = "Extended"]
    BY <1>2 DEF Changed, Moved
  <1>5. Len(change.new_due_dates) = Len(rest)
    BY <1>2 DEF validate_change
  <1> HIDE DEF rest
  <1>6. /\ tail \in Seq(ScheduledMilestone)
        /\ \A k \in 1 .. Len(tail) : ~tail[k].claimed /\ ~tail[k].confirmed
        /\ TermSum(tail) = TermSum(rest)
        /\ Terms(tail) = Moved(Terms(rest), change.new_due_dates)
    BY <1>3, <1>5, MovedFacts
  <1> HIDE DEF tail
  <1>7. new \in Seq(ScheduledMilestone)
    BY <1>3, <1>6
  <1> HIDE DEF new
  <1>8. h = Books(new, g.claimable, g.pending_refund, g.refunded, g.amendments + 1, "Extended")
    <2>1. g = Books(g.milestones, g.claimable, g.pending_refund, g.refunded, g.amendments, g.status)
      BY <1>1, BooksFacts
    <2> HIDE DEF h
    <2> QED  BY <1>4, <2>1 DEF Books
  <1> HIDE DEF h
  <1>9. /\ h \in GrantState /\ h.milestones = new /\ h.status = "Extended"
        /\ h.claimable = g.claimable /\ h.refunded = g.refunded /\ h.pending_refund = g.pending_refund
    <2>1. "Extended" \in GrantStatuses
      BY DEF GrantStatuses, OpenStatuses
    <2>2. g.amendments + 1 \in Nat
      BY <1>1, BooksFacts
    <2>3. h \in GrantState
      BY <1>1, <1>7, <1>8, <2>1, <2>2, BooksFacts
    <2> QED  BY <1>8, <2>3 DEF Books
  <1>10. SplicedAt(g, h, c, tail)
    BY <1>1, <1>6, <1>9 DEF SplicedAt, new
  <1>11. /\ GrantOK(h, got)
         /\ h.pending_refund - g.pending_refund = TermSum(g.milestones) - TermSum(h.milestones)
    <2>1. /\ \A k \in 1 .. Len(tail) : ~tail[k].confirmed
          /\ h.claimable = g.claimable
          /\ h.status = "Terminated" => tail = <<>>
      BY <1>6, <1>9
    <2>2. h.status \in {"Amended", "Extended", "Terminated"}
      BY <1>9
    <2>3. TermSum(rest) \in Int
      BY <1>10, Spliced DEF rest
    <2>4. h.pending_refund = g.pending_refund + TermSum(rest) - TermSum(tail)
      BY <1>1, <1>6, <1>9, <2>3, BooksFacts
    <2>5. h.pending_refund = g.pending_refund
            + TermSum(SubSeq(g.milestones, c + 1, Len(g.milestones))) - TermSum(tail)
      BY <2>4 DEF rest
    <2> QED  BY <1>9, <1>10, <2>1, <2>2, <2>5, SpliceKept
  <1>12. ASSUME NEW rec, rec.change = change, rec.confirmed = c, rec.old_schedule = current_schedule(g)
         PROVE  current_schedule(h) = Requested(rec)
    <2>1. current_schedule(h) = Rescheduled(g, c, Moved(Terms(rest), change.new_due_dates))
      BY <1>6, <1>10, TermsSpliced
    <2>2. Requested(rec) = Rescheduled(g, c,
            Moved(SubSeq(current_schedule(g), c + 1, Len(current_schedule(g))), change.new_due_dates))
      BY <1>12 DEF Requested, Rescheduled, Moved
    <2> QED  BY <1>3, <2>1, <2>2
  <1> QED  BY <1>11, <1>12 DEF ChangeKept, h

\* The amounts of an empty schedule and of a schedule of one milestone.
LEMMA TermSumShort ==
  /\ TermSum(<<>>) = 0
  /\ \A m \in ScheduledMilestone : TermSum(<<m>>) = m.amount
  <1>1. TermSum(<<>>) = 0
    <2>1. DOMAIN <<>> = {}
      OBVIOUS
    <2> QED  BY <2>1, SumEmpty DEF TermSum
  <1>2. ASSUME NEW m \in ScheduledMilestone  PROVE TermSum(<<m>>) = m.amount
    <2> DEFINE A == Amounts(<<m>>)
    <2>1. DOMAIN <<m>> = {1} /\ A[1] = m.amount /\ m.amount \in Int
      BY DEF Amounts, ScheduledMilestone
    <2>2. TermSum(<<m>>) = SumOver(A, {1})
      BY <2>1 DEF TermSum
    <2> HIDE DEF A
    <2>3. IsFiniteSet({1}) /\ 1 \in {1} /\ \A y \in {1} \ {1} : A[y] = 0
      BY FS_Singleton
    <2>4. SumOver(A, {1}) = A[1]
      BY <2>1, <2>3, SumSingle
    <2> QED  BY <2>1, <2>2, <2>4
  <1> QED  BY <1>1, <1>2

\* What is left of the milestones after the confirmed ones, the first being first.
Credited(first, earned) ==
  IF earned > 0 THEN <<[first EXCEPT !.amount = earned, !.confirmed = TRUE]>> ELSE <<>>

\* A credit for the next milestone, and its terms.
LEMMA CreditFacts ==
  ASSUME NEW first \in ScheduledMilestone, ~first.claimed, NEW earned \in Nat
  PROVE  LET tail == Credited(first, earned)
             term == [amount |-> first.amount, due |-> first.due]
         IN /\ tail \in Seq(ScheduledMilestone) /\ \A k \in 1 .. Len(tail) : ~tail[k].claimed
            /\ TermSum(tail) = earned
            /\ Terms(tail) = IF earned > 0 THEN <<[term EXCEPT !.amount = earned]>> ELSE <<>>
            /\ \/ tail = <<>> /\ earned = 0
               \/ \E m \in ScheduledMilestone : tail = <<m>> /\ m.confirmed /\ m.amount = earned
  <1> DEFINE m == [first EXCEPT !.amount = earned, !.confirmed = TRUE]
             term == [amount |-> first.amount, due |-> first.due]
             tail == Credited(first, earned)
  <1>1. m \in ScheduledMilestone /\ m.confirmed /\ ~m.claimed /\ m.amount = earned /\ m.due = first.due
    BY DEF ScheduledMilestone
  <1>2. [term EXCEPT !.amount = earned] = [amount |-> earned, due |-> first.due]
    OBVIOUS
  <1> HIDE DEF m
  <1>3. CASE earned > 0
    <2>1. tail = <<m>>
      BY <1>3 DEF Credited, m
    <2>2. <<m>> \in Seq(ScheduledMilestone) /\ Len(<<m>>) = 1 /\ <<m>>[1] = m
      BY <1>1
    <2>3. TermSum(<<m>>) = earned
      BY <1>1, TermSumShort
    <2>4. Terms(<<m>>) = <<[amount |-> earned, due |-> first.due]>>
      BY <1>1 DEF Terms
    <2>5. \A k \in 1 .. Len(<<m>>) : ~<<m>>[k].claimed
      <3> SUFFICES ASSUME NEW k \in 1 .. 1  PROVE ~<<m>>[k].claimed
        BY <2>2
      <3>1. k = 1
        OBVIOUS
      <3> QED  BY <1>1, <2>2, <3>1
    <2> HIDE DEF tail, term
    <2>6. Terms(tail) = IF earned > 0 THEN <<[term EXCEPT !.amount = earned]>> ELSE <<>>
      BY <1>2, <1>3, <2>1, <2>4
    <2>7. tail \in Seq(ScheduledMilestone) /\ \A k \in 1 .. Len(tail) : ~tail[k].claimed
      BY <2>1, <2>2, <2>5
    <2> QED  BY <1>1, <2>1, <2>3, <2>6, <2>7 DEF tail, term
  <1>4. CASE ~(earned > 0)
    <2>1. tail = <<>> /\ earned = 0
      BY <1>4 DEF Credited
    <2>2. TermSum(<<>>) = 0
      BY TermSumShort
    <2>3. Terms(<<>>) = <<>>
      BY DEF Terms
    <2>4. <<>> \in Seq(ScheduledMilestone) /\ Len(<<>>) = 0
      OBVIOUS
    <2> HIDE DEF tail, term
    <2>5. tail \in Seq(ScheduledMilestone) /\ \A k \in 1 .. Len(tail) : ~tail[k].claimed
      BY <2>1, <2>4
    <2> QED  BY <1>4, <2>1, <2>2, <2>3, <2>5 DEF tail, term
  <1> QED  BY <1>3, <1>4

\* A termination (execute_request, RequestKind::Termination).
LEMMA Terminated ==
  ASSUME NEW g, NEW got, GrantOK(g, got), NEW c, Prefix(g.milestones, c),
         NEW change, change.kind = "Termination", change.earned_bps \in Int,
         validate_change(g, change)
  PROVE  ChangeKept(g, Changed(g, change), c, change, got)
  <1> DEFINE h == Changed(g, change)
             rest == SubSeq(g.milestones, c + 1, Len(g.milestones))
             first == rest[1]
             earned == (first.amount * change.earned_bps) \div BPS_DENOM
             tail == Credited(first, earned)
             new == SubSeq(g.milestones, 1, c) \o tail
  <1>1. g \in GrantState /\ g.milestones \in Seq(ScheduledMilestone)
    BY DEF GrantOK, GrantState
  <1>2. confirmed_count(g) = c /\ Pending(g) = rest
    BY <1>1, PrefixCounted
  <1>3. /\ rest \in Seq(ScheduledMilestone) /\ Len(rest) \in Nat
        /\ \A k \in 1 .. Len(rest) : ~rest[k].claimed /\ ~rest[k].confirmed
        /\ SubSeq(current_schedule(g), c + 1, Len(current_schedule(g))) = Terms(rest)
        /\ SubSeq(g.milestones, 1, c) \in Seq(ScheduledMilestone)
    BY <1>1, RestFacts
  <1>4. rest # <<>> /\ change.earned_bps \in 0 .. BPS_DENOM
    BY <1>2 DEF validate_change
  <1>5. h = [g EXCEPT !.milestones = new, !.claimable = @ + earned, !.status = "Terminated",
                      !.pending_refund = @ + TermSum(rest) - earned]
    <2>1. Head(rest) = first
      <3> HIDE DEF rest
      <3> QED  BY <1>3
    <2>2. h = LET e == (Head(rest).amount * change.earned_bps) \div BPS_DENOM
                  credit == [Head(rest) EXCEPT !.amount = e, !.confirmed = TRUE]
              IN [g EXCEPT !.milestones = SubSeq(g.milestones, 1, c) \o (IF e > 0 THEN <<credit>> ELSE <<>>),
                           !.claimable = @ + e, !.status = "Terminated",
                           !.pending_refund = @ + TermSum(rest) - e]
      BY <1>2 DEF Changed, Earned
    <2> HIDE DEF h, rest
    <2> QED  BY <2>1, <2>2 DEF Credited
  <1> HIDE DEF rest
  <1>6. 1 \in 1 .. Len(rest) /\ first \in ScheduledMilestone /\ ~first.claimed /\ first.amount \in Nat
    <2>1. 1 \in 1 .. Len(rest)
      BY <1>3, <1>4
    <2>2. first \in ScheduledMilestone
      BY <1>3, <2>1
    <2> QED  BY <1>3, <2>1, <2>2 DEF ScheduledMilestone
  <1>7. earned \in Nat
    <2>1. BPS_DENOM \in Nat \ {0} /\ change.earned_bps \in Nat
      BY <1>4, LifecycleConstants
    <2>2. first.amount * change.earned_bps \in Nat
      BY <1>6, <2>1
    <2> HIDE DEF first
    <2> QED  BY <2>1, <2>2, RoundedDown
  <1> DEFINE term == [amount |-> first.amount, due |-> first.due]
             asked == IF earned > 0 THEN <<[term EXCEPT !.amount = earned]>> ELSE <<>>
  <1>8. Terms(rest)[1] = term /\ Len(Terms(rest)) = Len(rest)
    BY <1>3, <1>6, TermsKept
  <1>9. ASSUME NEW rec, rec.change = change, rec.confirmed = c, rec.old_schedule = current_schedule(g)
        PROVE  Requested(rec) = Rescheduled(g, c, asked)
    <2> DEFINE R == SubSeq(current_schedule(g), c + 1, Len(current_schedule(g)))
    <2>1. Head(R) = term
      <3>1. R = Terms(rest)
        BY <1>3
      <3>2. Terms(rest) \in Seq(Term)
        BY <1>3, TermsKept
      <3> HIDE DEF R, term
      <3> QED  BY <1>8, <3>1, <3>2
    <2>2. term.amount = first.amount
      OBVIOUS
    <2> HIDE DEF term, first
    <2>3. (Head(R).amount * change.earned_bps) \div BPS_DENOM = earned
      BY <2>1, <2>2
    <2>4. Requested(rec) = SubSeq(current_schedule(g), 1, c) \o asked
      BY <1>9, <2>1, <2>3 DEF Requested
    <2> QED  BY <2>4 DEF Rescheduled
  <1> HIDE DEF first, earned, term
  <1>10. /\ tail \in Seq(ScheduledMilestone) /\ \A k \in 1 .. Len(tail) : ~tail[k].claimed
         /\ TermSum(tail) = earned
         /\ Terms(tail) = asked
         /\ \/ tail = <<>> /\ earned = 0
            \/ \E m \in ScheduledMilestone : tail = <<m>> /\ m.confirmed /\ m.amount = earned
    BY <1>6, <1>7, CreditFacts DEF term
  <1> HIDE DEF tail, asked
  <1>11. new \in Seq(ScheduledMilestone)
    BY <1>3, <1>10
  <1>12. TermSum(rest) \in Int
    <2> DEFINE x == [g EXCEPT !.milestones = new]
    <2>1. x.milestones = new
      BY <1>1 DEF GrantState
    <2> HIDE DEF x
    <2>2. SplicedAt(g, x, c, tail)
      BY <1>1, <1>10, <2>1 DEF SplicedAt
    <2> QED  BY <2>2, Spliced DEF rest
  <1> HIDE DEF new
  <1>13. PICK toClaim \in Int, refund \in Int :
           toClaim = g.claimable + earned /\ refund = g.pending_refund + TermSum(rest) - earned
    BY <1>1, <1>7, <1>12, BooksFacts
  <1>14. h = Books(new, toClaim, refund, g.refunded, g.amendments, "Terminated")
    <2>1. g = Books(g.milestones, g.claimable, g.pending_refund, g.refunded, g.amendments, g.status)
      BY <1>1, BooksFacts
    <2>2. h = [g EXCEPT !.milestones = new, !.claimable = toClaim, !.status = "Terminated", !.pending_refund = refund]
      BY <1>5, <1>13
    <2> HIDE DEF h
    <2> QED  BY <2>1, <2>2 DEF Books
  <1> HIDE DEF h
  <1>15. /\ h \in GrantState /\ h.milestones = new /\ h.status = "Terminated"
         /\ h.claimable = toClaim /\ h.refunded = g.refunded /\ h.pending_refund = refund
    <2>1. "Terminated" \in GrantStatuses
      BY DEF GrantStatuses
    <2>2. h \in GrantState
      BY <1>1, <1>11, <1>13, <1>14, <2>1, BooksFacts
    <2> QED  BY <1>14, <2>2 DEF Books
  <1>16. SplicedAt(g, h, c, tail)
    BY <1>1, <1>10, <1>15 DEF SplicedAt, new
  <1>17. /\ GrantOK(h, got)
         /\ h.pending_refund - g.pending_refund = TermSum(g.milestones) - TermSum(h.milestones)
    <2>1. \/ /\ \A k \in 1 .. Len(tail) : ~tail[k].confirmed
             /\ h.claimable = g.claimable
             /\ h.status = "Terminated" => tail = <<>>
          \/ \E m \in ScheduledMilestone : tail = <<m>> /\ m.confirmed /\ h.claimable = g.claimable + m.amount
      <3>1. CASE tail = <<>> /\ earned = 0
        <4>1. h.claimable = g.claimable
          BY <1>1, <1>13, <1>15, <3>1, BooksFacts
        <4>2. Len(tail) = 0
          BY <3>1
        <4> QED  BY <3>1, <4>1, <4>2
      <3>2. CASE \E m \in ScheduledMilestone : tail = <<m>> /\ m.confirmed /\ m.amount = earned
        BY <1>13, <1>15, <3>2
      <3> QED  BY <1>10, <3>1, <3>2
    <2>2. h.status \in {"Amended", "Extended", "Terminated"}
      BY <1>15
    <2>3. h.pending_refund = g.pending_refund + TermSum(rest) - TermSum(tail)
      BY <1>10, <1>13, <1>15
    <2>4. h.pending_refund = g.pending_refund
            + TermSum(SubSeq(g.milestones, c + 1, Len(g.milestones))) - TermSum(tail)
      BY <2>3 DEF rest
    <2> QED  BY <1>15, <1>16, <2>1, <2>2, <2>4, SpliceKept
  <1>18. current_schedule(h) = Rescheduled(g, c, asked)
    BY <1>10, <1>16, TermsSpliced
  <1> QED  BY <1>9, <1>17, <1>18 DEF ChangeKept, h

\* ScheduledMilestone lists that differ in what happened to the milestones only.
LEMMA SameTerms ==
  ASSUME NEW ms \in Seq(ScheduledMilestone), NEW hs \in Seq(ScheduledMilestone), Len(hs) = Len(ms),
         \A k \in 1 .. Len(ms) : hs[k].amount = ms[k].amount /\ hs[k].due = ms[k].due
  PROVE  Amounts(hs) = Amounts(ms) /\ Terms(hs) = Terms(ms) /\ TermSum(hs) = TermSum(ms)
  <1>1. DOMAIN hs = 1 .. Len(ms) /\ DOMAIN ms = 1 .. Len(ms)
    OBVIOUS
  <1>2. Amounts(hs) = Amounts(ms)
    BY <1>1 DEF Amounts
  <1>3. Terms(hs) = Terms(ms)
    BY <1>1 DEF Terms
  <1> QED  BY <1>1, <1>2, <1>3 DEF TermSum

\* Sums over claimed and claimable milestones are sums of integers over finite sets.
LEMMA ClaimSums ==
  ASSUME NEW g, g.milestones \in Seq(ScheduledMilestone)
  PROVE  LET A == Amounts(g.milestones)
             n == Len(g.milestones)
         IN /\ IsFiniteSet(1 .. n) /\ \A k \in 1 .. n : A[k] \in Int
            /\ ClaimedOf(g) \subseteq 1 .. n /\ IsFiniteSet(ClaimedOf(g)) /\ SumOver(A, ClaimedOf(g)) \in Int
            /\ ClaimableOf(g) \subseteq 1 .. n /\ IsFiniteSet(ClaimableOf(g)) /\ SumOver(A, ClaimableOf(g)) \in Int
            /\ TermSum(g.milestones) = SumOver(A, 1 .. n)
            /\ ClaimedOf(g) \cap ClaimableOf(g) = {}
  <1> DEFINE A == Amounts(g.milestones)
  <1>1. PICK n \in Nat : n = Len(g.milestones)
    OBVIOUS
  <1>2. DOMAIN g.milestones = 1 .. n /\ \A k \in 1 .. n : g.milestones[k] \in ScheduledMilestone
    BY <1>1
  <1>3. IsFiniteSet(1 .. n)
    BY <1>1, FS_Interval
  <1>4. \A k \in 1 .. n : A[k] \in Int
    <2>1. \A m \in ScheduledMilestone : m.amount \in Int
      BY DEF ScheduledMilestone
    <2>2. \A k \in 1 .. n : A[k] = g.milestones[k].amount
      BY <1>2 DEF Amounts
    <2> QED  BY <1>2, <2>1, <2>2
  <1>5. ClaimedOf(g) \subseteq 1 .. n /\ ClaimableOf(g) \subseteq 1 .. n /\ ClaimedOf(g) \cap ClaimableOf(g) = {}
    BY <1>2 DEF ClaimedOf, ClaimableOf
  <1>6. TermSum(g.milestones) = SumOver(A, 1 .. n)
    BY <1>2 DEF TermSum
  <1>7. IsFiniteSet(ClaimedOf(g)) /\ IsFiniteSet(ClaimableOf(g))
    BY <1>3, <1>5, FS_Subset
  <1>8. (\A k \in ClaimedOf(g) : A[k] \in Int) /\ (\A k \in ClaimableOf(g) : A[k] \in Int)
    BY <1>4, <1>5
  <1> HIDE DEF A
  <1>9. SumOver(A, ClaimedOf(g)) \in Int
    BY <1>7, <1>8, SumInt
  <1>10. SumOver(A, ClaimableOf(g)) \in Int
    BY <1>7, <1>8, SumInt
  <1> QED  BY <1>1, <1>3, <1>4, <1>5, <1>6, <1>7, <1>9, <1>10 DEF A

\* The claimed and the claimable milestones together.
LEMMA ClaimsAddUp ==
  ASSUME NEW g, g.milestones \in Seq(ScheduledMilestone)
  PROVE  SumOver(Amounts(g.milestones), ClaimedOf(g)) + SumOver(Amounts(g.milestones), ClaimableOf(g))
           = SumOver(Amounts(g.milestones), ClaimedOf(g) \cup ClaimableOf(g))
  <1> DEFINE A == Amounts(g.milestones)
             S == ClaimedOf(g) \cup ClaimableOf(g)
  <1>1. /\ IsFiniteSet(ClaimedOf(g)) /\ IsFiniteSet(ClaimableOf(g)) /\ ClaimedOf(g) \cap ClaimableOf(g) = {}
        /\ \A k \in S : A[k] \in Int
    BY ClaimSums
  <1>2. IsFiniteSet(S)
    BY <1>1, FS_Union
  <1>3. S \ ClaimedOf(g) = ClaimableOf(g) /\ ClaimedOf(g) \in SUBSET S
    BY <1>1
  <1> HIDE DEF A, S
  <1>4. SumOver(A, S) = SumOver(A, ClaimedOf(g)) + SumOver(A, S \ ClaimedOf(g))
    BY <1>1, <1>2, <1>3, SumSplit
  <1> QED  BY <1>3, <1>4 DEF A, S

\* The confirmed milestones are the claimed and the claimable ones.
LEMMA ConfirmedAre ==
  ASSUME NEW g, g.milestones \in Seq(ScheduledMilestone), NEW c, Prefix(g.milestones, c)
  PROVE  ClaimedOf(g) \cup ClaimableOf(g) = 1 .. c
  <1>1. PICK ms \in Seq(ScheduledMilestone) : ms = g.milestones
    OBVIOUS
  <1>2. /\ c \in 0 .. Len(ms) /\ DOMAIN ms = 1 .. Len(ms) /\ Len(ms) \in Nat
        /\ \A k \in 1 .. Len(ms) : (ms[k].confirmed <=> k <= c) /\ (ms[k].claimed => ms[k].confirmed)
    BY <1>1 DEF Prefix
  <1>3. 1 .. c = {k \in 1 .. Len(ms) : k <= c}
    BY <1>2
  <1>4. /\ ClaimedOf(g) = {k \in 1 .. Len(ms) : ms[k].claimed}
        /\ ClaimableOf(g) = {k \in 1 .. Len(ms) : ms[k].confirmed /\ ~ms[k].claimed}
    BY <1>1, <1>2 DEF ClaimedOf, ClaimableOf
  <1> QED  BY <1>2, <1>3, <1>4

\* When a closed grant owes nothing, all of the award was paid or refunded.
LEMMA ClosedIsEven ==
  ASSUME NEW g, NEW got, GrantOK(g, got), g.status = "Closed"
  PROVE  got + g.refunded = Award
  <1>1. /\ g.milestones \in Seq(ScheduledMilestone) /\ g.claimable = 0 /\ g.pending_refund = 0 /\ g.refunded \in Int
        /\ TermSum(g.milestones) + g.pending_refund + g.refunded = Award
        /\ got = SumOver(Amounts(g.milestones), ClaimedOf(g))
        /\ g.claimable = SumOver(Amounts(g.milestones), ClaimableOf(g))
        /\ \A k \in 1 .. Len(g.milestones) : g.milestones[k].confirmed
    BY DEF GrantOK, GrantState
  <1>2. PICK c \in Nat : Prefix(g.milestones, c)
    BY DEF GrantOK
  <1>3. c = Len(g.milestones)
    <2>1. c \in 0 .. Len(g.milestones) /\ Len(g.milestones) \in Nat
          /\ \A k \in 1 .. Len(g.milestones) : k <= c
      BY <1>1, <1>2 DEF Prefix
    <2> QED  BY <2>1
  <1>4. TermSum(g.milestones) = SumOver(Amounts(g.milestones), ClaimedOf(g) \cup ClaimableOf(g))
    BY <1>1, <1>2, <1>3, ConfirmedAre, ClaimSums
  <1>5. TermSum(g.milestones) = got + 0
    BY <1>1, <1>4, ClaimsAddUp
  <1>6. got \in Int
    BY <1>1, ClaimSums
  <1> QED  BY <1>1, <1>5, <1>6

\* A milestone once it is confirmed.
LEMMA ConfirmedOne ==
  \A m \in ScheduledMilestone :
    LET x == [m EXCEPT !.confirmed = TRUE]
    IN  x \in ScheduledMilestone /\ x.confirmed /\ x.claimed = m.claimed /\ x.amount = m.amount /\ x.due = m.due /\ m.amount \in Int
  <1> SUFFICES ASSUME NEW m \in ScheduledMilestone
               PROVE  LET x == [m EXCEPT !.confirmed = TRUE]
                      IN  /\ x \in ScheduledMilestone /\ x.confirmed /\ x.claimed = m.claimed
                          /\ x.amount = m.amount /\ x.due = m.due /\ m.amount \in Int
    OBVIOUS
  <1> DEFINE x == [m EXCEPT !.confirmed = TRUE]
  <1>1. m.amount \in Nat /\ m.due \in Nat /\ m.claimed \in BOOLEAN
    BY DEF ScheduledMilestone
  <1>2. x.confirmed = TRUE /\ x.amount = m.amount /\ x.due = m.due /\ x.claimed = m.claimed
    BY DEF ScheduledMilestone
  <1>3. x \in ScheduledMilestone
    BY DEF ScheduledMilestone
  <1> QED  BY <1>1, <1>2, <1>3

\* h is g with the next milestone, its k-th, confirmed.
ConfirmedNext(g, h, k) ==
  /\ g.status \notin {"Terminated", "Closed"}
  /\ k = confirmed_count(g) + 1 /\ k <= Len(g.milestones)
  /\ h = [g EXCEPT !.milestones[k].confirmed = TRUE, !.claimable = @ + g.milestones[k].amount]

\* A confirmation of the next milestone (confirm_milestone).
LEMMA ConfirmKept ==
  ASSUME NEW g, NEW got, GrantOK(g, got), NEW k, NEW h, ConfirmedNext(g, h, k)
  PROVE  GrantOK(h, got) /\ current_schedule(h) = current_schedule(g)
  <1>1. /\ g \in GrantState /\ g.milestones \in Seq(ScheduledMilestone) /\ g.claimable \in Int
        /\ TermSum(g.milestones) + g.pending_refund + g.refunded = Award
        /\ got = SumOver(Amounts(g.milestones), ClaimedOf(g))
        /\ g.claimable = SumOver(Amounts(g.milestones), ClaimableOf(g))
    BY DEF GrantOK, GrantState
  <1>2. PICK c \in Nat : Prefix(g.milestones, c)
    BY DEF GrantOK
  <1>3. k = c + 1 /\ k <= Len(g.milestones)
    BY <1>1, <1>2, PrefixCounted DEF ConfirmedNext
  <1>4. PICK ms \in Seq(ScheduledMilestone) : ms = g.milestones
    BY <1>1
  <1>5. /\ Len(ms) \in Nat /\ c \in 0 .. Len(ms) /\ k \in 1 .. Len(ms) /\ DOMAIN ms = 1 .. Len(ms)
        /\ \A j \in 1 .. Len(ms) : (ms[j].confirmed <=> j <= c) /\ (ms[j].claimed => ms[j].confirmed)
    BY <1>2, <1>3, <1>4 DEF Prefix
  <1>6. PICK m \in ScheduledMilestone : m = ms[k] /\ ~m.confirmed /\ ~m.claimed
    <2>1. ms[k] \in ScheduledMilestone /\ ~(k <= c)
      BY <1>3, <1>5
    <2> QED  BY <1>5, <2>1
  <1> DEFINE x == [m EXCEPT !.confirmed = TRUE]
             hs == [ms EXCEPT ![k] = x]
  <1>7. x \in ScheduledMilestone /\ x.confirmed /\ ~x.claimed /\ x.amount = m.amount /\ x.due = m.due /\ m.amount \in Int
    BY <1>6, ConfirmedOne
  <1>8. PICK toClaim \in Int : toClaim = g.claimable + m.amount
    BY <1>1, <1>7
  <1>9. h = [g EXCEPT !.milestones = hs, !.claimable = toClaim]
    <2>1. h = [g EXCEPT !.milestones = [g.milestones EXCEPT ![k] = [g.milestones[k] EXCEPT !.confirmed = TRUE]],
                        !.claimable = g.claimable + g.milestones[k].amount]
      BY DEF ConfirmedNext
    <2> QED  BY <1>4, <1>6, <1>8, <2>1
  <1> HIDE DEF x
  <1>10. /\ hs \in Seq(ScheduledMilestone) /\ Len(hs) = Len(ms) /\ DOMAIN hs = 1 .. Len(ms)
         /\ hs[k] = x /\ \A j \in 1 .. Len(ms) : j # k => hs[j] = ms[j]
    BY <1>5, <1>7
  <1> HIDE DEF hs
  <1>11. h = Books(hs, toClaim, g.pending_refund, g.refunded, g.amendments, g.status)
    <2>1. g = Books(g.milestones, g.claimable, g.pending_refund, g.refunded, g.amendments, g.status)
      BY <1>1, BooksFacts
    <2> QED  BY <1>9, <2>1 DEF Books
  <1>12. /\ h \in GrantState /\ h.milestones = hs /\ h.claimable = toClaim /\ h.status = g.status
         /\ h.pending_refund = g.pending_refund /\ h.refunded = g.refunded
    <2>1. g.status \in GrantStatuses /\ g.pending_refund \in Int /\ g.refunded \in Int /\ g.amendments \in Nat
      BY <1>1 DEF GrantState
    <2>2. h \in GrantState
      BY <1>8, <1>10, <1>11, <2>1, BooksFacts
    <2> QED  BY <1>11, <2>2 DEF Books
  <1>13. Amounts(hs) = Amounts(ms) /\ Terms(hs) = Terms(ms) /\ TermSum(hs) = TermSum(ms)
    <2>1. \A j \in 1 .. Len(ms) : hs[j].amount = ms[j].amount /\ hs[j].due = ms[j].due
      BY <1>6, <1>7, <1>10
    <2> QED  BY <1>10, <2>1, SameTerms
  <1>14. current_schedule(h) = current_schedule(g)
    BY <1>4, <1>12, <1>13 DEF current_schedule, Terms
  <1>15. Prefix(hs, k)
    <2>1. ASSUME NEW j \in 1 .. Len(ms)
          PROVE  (hs[j].confirmed <=> j <= k) /\ (hs[j].claimed => hs[j].confirmed)
      <3>1. CASE j = k
        <4>1. hs[j] = x /\ j <= k
          BY <1>5, <1>10, <3>1
        <4> QED  BY <1>7, <4>1
      <3>2. CASE j # k
        <4>1. hs[j] = ms[j]
          BY <1>10, <3>2
        <4>2. (j <= c) <=> (j <= k)
          BY <1>3, <1>5, <3>2
        <4> QED  BY <1>5, <4>1, <4>2
      <3> QED  BY <3>1, <3>2
    <2>2. k \in 0 .. Len(hs)
      BY <1>5, <1>10
    <2> QED  BY <1>10, <2>1, <2>2 DEF Prefix
  <1>16. ClaimedOf(h) = ClaimedOf(g)
    <2>1. ClaimedOf(h) = {j \in 1 .. Len(ms) : hs[j].claimed} /\ ClaimedOf(g) = {j \in 1 .. Len(ms) : ms[j].claimed}
      BY <1>4, <1>5, <1>10, <1>12 DEF ClaimedOf
    <2>2. ~hs[k].claimed /\ ~ms[k].claimed
      BY <1>6, <1>7, <1>10
    <2> QED  BY <1>10, <2>1, <2>2
  <1>17. k \notin ClaimableOf(g) /\ ClaimableOf(h) = ClaimableOf(g) \cup {k}
    <2>1. /\ ClaimableOf(h) = {j \in 1 .. Len(ms) : hs[j].confirmed /\ ~hs[j].claimed}
          /\ ClaimableOf(g) = {j \in 1 .. Len(ms) : ms[j].confirmed /\ ~ms[j].claimed}
      BY <1>4, <1>5, <1>10, <1>12 DEF ClaimableOf
    <2>2. hs[k].confirmed /\ ~hs[k].claimed /\ ~ms[k].confirmed
      BY <1>6, <1>7, <1>10
    <2> QED  BY <1>5, <1>10, <2>1, <2>2
  <1>18. toClaim = SumOver(Amounts(hs), ClaimableOf(h))
    <2> DEFINE A == Amounts(hs)
    <2>1. PICK S : S = ClaimableOf(h)
      OBVIOUS
    <2>2. IsFiniteSet(S) /\ k \in S /\ S \ {k} = ClaimableOf(g) /\ \A j \in S : A[j] \in Int
      <3>1. h.milestones \in Seq(ScheduledMilestone)
        BY <1>10, <1>12
      <3>2. IsFiniteSet(ClaimableOf(h)) /\ ClaimableOf(h) \subseteq 1 .. Len(hs) /\ \A j \in 1 .. Len(hs) : A[j] \in Int
        BY <1>12, <3>1, ClaimSums
      <3> QED  BY <1>17, <2>1, <3>2
    <2>3. A[k] = m.amount
      BY <1>7, <1>10, <1>5 DEF Amounts
    <2>4. A = Amounts(g.milestones)
      BY <1>4, <1>13
    <2> HIDE DEF A
    <2>5. SumOver(A, S) = A[k] + SumOver(A, S \ {k})
      BY <2>2, SumRemove
    <2>6. SumOver(A, S) = m.amount + g.claimable
      BY <1>1, <2>2, <2>3, <2>4, <2>5
    <2>7. toClaim = SumOver(A, S)
      BY <1>1, <1>7, <1>8, <2>6
    <2> QED  BY <2>1, <2>7 DEF A
  <1>19. k \in Nat
    BY <1>3
  <1>20. GrantOK(h, got)
    <2>1. /\ TermSum(h.milestones) = TermSum(g.milestones) /\ Amounts(h.milestones) = Amounts(g.milestones)
          /\ Prefix(h.milestones, k)
          /\ h.claimable = SumOver(Amounts(h.milestones), ClaimableOf(h))
      BY <1>4, <1>12, <1>13, <1>15, <1>18
    <2>2. TermSum(h.milestones) + h.pending_refund + h.refunded = Award
      BY <1>1, <1>12, <2>1
    <2>3. got = SumOver(Amounts(h.milestones), ClaimedOf(h))
      BY <1>1, <1>16, <2>1
    <2>4. h.status \notin {"Terminated", "Closed"}
      BY <1>12 DEF ConfirmedNext
    <2> QED  BY <1>12, <1>19, <2>1, <2>2, <2>3, <2>4 DEF GrantOK
  <1> QED  BY <1>14, <1>20

\* h is g once what was claimable is paid.
ClaimedAll(g, h) ==
  h = [g EXCEPT !.claimable = 0,
                !.milestones = [k \in DOMAIN g.milestones |->
                   [g.milestones[k] EXCEPT !.claimed = g.milestones[k].confirmed]]]

\* A claim: every confirmed milestone is claimed after it.
LEMMA ClaimKept ==
  ASSUME NEW g, NEW got, GrantOK(g, got), g.claimable > 0, NEW h, ClaimedAll(g, h)
  PROVE  GrantOK(h, got + g.claimable) /\ current_schedule(h) = current_schedule(g)
  <1>1. /\ g \in GrantState /\ g.milestones \in Seq(ScheduledMilestone) /\ g.claimable \in Int
        /\ TermSum(g.milestones) + g.pending_refund + g.refunded = Award
        /\ got = SumOver(Amounts(g.milestones), ClaimedOf(g))
        /\ g.claimable = SumOver(Amounts(g.milestones), ClaimableOf(g))
        /\ g.status # "Closed"
    BY DEF GrantOK, GrantState
  <1>2. PICK c \in Nat : Prefix(g.milestones, c)
    BY DEF GrantOK
  <1>3. PICK ms \in Seq(ScheduledMilestone) : ms = g.milestones
    BY <1>1
  <1>4. /\ Len(ms) \in Nat /\ c \in 0 .. Len(ms) /\ DOMAIN ms = 1 .. Len(ms)
        /\ \A j \in 1 .. Len(ms) : (ms[j].confirmed <=> j <= c) /\ ms[j] \in ScheduledMilestone
    BY <1>2, <1>3 DEF Prefix
  <1> DEFINE PaidOff(m) == [m EXCEPT !.claimed = m.confirmed]
             hs == [k \in 1 .. Len(ms) |-> PaidOff(ms[k])]
  <1>5. \A m \in ScheduledMilestone : /\ PaidOff(m) \in ScheduledMilestone /\ PaidOff(m).claimed = m.confirmed
                                      /\ PaidOff(m).confirmed = m.confirmed
                                      /\ PaidOff(m).amount = m.amount /\ PaidOff(m).due = m.due
    BY DEF ScheduledMilestone
  <1>6. h = [g EXCEPT !.claimable = 0, !.milestones = hs]
    BY <1>3, <1>4 DEF ClaimedAll
  <1> HIDE DEF PaidOff
  <1>7. hs \in [1 .. Len(ms) -> ScheduledMilestone] /\ \A k \in 1 .. Len(ms) : hs[k] = PaidOff(ms[k])
    BY <1>4, <1>5
  <1> HIDE DEF hs
  <1>8. /\ hs \in Seq(ScheduledMilestone) /\ Len(hs) = Len(ms) /\ DOMAIN hs = 1 .. Len(ms)
    BY <1>4, <1>7
  <1>9. \A j \in 1 .. Len(ms) : /\ hs[j].amount = ms[j].amount /\ hs[j].due = ms[j].due
                                /\ hs[j].confirmed = ms[j].confirmed /\ hs[j].claimed = ms[j].confirmed
    BY <1>4, <1>5, <1>7
  <1>10. h = Books(hs, 0, g.pending_refund, g.refunded, g.amendments, g.status)
    <2>1. g = Books(g.milestones, g.claimable, g.pending_refund, g.refunded, g.amendments, g.status)
      BY <1>1, BooksFacts
    <2> QED  BY <1>6, <2>1 DEF Books
  <1>11. /\ h \in GrantState /\ h.milestones = hs /\ h.claimable = 0 /\ h.status = g.status
         /\ h.pending_refund = g.pending_refund /\ h.refunded = g.refunded
    <2>1. /\ g.status \in GrantStatuses /\ g.pending_refund \in Int /\ g.refunded \in Int /\ g.amendments \in Nat
          /\ 0 \in Int
      BY <1>1 DEF GrantState
    <2>2. h \in GrantState
      BY <1>8, <1>10, <2>1, BooksFacts
    <2> QED  BY <1>10, <2>2 DEF Books
  <1>12. Amounts(hs) = Amounts(ms) /\ Terms(hs) = Terms(ms) /\ TermSum(hs) = TermSum(ms)
    <2>1. \A j \in 1 .. Len(ms) : hs[j].amount = ms[j].amount /\ hs[j].due = ms[j].due
      BY <1>9
    <2> QED  BY <1>8, <2>1, SameTerms
  <1>13. current_schedule(h) = current_schedule(g)
    BY <1>3, <1>11, <1>12 DEF current_schedule, Terms
  <1>14. Prefix(hs, c)
    BY <1>4, <1>8, <1>9 DEF Prefix
  <1>15. ClaimableOf(h) = {}
    <2>1. ClaimableOf(h) = {j \in 1 .. Len(ms) : hs[j].confirmed /\ ~hs[j].claimed}
      BY <1>8, <1>11 DEF ClaimableOf
    <2> QED  BY <1>9, <2>1
  <1>16. ClaimedOf(h) = ClaimedOf(g) \cup ClaimableOf(g)
    <2>1. ClaimedOf(h) \cup ClaimableOf(h) = 1 .. c
      BY <1>8, <1>11, <1>14, ConfirmedAre
    <2>2. ClaimedOf(g) \cup ClaimableOf(g) = 1 .. c
      BY <1>1, <1>2, ConfirmedAre
    <2> QED  BY <1>15, <2>1, <2>2
  <1>17. got + g.claimable = SumOver(Amounts(h.milestones), ClaimedOf(h))
    BY <1>1, <1>3, <1>11, <1>12, <1>16, ClaimsAddUp
  <1>18. h.claimable = SumOver(Amounts(h.milestones), ClaimableOf(h))
    BY <1>11, <1>15, SumEmpty
  <1>19. TermSum(h.milestones) + h.pending_refund + h.refunded = Award
    BY <1>1, <1>3, <1>11, <1>12
  <1>20. ASSUME h.status \in {"Terminated", "Closed"}
         PROVE  \A k \in 1 .. Len(h.milestones) : h.milestones[k].confirmed
    <2>1. \A k \in 1 .. Len(ms) : ms[k].confirmed
      BY <1>3, <1>11, <1>20 DEF GrantOK
    <2> QED  BY <1>8, <1>9, <1>11, <2>1
  <1>21. h.status # "Closed" /\ \E d \in Nat : Prefix(h.milestones, d)
    BY <1>1, <1>2, <1>11, <1>14
  <1>22. GrantOK(h, got + g.claimable)
    BY <1>11, <1>17, <1>18, <1>19, <1>20, <1>21 DEF GrantOK
  <1> QED  BY <1>13, <1>22

\* h is g once the treasury has its refund.
Refunded(g, h) == h = [g EXCEPT !.pending_refund = 0, !.refunded = @ + g.pending_refund]

\* A refund the treasury accepts.
LEMMA RefundKept ==
  ASSUME NEW g, NEW got, GrantOK(g, got), g.pending_refund > 0, NEW h, Refunded(g, h)
  PROVE  GrantOK(h, got) /\ current_schedule(h) = current_schedule(g)
  <1>1. /\ g \in GrantState /\ g.pending_refund \in Int /\ g.refunded \in Int
        /\ TermSum(g.milestones) + g.pending_refund + g.refunded = Award
        /\ g.status # "Closed" /\ g.milestones \in Seq(ScheduledMilestone)
    BY DEF GrantOK, GrantState
  <1>2. /\ h \in GrantState /\ h.milestones = g.milestones /\ h.claimable = g.claimable
        /\ h.status = g.status /\ h.pending_refund = 0 /\ h.refunded = g.refunded + g.pending_refund
    <2>1. PICK back \in Int : back = g.refunded + g.pending_refund
      BY <1>1
    <2>2. g = Books(g.milestones, g.claimable, g.pending_refund, g.refunded, g.amendments, g.status)
      BY <1>1, BooksFacts
    <2>3. h = Books(g.milestones, g.claimable, 0, back, g.amendments, g.status)
      BY <2>1, <2>2 DEF Books, Refunded
    <2>4. g.status \in GrantStatuses /\ g.claimable \in Int /\ g.amendments \in Nat /\ 0 \in Int
      BY <1>1 DEF GrantState
    <2>5. h \in GrantState
      BY <1>1, <2>1, <2>3, <2>4, BooksFacts
    <2> QED  BY <2>1, <2>3, <2>5 DEF Books
  <1>3. /\ ClaimedOf(h) = ClaimedOf(g) /\ ClaimableOf(h) = ClaimableOf(g)
        /\ current_schedule(h) = current_schedule(g)
    BY <1>2 DEF ClaimedOf, ClaimableOf, current_schedule
  <1>4. TermSum(h.milestones) + h.pending_refund + h.refunded = Award
    <2>1. TermSum(g.milestones) \in Int
      <3>1. \A x \in ScheduledMilestone : x.amount \in Int
        BY DEF ScheduledMilestone
      <3> QED  BY <1>1, <3>1, TermSumConcat
    <2> QED  BY <1>1, <1>2, <2>1
  <1>5. GrantOK(h, got)
    BY <1>1, <1>2, <1>3, <1>4 DEF GrantOK
  <1> QED  BY <1>3, <1>5

OpenRequest ==
  [change : Changes, requester : {Grantee, Governance}, approved_by : Reviewers \cup {Governance, None},
   old_schedule : Seq(Term), confirmed_at_request : Nat, previous_status : {"Funded", "Amended", "Extended"}]

AmendmentRecord ==
  [change : Changes, confirmed : Nat, old_schedule : Seq(Term), new_schedule : Seq(Term), refund : Int]

\* The audit trail of a grant with schedule now_due.
TrailExact(h, now_due) ==
  /\ \A k \in DOMAIN h :
       /\ h[k].old_schedule = IF k = 1 THEN FirstSchedule ELSE h[k - 1].new_schedule
       /\ h[k].new_schedule = Requested(h[k])
       /\ h[k].refund = TermSum(h[k].old_schedule) - TermSum(h[k].new_schedule)
  /\ now_due = IF h = <<>> THEN FirstSchedule ELSE Last(h).new_schedule

(* The inductive invariant of a grant's changes: AwardConserved, with the  *)
(* confirmed milestones in front of the others, nothing confirmed left out *)
(* of a terminated or closed grant, and a well-formed open request.        *)
LifecycleInv ==
  /\ GrantOK(grant, paid)
  /\ request # None => request \in OpenRequest
  /\ history \in Seq(AmendmentRecord)
  /\ TrailExact(history, current_schedule(grant))

\* A grant as created keeps its books.
LEMMA LifecycleInvInit == LifecycleInit => LifecycleInv
  <1> SUFFICES ASSUME LifecycleInit  PROVE LifecycleInv
    OBVIOUS
  <1> DEFINE ms == WithTerms(FirstSchedule)
  <1>1. FirstSchedule \in Seq(Term) /\ \A k \in DOMAIN FirstSchedule : FirstSchedule[k].amount > 0
    BY LifecycleConstants
  <1>2. /\ ms \in Seq(ScheduledMilestone) /\ Len(ms) = Len(FirstSchedule) /\ Len(ms) \in Nat
        /\ \A k \in 1 .. Len(ms) : ~ms[k].claimed /\ ~ms[k].confirmed
        /\ TermSum(ms) = Award /\ Terms(ms) = FirstSchedule
    BY <1>1, NewTerms DEF Award
  <1>3. grant = Books(ms, 0, 0, 0, 0, "Funded") /\ paid = 0 /\ request = None /\ history = <<>>
    BY DEF LifecycleInit, Books
  <1> HIDE DEF ms
  <1>4. /\ grant \in GrantState /\ grant.milestones = ms /\ grant.claimable = 0 /\ grant.pending_refund = 0
        /\ grant.refunded = 0 /\ grant.status = "Funded"
    <2>1. "Funded" \in GrantStatuses /\ 0 \in Int /\ 0 \in Nat
      BY DEF GrantStatuses, OpenStatuses
    <2>2. grant \in GrantState
      BY <1>2, <1>3, <2>1, BooksFacts
    <2> QED  BY <1>3, <2>2 DEF Books
  <1>5. Prefix(ms, 0)
    BY <1>2 DEF Prefix
  <1>6. ClaimedOf(grant) = {} /\ ClaimableOf(grant) = {}
    <2>1. DOMAIN ms = 1 .. Len(ms)
      BY <1>2
    <2> QED  BY <1>2, <1>4, <2>1 DEF ClaimedOf, ClaimableOf
  <1>7. TermSum(ms) \in Int
    <2>1. \A x \in ScheduledMilestone : x.amount \in Int
      BY DEF ScheduledMilestone
    <2> QED  BY <1>2, <2>1, TermSumConcat
  <1>8. TermSum(grant.milestones) + grant.pending_refund + grant.refunded = Award
    BY <1>2, <1>4, <1>7
  <1>9. \E c \in Nat : Prefix(grant.milestones, c)
    BY <1>4, <1>5
  <1>10. GrantOK(grant, paid)
    BY <1>3, <1>4, <1>6, <1>8, <1>9, SumEmpty DEF GrantOK
  <1>11. current_schedule(grant) = FirstSchedule
    BY <1>2, <1>4 DEF current_schedule, Terms
  <1>12. history \in Seq(AmendmentRecord) /\ TrailExact(history, FirstSchedule)
    BY <1>3 DEF TrailExact
  <1> QED  BY <1>3, <1>10, <1>11, <1>12 DEF LifecycleInv

\* One more record of the trail.
LEMMA TrailExtended ==
  ASSUME NEW h \in Seq(AmendmentRecord), NEW old, TrailExact(h, old), NEW rec \in AmendmentRecord,
         rec.old_schedule = old, rec.new_schedule = Requested(rec),
         rec.refund = TermSum(rec.old_schedule) - TermSum(rec.new_schedule)
  PROVE  Append(h, rec) \in Seq(AmendmentRecord) /\ TrailExact(Append(h, rec), rec.new_schedule)
  <1> DEFINE t == Append(h, rec)
             n == Len(h)
  <1>1. /\ n \in Nat /\ DOMAIN h = 1 .. n /\ t \in Seq(AmendmentRecord) /\ Len(t) = n + 1
        /\ DOMAIN t = 1 .. n + 1
        /\ \A k \in 1 .. n : t[k] = h[k]
        /\ t[n + 1] = rec
    OBVIOUS
  <1>2. t # <<>> /\ Last(t) = rec
    BY <1>1 DEF Last
  <1>3. h = <<>> <=> n = 0
    BY <1>1
  <1> HIDE DEF t
  <1>4. ASSUME NEW k \in 1 .. n + 1
        PROVE  /\ t[k].old_schedule = IF k = 1 THEN FirstSchedule ELSE t[k - 1].new_schedule
               /\ t[k].new_schedule = Requested(t[k])
               /\ t[k].refund = TermSum(t[k].old_schedule) - TermSum(t[k].new_schedule)
    <2>1. CASE k = n + 1
      <3>1. t[k] = rec
        BY <1>1, <2>1
      <3>2. old = IF k = 1 THEN FirstSchedule ELSE t[k - 1].new_schedule
        <4>1. CASE n = 0
          BY <1>1, <1>3, <2>1, <4>1 DEF TrailExact
        <4>2. CASE n # 0
          <5>1. old = h[n].new_schedule
            BY <1>3, <4>2 DEF TrailExact, Last
          <5>2. n \in 1 .. n /\ k - 1 = n /\ k # 1
            BY <1>1, <2>1, <4>2
          <5> QED  BY <1>1, <5>1, <5>2
        <4> QED  BY <4>1, <4>2
      <3> QED  BY <3>1, <3>2
    <2>2. CASE k # n + 1
      <3>1. k \in 1 .. n /\ (k # 1 => k - 1 \in 1 .. n)
        BY <1>1, <2>2
      <3>2. t[k] = h[k] /\ (k # 1 => t[k - 1] = h[k - 1])
        BY <1>1, <3>1
      <3>3. /\ h[k].old_schedule = IF k = 1 THEN FirstSchedule ELSE h[k - 1].new_schedule
            /\ h[k].new_schedule = Requested(h[k])
            /\ h[k].refund = TermSum(h[k].old_schedule) - TermSum(h[k].new_schedule)
        BY <1>1, <3>1 DEF TrailExact
      <3> QED  BY <3>2, <3>3
    <2> QED  BY <2>1, <2>2
  <1>5. TrailExact(t, rec.new_schedule)
    BY <1>1, <1>2, <1>4 DEF TrailExact
  <1> QED  BY <1>1, <1>5 DEF t

\* Every change keeps the books, and leaves the schedule asked for.
LEMMA ChangesKept ==
  ASSUME NEW g, NEW got, GrantOK(g, got), NEW c, Prefix(g.milestones, c),
         NEW change \in Changes, validate_change(g, change)
  PROVE  ChangeKept(g, Changed(g, change), c, change, got)
  <1>1. CASE change.kind = "Amendment"
    <2>1. change.new_pending \in Seq(Term)
      BY <1>1, LifecycleConstants DEF Changes
    <2> QED  BY <1>1, <2>1, Amended
  <1>2. CASE change.kind = "Extension"
    <2>1. change.new_due_dates \in Seq(Nat)
      BY <1>2, LifecycleConstants DEF Changes
    <2> QED  BY <1>2, <2>1, Extended
  <1>3. CASE change.kind = "Termination"
    <2>1. change.earned_bps \in Int
      BY <1>3, LifecycleConstants DEF Changes
    <2> QED  BY <1>3, <2>1, Terminated
  <1> QED  BY <1>1, <1>2, <1>3 DEF Changes

\* execute_request keeps the invariant.
LEMMA ExecuteKept == LifecycleInv /\ execute_request => LifecycleInv'
  <1> SUFFICES ASSUME LifecycleInv, execute_request  PROVE LifecycleInv'
    OBVIOUS
  <1>1. PICK g, got, change, old : g = grant /\ got = paid /\ change = request.change /\ old = request.old_schedule
    OBVIOUS
  <1>2. request # None /\ request \in OpenRequest /\ GrantOK(g, got)
    BY <1>1 DEF execute_request, LifecycleInv
  <1>3. change \in Changes /\ old \in Seq(Term) /\ request.confirmed_at_request \in Nat
    BY <1>1, <1>2 DEF OpenRequest
  <1>4. PICK c \in Nat : Prefix(g.milestones, c)
    BY <1>2 DEF GrantOK
  <1>5. g.milestones \in Seq(ScheduledMilestone) /\ g.pending_refund \in Int
    BY <1>2 DEF GrantOK, GrantState
  <1>6. /\ confirmed_count(g) = request.confirmed_at_request /\ current_schedule(g) = old
        /\ validate_change(g, change)
    BY <1>1 DEF execute_request
  <1>7. request.confirmed_at_request = c
    BY <1>4, <1>5, <1>6, PrefixCounted
  <1> DEFINE h == Changed(g, change)
             rec == [change |-> change, confirmed |-> c, old_schedule |-> old,
                     new_schedule |-> current_schedule(h), refund |-> h.pending_refund - g.pending_refund]
  <1>8. /\ history' = Append(history, rec) /\ grant' = close_if_settled(h) /\ request' = None /\ paid' = paid
    BY <1>1, <1>7 DEF execute_request
  <1>9. ChangeKept(g, h, c, change, got)
    BY <1>2, <1>3, <1>4, <1>6, ChangesKept
  <1> HIDE DEF h
  <1>10. /\ rec.change = change /\ rec.confirmed = c /\ rec.old_schedule = old
         /\ rec.new_schedule = current_schedule(h) /\ rec.refund = h.pending_refund - g.pending_refund
    OBVIOUS
  <1>11. GrantOK(h, got) /\ h.pending_refund - g.pending_refund = TermSum(g.milestones) - TermSum(h.milestones)
    BY <1>9 DEF ChangeKept
  <1>12. h.milestones \in Seq(ScheduledMilestone) /\ h.pending_refund \in Int
    BY <1>11 DEF GrantOK, GrantState
  <1>13. current_schedule(h) = Terms(h.milestones) /\ current_schedule(g) = Terms(g.milestones)
    BY DEF current_schedule, Terms
  <1>14. /\ current_schedule(h) \in Seq(Term) /\ TermSum(current_schedule(h)) = TermSum(h.milestones)
         /\ TermSum(old) = TermSum(g.milestones)
    BY <1>5, <1>6, <1>12, <1>13, TermsKept
  <1>15. rec \in AmendmentRecord
    <2>1. h.pending_refund - g.pending_refund \in Int
      BY <1>5, <1>12
    <2> QED  BY <1>3, <1>14, <2>1 DEF AmendmentRecord
  <1> HIDE DEF rec
  <1>16. rec.new_schedule = Requested(rec)
    BY <1>6, <1>9, <1>10 DEF ChangeKept
  <1>17. rec.refund = TermSum(rec.old_schedule) - TermSum(rec.new_schedule)
    BY <1>10, <1>11, <1>14
  <1>18. history \in Seq(AmendmentRecord) /\ TrailExact(history, old)
    BY <1>1, <1>6 DEF LifecycleInv
  <1>19. Append(history, rec) \in Seq(AmendmentRecord) /\ TrailExact(Append(history, rec), rec.new_schedule)
    BY <1>10, <1>15, <1>16, <1>17, <1>18, TrailExtended
  <1>20. GrantOK(grant', got) /\ current_schedule(grant') = current_schedule(h)
    BY <1>8, <1>11, CloseKept
  <1>21. /\ GrantOK(grant', paid')
         /\ history' \in Seq(AmendmentRecord) /\ TrailExact(history', current_schedule(grant'))
    BY <1>1, <1>8, <1>10, <1>19, <1>20
  <1> QED  BY <1>8, <1>21 DEF LifecycleInv

\* A step that leaves the schedule and the trail alone.
LEMMA TrailUntouched ==
  ASSUME LifecycleInv, GrantOK(grant', paid'), current_schedule(grant') = current_schedule(grant),
         history' = history, request' # None => request' \in OpenRequest
  PROVE  LifecycleInv'
  <1>1. history' \in Seq(AmendmentRecord) /\ TrailExact(history', current_schedule(grant'))
    BY DEF LifecycleInv
  <1> QED  BY <1>1 DEF LifecycleInv

\* The other steps of a grant's changes keep the invariant.
LEMMA LifecycleStep == LifecycleInv /\ [LifecycleNext]_lifecycleVars => LifecycleInv'
  <1> SUFFICES ASSUME LifecycleInv, [LifecycleNext]_lifecycleVars  PROVE LifecycleInv'
    OBVIOUS
  <1>0. /\ GrantOK(grant, paid) /\ grant \in GrantState /\ grant.milestones \in Seq(ScheduledMilestone)
        /\ request # None => request \in OpenRequest
    BY DEF LifecycleInv, GrantOK, GrantState
  <1>00. ASSUME NEW status, grant' = [grant EXCEPT !.status = status]
         PROVE  current_schedule(grant') = current_schedule(grant)
    <2>1. grant'.milestones = grant.milestones
      BY <1>0, <1>00 DEF GrantState
    <2> QED  BY <2>1 DEF current_schedule
  <1>1. ASSUME NEW caller \in {Grantee, Governance}, close_request(caller)  PROVE LifecycleInv'
    <2>1. /\ request.previous_status \in {"Funded", "Amended", "Extended"} /\ request' = None
          /\ grant' = [grant EXCEPT !.status = request.previous_status]
          /\ history' = history /\ paid' = paid
      BY <1>0, <1>1 DEF close_request, OpenRequest
    <2>2. request.previous_status \in OpenStatuses
      BY <2>1 DEF OpenStatuses
    <2>3. GrantOK(grant', paid')
      BY <1>0, <2>1, <2>2, StatusOpen
    <2> QED  BY <1>00, <2>1, <2>3, TrailUntouched
  <1>2. ASSUME NEW caller \in {Grantee, Governance}, NEW c \in Changes, request_change(caller, c)
        PROVE  LifecycleInv'
    <2>1. /\ request' = [change |-> c, requester |-> caller, approved_by |-> None,
                         old_schedule |-> current_schedule(grant),
                         confirmed_at_request |-> confirmed_count(grant),
                         previous_status |-> grant.status]
          /\ grant' = [grant EXCEPT !.status = new_status(c.kind)]
          /\ history' = history /\ paid' = paid
          /\ grant.status \in {"Funded", "Amended", "Extended"}
      BY <1>2 DEF request_change
    <2>2. new_status(c.kind) \in OpenStatuses
      <3>1. c.kind \in {"Amendment", "Extension", "Termination"}
        BY DEF Changes
      <3> QED  BY <3>1 DEF new_status, OpenStatuses
    <2>3. GrantOK(grant', paid')
      BY <1>0, <2>1, <2>2, StatusOpen
    <2>4. current_schedule(grant) \in Seq(Term) /\ confirmed_count(grant) \in Nat
      <3>1. current_schedule(grant) = Terms(grant.milestones)
        BY DEF current_schedule, Terms
      <3>2. PICK n \in Nat : Prefix(grant.milestones, n)
        BY <1>0 DEF GrantOK
      <3> QED  BY <1>0, <3>1, <3>2, TermsKept, PrefixCounted
    <2>5. request' \in OpenRequest
      <3>1. PICK due, n, status : due = current_schedule(grant) /\ n = confirmed_count(grant) /\ status = grant.status
        OBVIOUS
      <3>2. due \in Seq(Term) /\ n \in Nat /\ status \in {"Funded", "Amended", "Extended"}
        BY <2>1, <2>4, <3>1
      <3>3. request' = [change |-> c, requester |-> caller, approved_by |-> None, old_schedule |-> due,
                        confirmed_at_request |-> n, previous_status |-> status]
        BY <2>1, <3>1
      <3> QED  BY <3>2, <3>3 DEF OpenRequest
    <2> QED  BY <1>00, <2>1, <2>3, <2>5, TrailUntouched
  <1>3. ASSUME NEW caller \in Reviewers \cup {Governance}, approve_request(caller)  PROVE LifecycleInv'
    <2>1. /\ request \in OpenRequest /\ request' = [request EXCEPT !.approved_by = caller]
          /\ grant' = grant /\ history' = history /\ paid' = paid
      BY <1>0, <1>3 DEF approve_request
    <2>2. request' \in OpenRequest
      BY <2>1 DEF OpenRequest
    <2> QED  BY <1>0, <2>1, <2>2, TrailUntouched
  <1>4. CASE execute_refund
    <2>1. PICK h : Refunded(grant, h) /\ grant' = close_if_settled(h)
      BY <1>4 DEF execute_refund, Refunded
    <2>2. grant.pending_refund > 0 /\ UNCHANGED <<request, history, paid>>
      BY <1>4 DEF execute_refund
    <2>3. GrantOK(h, paid) /\ current_schedule(h) = current_schedule(grant)
      BY <1>0, <2>1, <2>2, RefundKept
    <2>4. GrantOK(grant', paid) /\ current_schedule(grant') = current_schedule(h)
      BY <2>1, <2>3, CloseKept
    <2> QED  BY <1>0, <2>2, <2>3, <2>4, TrailUntouched
  <1>5. CASE lifecycle_confirm
    <2>1. /\ ConfirmedNext(grant, grant', confirmed_count(grant) + 1)
          /\ UNCHANGED <<request, history, paid>>
      BY <1>5 DEF lifecycle_confirm, ConfirmedNext
    <2>2. GrantOK(grant', paid) /\ current_schedule(grant') = current_schedule(grant)
      BY <1>0, <2>1, ConfirmKept
    <2> QED  BY <1>0, <2>1, <2>2, TrailUntouched
  <1>6. CASE lifecycle_claim
    <2>1. PICK h : ClaimedAll(grant, h) /\ grant' = close_if_settled(h)
      BY <1>6 DEF lifecycle_claim, ClaimedAll
    <2>2. grant.claimable > 0 /\ paid' = paid + grant.claimable /\ UNCHANGED <<request, history>>
      BY <1>6 DEF lifecycle_claim
    <2>3. GrantOK(h, paid') /\ current_schedule(h) = current_schedule(grant)
      BY <1>0, <2>1, <2>2, ClaimKept
    <2>4. GrantOK(grant', paid') /\ current_schedule(grant') = current_schedule(h)
      BY <2>1, <2>3, CloseKept
    <2> QED  BY <1>0, <2>2, <2>3, <2>4, TrailUntouched
  <1>7. CASE UNCHANGED grantVars
    <2>1. UNCHANGED <<grant, request, history, paid>>
      BY <1>7 DEF grantVars
    <2> QED  BY <1>0, <2>1, TrailUntouched
  <1> QED  BY <1>1, <1>2, <1>3, <1>4, <1>5, <1>6, <1>7, ExecuteKept DEF LifecycleNext, lifecycleVars, grantVars

(* The award of a grant changed while it runs, for every first schedule,   *)
(* every set of amendments, extensions and earned shares, and whatever is  *)
(* confirmed, claimed or refunded while a request waits: nothing of it is  *)
(* lost or paid twice, and the audit trail leads to the current schedule   *)
(* (is_conserved, which execute_request only asserts in debug builds).     *)
THEOREM AwardAlwaysConserved == LifecycleSpec => []AwardConserved
  <1>1. LifecycleInv => AwardConserved
    <2> SUFFICES ASSUME LifecycleInv  PROVE AwardConserved
      OBVIOUS
    <2>1. HistoryExact
      BY DEF LifecycleInv, TrailExact, HistoryExact
    <2>2. GrantOK(grant, paid)
      BY DEF LifecycleInv
    <2>3. grant.status = "Closed" => paid + grant.refunded = Award
      BY <2>2, ClosedIsEven
    <2> QED  BY <2>1, <2>2, <2>3 DEF AwardConserved, GrantOK
  <1> QED  BY <1>1, LifecycleInvInit, LifecycleStep, PTL DEF LifecycleSpec

=============================================================================
