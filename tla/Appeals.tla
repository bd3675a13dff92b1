------------------------------ MODULE Appeals ------------------------------
(***************************************************************************)
(* Appeals against a rejected grant application (grants/src/appeals.rs):   *)
(* one application, rejected when the model starts.  A panel independent   *)
(* of the original reviewers votes again; what stalls escalates, and the   *)
(* timelock has the last word.  Evidence, review and reason hashes are     *)
(* left out.                                                               *)
(***************************************************************************)
EXTENDS LedgerClock, FiniteSets

CONSTANTS
    Panelists,             \* addresses governance may put on a panel
    OriginalReviewers, Applicant,
    APPEAL_WINDOW, REREVIEW_TIMEOUT,
    MaxRounds, MaxPanels   \* bounds of the model: appeals, and panels per appeal

ASSUME AppealConstants ==
    /\ IsFiniteSet(Panelists)
    /\ {APPEAL_WINDOW, REREVIEW_TIMEOUT, MaxRounds, MaxPanels} \subseteq Nat

VARIABLES
    app,        \* status, decided_at, appeals_used, appeals_allowed, finalized
    appeal,     \* DataKey::Appeal of the current round, or None
    ballots     \* DataKey::AppealVote of the current round, by panel version and member

appealVars == <<now, app, appeal, ballots>>

Votes == {"Uphold", "Overturn", "Escalate"}
NoVotes == [c \in Votes |-> 0]
NoBallots == [v \in 1 .. MaxPanels |-> [m \in Panelists |-> None]]

Tally == [Votes -> Nat]
Appeal == [submitted_at : Nat, panel : SUBSET Panelists, panel_version : 0 .. MaxPanels,
           panel_assigned_at : Nat, tally : Tally,
           outcome : {"Open", "Overturned", "Upheld", "Escalated"}]

\* None is what an absent storage entry reads as.
ASSUME AbsentAppeal == None \notin Appeal /\ None \notin Votes

AppealsInit ==
    /\ app = [status |-> "Rejected", decided_at |-> 0, appeals_used |-> 0,
              appeals_allowed |-> 1, finalized |-> FALSE]
    /\ appeal = None
    /\ ballots = NoBallots

submit_appeal ==
    /\ app.status = "Rejected"
    /\ app.appeals_used < app.appeals_allowed
    /\ now <= app.decided_at + APPEAL_WINDOW
    /\ app' = [app EXCEPT !.appeals_used = @ + 1, !.status = "AppealSubmitted"]
    /\ appeal' = [submitted_at |-> now, panel |-> {}, panel_version |-> 0,
                  panel_assigned_at |-> 0, tally |-> NoVotes, outcome |-> "Open"]
    /\ ballots' = NoBallots
    /\ UNCHANGED now

\* Mutant: the votes for the replaced panel stay counted.
assign_appeal_panelTallyKept(panel) ==
    /\ app.status \in {"AppealSubmitted", "UnderReReview"}
    /\ panel # {}
    /\ panel \cap (OriginalReviewers \cup {Applicant}) = {}
    /\ appeal.panel_version < MaxPanels
    /\ appeal' = [appeal EXCEPT !.panel = panel, !.panel_version = @ + 1,
                                !.panel_assigned_at = now]
    /\ app' = [app EXCEPT !.status = "UnderReReview"]
    /\ UNCHANGED <<now, ballots>>

\* validate_panel (external): not empty, no member twice.
assign_appeal_panel(panel) ==
    /\ app.status \in {"AppealSubmitted", "UnderReReview"}
    /\ panel # {}
    /\ panel \cap (OriginalReviewers \cup {Applicant}) = {}
    /\ appeal.panel_version < MaxPanels
    /\ appeal' = [appeal EXCEPT !.panel = panel, !.panel_version = @ + 1,
                                !.panel_assigned_at = now, !.tally = NoVotes]
    /\ app' = [app EXCEPT !.status = "UnderReReview"]
    /\ UNCHANGED <<now, ballots>>

\* The outcome once every one of the n members voted.
PanelOutcome(tally, n) ==
    CASE tally["Overturn"] * 2 > n -> "Overturned"
      [] tally["Uphold"] * 2 > n -> "Upheld"
      [] OTHER -> "Escalated"

submit_appeal_review(member, vote) ==
    LET version == appeal.panel_version
        n == Cardinality(appeal.panel)
        tally == [appeal.tally EXCEPT ![vote] = @ + 1]
        complete == tally["Uphold"] + tally["Overturn"] + tally["Escalate"] = n
        outcome == PanelOutcome(tally, n)
    IN
    /\ app.status = "UnderReReview"
    /\ member \in appeal.panel
    /\ ballots[version][member] = None
    /\ ballots' = [ballots EXCEPT ![version][member] = vote]
    /\ appeal' = [appeal EXCEPT !.tally = tally, !.outcome = IF complete THEN outcome ELSE @]
    /\ app' = [app EXCEPT !.status = IF complete THEN outcome ELSE @]
    /\ UNCHANGED now

StalledSince ==
    IF app.status = "AppealSubmitted" THEN appeal.submitted_at ELSE appeal.panel_assigned_at

\* Mutant: only an appeal that has a panel can stall.
escalate_stalledPanelOnly ==
    /\ app.status = "UnderReReview"
    /\ now > StalledSince + REREVIEW_TIMEOUT
    /\ appeal' = [appeal EXCEPT !.outcome = "Escalated"]
    /\ app' = [app EXCEPT !.status = "Escalated"]
    /\ UNCHANGED <<now, ballots>>

escalate_stalled ==
    /\ app.status \in {"AppealSubmitted", "UnderReReview"}
    /\ now > StalledSince + REREVIEW_TIMEOUT
    /\ appeal' = [appeal EXCEPT !.outcome = "Escalated"]
    /\ app' = [app EXCEPT !.status = "Escalated"]
    /\ UNCHANGED <<now, ballots>>

\* The timelock may decide again, and may override the panel.
final_decision(overturn) ==
    LET outcome == IF overturn THEN "Overturned" ELSE "Upheld" IN
    /\ app.status \in {"Escalated", "Upheld", "Overturned"}
    /\ appeal' = [appeal EXCEPT !.outcome = outcome]
    /\ app' = [app EXCEPT !.status = outcome, !.finalized = TRUE]
    /\ UNCHANGED <<now, ballots>>

reopen_appeal ==
    /\ app.status = "Upheld"
    /\ app.appeals_allowed < MaxRounds
    /\ app' = [app EXCEPT !.appeals_allowed = @ + 1, !.status = "Rejected",
                          !.decided_at = now, !.finalized = FALSE]
    /\ UNCHANGED <<now, appeal, ballots>>

\* External: an overturned application is funded.
fund_application ==
    /\ app.status = "Overturned"
    /\ app' = [app EXCEPT !.status = "Funded"]
    /\ UNCHANGED <<now, appeal, ballots>>

AppealsTick == LedgerTick /\ UNCHANGED <<app, appeal, ballots>>

AppealsNext ==
    \/ submit_appeal \/ escalate_stalled \/ reopen_appeal \/ fund_application \/ AppealsTick
    \/ \E panel \in SUBSET Panelists : assign_appeal_panel(panel)
    \/ \E m \in Panelists, vote \in Votes : submit_appeal_review(m, vote)
    \/ \E overturn \in BOOLEAN : final_decision(overturn)

AppealsSpec == LedgerInit /\ AppealsInit /\ [][AppealsNext]_appealVars

-----------------------------------------------------------------------------
\* The ballots of the current panel for a choice.
BallotsFor(vote) ==
    {m \in Panelists : appeal.panel_version > 0 /\ ballots[appeal.panel_version][m] = vote}

(* appeals.rs:21-27: however often the panel is replaced, the tally is the *)
(* votes of the present panel alone, nobody votes on a decision of their   *)
(* own, and while the timelock has not spoken an application is upheld or  *)
(* overturned only by a strict majority of the whole panel                 *)
(* (assign_appeal_panel, submit_appeal_review, escalate_stalled).          *)
PanelDecides ==
    appeal # None =>
      /\ \A c \in Votes : appeal.tally[c] = Cardinality(BallotsFor(c))
      /\ \A c \in Votes : BallotsFor(c) \subseteq appeal.panel \ (OriginalReviewers \cup {Applicant})
      /\ ~app.finalized =>
           /\ app.status = "Overturned" => 2 * appeal.tally["Overturn"] > Cardinality(appeal.panel)
           /\ app.status = "Upheld" => 2 * appeal.tally["Uphold"] > Cardinality(appeal.panel)

AppealsFairness == WF_appealVars(escalate_stalled) /\ WF_appealVars(AppealsTick)

(* An appeal is never left hanging (appeals.rs:28-29): without a panel, or *)
(* with one that does not finish, it is decided or escalated, since anyone *)
(* may call escalate_stalled and governance replaces the panel only so     *)
(* often (each replacement starts the timeout anew).  MaxTime ends the     *)
(* model's clock, and with it the timeouts that would expire later.        *)
AppealsResolve ==
    app.status \in {"AppealSubmitted", "UnderReReview"}
      ~> \/ app.status \in {"Escalated", "Upheld", "Overturned", "Funded"}
         \/ appeal # None /\ StalledSince + REREVIEW_TIMEOUT >= MaxTime
=============================================================================
