----------------------------- MODULE Challenges -----------------------------
(***************************************************************************)
(* Challenges (treasury/src/challenge.rs): an approved withdrawal of the   *)
(* threshold or more can be challenged by a stakeholder while its window   *)
(* is open; a challenge holds it until governance resolves it.  Calls that *)
(* only governance may make are not refused to anyone else here: they are  *)
(* governance's.                                                           *)
(***************************************************************************)
EXTENDS LedgerClock

CONSTANTS
    Stakeholders,      \* handles that may be registered
    WithdrawalAmounts, \* amounts of approved withdrawals
    Threshold,         \* Challenges::threshold
    Window,            \* Challenges::window
    MaxWithdrawals     \* bound of the model

ASSUME ChallengesConstants ==
    /\ WithdrawalAmounts \subseteq Nat /\ Threshold \in Nat /\ Window \in Nat
    /\ MaxWithdrawals \in Nat /\ None \notin Stakeholders

VARIABLES
    stakeholders,      \* Challenges::stakeholders
    withdrawals,       \* Challenges::withdrawals, ids below next_id
    nextWithdrawalId,  \* Challenges::next_id
    approvedAt,        \* history: when a withdrawal was approved
    turnedDown         \* history: the withdrawals governance resolved against

challengeVars == <<stakeholders, withdrawals, nextWithdrawalId, approvedAt, turnedDown, now>>

WithdrawalIds == 0 .. MaxWithdrawals - 1
Withdrawal == [amount : WithdrawalAmounts, window_ends_at : Nat,
               challenged_by : Stakeholders \cup {None}, cancelled : BOOLEAN, finalized : BOOLEAN]

ASSUME AbsentWithdrawal == None \notin Withdrawal

ChallengesInit ==
    /\ stakeholders = {}
    /\ withdrawals = [i \in WithdrawalIds |-> None]
    /\ nextWithdrawalId = 0
    /\ approvedAt = [i \in WithdrawalIds |-> 0]
    /\ turnedDown = {}

add_stakeholder(s) ==
    /\ stakeholders' = stakeholders \cup {s}
    /\ UNCHANGED <<withdrawals, nextWithdrawalId, approvedAt, turnedDown, now>>

WindowOf(amount) == IF amount >= Threshold THEN Window ELSE 0

approve(amount) ==
    /\ nextWithdrawalId \in WithdrawalIds
    /\ withdrawals' = [withdrawals EXCEPT ![nextWithdrawalId] =
          [amount |-> amount, window_ends_at |-> now + WindowOf(amount),
           challenged_by |-> None, cancelled |-> FALSE, finalized |-> FALSE]]
    /\ nextWithdrawalId' = nextWithdrawalId + 1
    /\ approvedAt' = [approvedAt EXCEPT ![nextWithdrawalId] = now]
    /\ UNCHANGED <<stakeholders, turnedDown, now>>

Unsettled(i) ==
    withdrawals[i] # None /\ ~withdrawals[i].cancelled /\ ~withdrawals[i].finalized

challenge(s, i) ==
    /\ s \in stakeholders
    /\ Unsettled(i)
    /\ withdrawals[i].challenged_by = None
    /\ now < withdrawals[i].window_ends_at
    /\ withdrawals' = [withdrawals EXCEPT ![i].challenged_by = s]
    /\ UNCHANGED <<stakeholders, nextWithdrawalId, approvedAt, turnedDown, now>>

\* A challenge governance turned the withdrawal down for stays recorded, so it
\* can be resolved again.
resolve(i, uphold) ==
    /\ withdrawals[i] # None
    /\ withdrawals[i].challenged_by # None
    /\ withdrawals' = IF uphold THEN [withdrawals EXCEPT ![i].challenged_by = None]
                      ELSE [withdrawals EXCEPT ![i].cancelled = TRUE]
    /\ turnedDown' = IF uphold THEN turnedDown ELSE turnedDown \cup {i}
    /\ UNCHANGED <<stakeholders, nextWithdrawalId, approvedAt, now>>

\* Mutant: only the hold of a challenge is looked at, not the cancellation.
finalizeUncancelled(i) ==
    /\ withdrawals[i] # None /\ ~withdrawals[i].finalized
    /\ withdrawals[i].challenged_by = None
    /\ now >= withdrawals[i].window_ends_at
    /\ withdrawals' = [withdrawals EXCEPT ![i].finalized = TRUE]
    /\ UNCHANGED <<stakeholders, nextWithdrawalId, approvedAt, turnedDown, now>>

finalize(i) ==
    /\ Unsettled(i)
    /\ withdrawals[i].challenged_by = None
    /\ now >= withdrawals[i].window_ends_at
    /\ withdrawals' = [withdrawals EXCEPT ![i].finalized = TRUE]
    /\ UNCHANGED <<stakeholders, nextWithdrawalId, approvedAt, turnedDown, now>>

ChallengesTick ==
    /\ LedgerTick
    /\ UNCHANGED <<stakeholders, withdrawals, nextWithdrawalId, approvedAt, turnedDown>>

ChallengesNext ==
    \/ \E s \in Stakeholders : add_stakeholder(s)
    \/ \E amount \in WithdrawalAmounts : approve(amount)
    \/ \E i \in WithdrawalIds :
         \/ \E s \in Stakeholders : challenge(s, i)
         \/ \E uphold \in BOOLEAN : resolve(i, uphold)
         \/ finalize(i)
    \/ ChallengesTick

ChallengesSpec == ChallengesInit /\ LedgerInit /\ [][ChallengesNext]_challengeVars

-----------------------------------------------------------------------------
ChallengesTypeOK ==
    /\ now \in Nat
    /\ stakeholders \subseteq Stakeholders
    /\ withdrawals \in [WithdrawalIds -> Withdrawal \cup {None}]
    /\ nextWithdrawalId \in 0 .. MaxWithdrawals
    /\ \A i \in WithdrawalIds : withdrawals[i] # None <=> i < nextWithdrawalId
    /\ approvedAt \in [WithdrawalIds -> Nat]
    /\ turnedDown \subseteq WithdrawalIds

(* A withdrawal is finalized only after its whole window, never while a    *)
(* challenge holds it, and never once governance turned it down, whatever  *)
(* is resolved or challenged again afterwards (challenge.rs:3-7).          *)
ChallengesHold ==
    /\ ChallengesTypeOK
    /\ \A i \in WithdrawalIds : withdrawals[i] # None /\ withdrawals[i].finalized =>
         /\ i \notin turnedDown
         /\ withdrawals[i].challenged_by = None
         /\ now >= approvedAt[i] + WindowOf(withdrawals[i].amount)
=============================================================================
