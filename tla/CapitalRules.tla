---------------------------- MODULE CapitalRules ----------------------------
(***************************************************************************)
(* The rules of staked capital together: the backstop that keeps it, the   *)
(* queue of those who wait to withdraw, and the loss events that authorize *)
(* drawdowns.  The last two are libraries the backstop does not call: the  *)
(* three share the clock and nothing else.                                 *)
(***************************************************************************)
EXTENDS Backstop, WithdrawalQueue, LossEvents

capitalVars == <<book, total, pendingLoss, settings, reserve>>
capitalRulesVars == <<backstopVars, queueVars, lossVars>>

CapitalRulesInit == BackstopInit /\ QueueInit /\ LossInit

CapitalRulesNext ==
    \/ BackstopNext /\ UNCHANGED <<queueVars, lossVars>>
    \/ QueueNext /\ UNCHANGED <<backstopVars, lossVars>>
    \/ LossNext /\ UNCHANGED <<capitalVars, queueVars>>

CapitalRulesSpec == CapitalRulesInit /\ [][CapitalRulesNext]_capitalRulesVars

\* Three rules, each whatever the other two parts do: the backstop's capital is accounted for
\* (BackstopExact, backstop/src/lib.rs), a drawdown the loss events authorize is attested
\* (DrawdownsAttested, loss_event.rs), and what is queued for withdrawal is filled exactly
\* (QueueExact, withdrawal_queue.rs).  They do not add up to one rule: draw_down, cover_shortfall
\* and absorb_loss ask no loss event, and a withdrawal waits in no queue.
CapitalRulesHold == BackstopExact /\ DrawdownsAttested /\ QueueExact
=============================================================================
