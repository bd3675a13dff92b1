----------------------------- MODULE MCStaking -----------------------------
(* The places capital is staked, for TLC: the vote-escrow token, the backstop, *)
(* and the rules beside it (the withdrawal queue, and the attestation of a     *)
(* loss).  They share no state but the clock, so the first state says which    *)
(* one is at work.  The amounts are small enough that the quotients round.     *)
EXTENDS VeToken, CapitalRules

CONSTANTS
    BackstopTime   \* how far the clock runs for the backstop

VARIABLE part

stakingVars == <<initialized, locks, accounts, checkpoint, balance, distributed, claimed>>

MCInit ==
    /\ part \in {"veToken", "backstop", "queue", "losses"}
    /\ VeInit /\ BackstopInit /\ QueueInit /\ LossInit

MCNext ==
    /\ UNCHANGED part
    /\ \/ part = "veToken" /\ VeNext /\ UNCHANGED <<capitalVars, queueVars, lossVars>>
       \/ /\ part = "backstop" /\ BackstopNext
          /\ now' <= BackstopTime
          /\ UNCHANGED <<stakingVars, queueVars, lossVars>>
       \/ part = "queue" /\ QueueNext /\ UNCHANGED <<now, stakingVars, capitalVars, lossVars>>
       \/ part = "losses" /\ LossNext /\ UNCHANGED <<stakingVars, capitalVars, queueVars>>

MCSpec == MCInit /\ [][MCNext]_<<part, veVars, backstopVars, queueVars, lossVars>>

StakingSymmetry == Permutations(Lockers) \cup Permutations(Stakers)
=============================================================================
