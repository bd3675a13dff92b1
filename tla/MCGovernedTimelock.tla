------------------------- MODULE MCGovernedTimelock -------------------------
(***************************************************************************)
(* The governor for TLC, in two settings: alone, where three holders vote  *)
(* on one proposal while tokens move and the configuration changes, and    *)
(* driving the timelock, where one holder carries two proposals, the first *)
(* of which has the target called, directly or by the timelock.            *)
(***************************************************************************)
EXTENDS GovernedTimelock, TLC

CONSTANTS alice, bob, carol, gov, vegov

VARIABLE part

Nobody == alice :> 0 @@ bob :> 0 @@ carol :> 0
OneHolder == gov :> (alice :> 1 @@ bob :> 0 @@ carol :> 0) @@ vegov :> Nobody
MCSupplies == {gov :> (alice :> 2 @@ bob :> 1 @@ carol :> 0) @@
               vegov :> (alice :> 0 @@ bob :> 1 @@ carol :> 0),
               OneHolder}

SystemConfig == [token |-> gov, voting_period |-> 0, quorum_bps |-> 10000, proposal_threshold |-> 1, total_supply |-> 1]
\* Quorums of 2 tokens of 3 and of none (5000 bps of 1 rounds down to 0).
MCConfigs == {[token |-> gov, voting_period |-> 1, quorum_bps |-> 7000, proposal_threshold |-> 2, total_supply |-> 3],
              [token |-> vegov, voting_period |-> 0, quorum_bps |-> 5000, proposal_threshold |-> 0, total_supply |-> 1],
              SystemConfig}
MCPayloads ==
    {[fn |-> f, arg |-> 0] : f \in {"call", "cancel", "cancel_failed", "expire", "set_keeper_config",
                                   "execute", "retry", "execute_due"}}
    \cup {[fn |-> "queue", arg |-> 3]}

InSetting(p, cfg) == p = "system" <=> cfg = SystemConfig

MCInit ==
    /\ part \in {"votes", "system"}
    /\ SysInit
    /\ part = "system" <=> balance = OneHolder
    /\ InSetting(part, config)
    /\ part = "votes" => targetAdmin = "timelock"

MCNext ==
    /\ UNCHANGED part
    /\ \/ part = "votes" /\ GovNext /\ UNCHANGED <<timelock, aux>> /\ now' <= 2 /\ proposalCount' <= 1
       \/ /\ part = "system" /\ SysNext
          /\ \A p \in ProposalIds : proposals'[p].voters \subseteq {alice}
          /\ payload'[0].fn \in {"call", "queue"}
    /\ InSetting(part, config')

MCSpec == MCInit /\ [][MCNext]_<<part, sysVars>>
=============================================================================
