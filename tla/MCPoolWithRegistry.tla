------------------------- MODULE MCPoolWithRegistry -------------------------
(***************************************************************************)
(* Instances of the pool and the registry wired to each other.             *)
(***************************************************************************)
EXTENDS PoolWithRegistry, TLC

MCConfig == [max_utilization_bps |-> 5, min_coverage |-> 1, max_coverage |-> 5, lockup_days |-> 0]
MCConfigs == {MCConfig}
MCOffers == {[coverage_amount |-> 2, coverage_type |-> "StablecoinDepeg", duration_days |-> 1,
              trigger_threshold |-> 1]}
MCPremium(cfg, params) == 1
=============================================================================
