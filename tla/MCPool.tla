------------------------------- MODULE MCPool -------------------------------
(***************************************************************************)
(* Instances of the pool.  The scales are small (BPS = 10, a day is one    *)
(* tick, a reading is fresh for one) so that the quotients round on the    *)
(* small amounts used here.                                                *)
(***************************************************************************)
EXTENDS Pool, TLC

CONSTANTS alice, bob

MCConfig == [max_utilization_bps |-> 8, min_coverage |-> 1, max_coverage |-> 5, lockup_days |-> 1]
MCTight == [max_utilization_bps |-> 5, min_coverage |-> 1, max_coverage |-> 5, lockup_days |-> 0]
MCConfigs == {MCConfig, MCTight}

Cover(n, type) == [coverage_amount |-> n, coverage_type |-> type, duration_days |-> 1,
                   trigger_threshold |-> 0]
OneOffer == {Cover(2, "FlightDelay")}

\* A premium that the tight configuration makes dearer.
MCPremium(cfg, params) == IF cfg.lockup_days = 0 THEN 2 ELSE 1

ProviderSymmetry == Permutations({alice, bob})
=============================================================================
