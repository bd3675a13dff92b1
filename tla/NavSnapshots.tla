---------------------------- MODULE NavSnapshots ----------------------------
(***************************************************************************)
(* The net asset value side of RefractTreasury (treasury/src/lib.rs): the  *)
(* feed of each asset and the list of tracked assets, two storage entries  *)
(* that must agree, and the snapshot computed from them.  What the         *)
(* treasury holds moves between calls; a price the oracle fails to give    *)
(* counts as 0.                                                            *)
(***************************************************************************)
EXTENDS LedgerClock, Collections, Functions

CONSTANTS
    Assets,        \* token contracts
    Feeds,         \* oracle feed ids
    Holdings,      \* what the treasury may hold of an asset
    Prices,        \* prices of the oracle, 0 included
    PRICE_SCALE    \* the 1 of fixed-point prices

ASSUME NavConstants ==
    /\ Holdings \subseteq Nat /\ Prices \subseteq Nat /\ 0 \in Prices
    /\ PRICE_SCALE \in Nat \ {0} /\ None \notin Feeds

VARIABLES
    oracleSet,     \* whether DataKey::Oracle is set
    assetFeed,     \* DataKey::AssetFeed(token)
    tracked,       \* DataKey::TrackedAssets
    holding,       \* token balances of the treasury
    latest         \* DataKey::LatestSnapshot

navVars == <<oracleSet, assetFeed, tracked, holding, latest>>

NavInit ==
    /\ oracleSet = FALSE
    /\ assetFeed = [t \in Assets |-> None]
    /\ tracked = <<>>
    /\ holding \in [Assets -> Holdings]
    /\ latest = None

set_oracle ==
    /\ oracleSet' = TRUE
    /\ UNCHANGED <<assetFeed, tracked, holding, latest>>

BalanceMoves(t, amount) ==
    /\ holding' = [holding EXCEPT ![t] = amount]
    /\ UNCHANGED <<oracleSet, assetFeed, tracked, latest>>

register_asset_feed(t, feed) ==
    /\ assetFeed[t] = None
    /\ assetFeed' = [assetFeed EXCEPT ![t] = feed]
    /\ tracked' = IF t \in Range(tracked) THEN tracked ELSE Append(tracked, t)
    /\ UNCHANGED <<oracleSet, holding, latest>>

deregister_asset_feed(t) ==
    /\ assetFeed' = [assetFeed EXCEPT ![t] = None]
    /\ tracked' = Without(tracked, t)
    /\ UNCHANGED <<oracleSet, holding, latest>>

\* Every tracked asset needs a feed, or the call fails.
take_nav_snapshot(price) ==
    /\ oracleSet
    /\ \A i \in DOMAIN tracked : assetFeed[tracked[i]] # None
    /\ LET nav(t) == (holding[t] * price[assetFeed[t]]) \div PRICE_SCALE
           assets == [i \in DOMAIN tracked |->
                        [token |-> tracked[i], balance |-> holding[tracked[i]],
                         price |-> price[assetFeed[tracked[i]]], nav |-> nav(tracked[i])]]
       IN latest' = [assets |-> assets,
                     total_nav |-> SumOver([i \in DOMAIN assets |-> assets[i].nav], DOMAIN assets)]
    /\ UNCHANGED <<oracleSet, assetFeed, tracked, holding>>

NavNext ==
    \/ set_oracle
    \/ \E t \in Assets :
         \/ \E amount \in Holdings : BalanceMoves(t, amount)
         \/ \E feed \in Feeds : register_asset_feed(t, feed)
         \/ deregister_asset_feed(t)
    \/ \E price \in [Feeds -> Prices] : take_nav_snapshot(price)

-----------------------------------------------------------------------------
(* The list and the feeds agree after any sequence of registrations and    *)
(* removals: an asset is listed once exactly when it has a feed, so a      *)
(* snapshot neither skips nor doubles an asset and is never refused for a  *)
(* missing feed (lib.rs:349-405, 455-473).  A stored snapshot values none  *)
(* of its assets above the balance at the price it names, and its total is *)
(* the sum of these values (lib.rs:474-519).                               *)
NavComplete ==
    /\ IsInjective(tracked)
    /\ Range(tracked) = {t \in Assets : assetFeed[t] # None}
    /\ latest # None =>
         /\ IsInjective([i \in DOMAIN latest.assets |-> latest.assets[i].token])
         /\ \A i \in DOMAIN latest.assets :
              LET asset == latest.assets[i]
              IN  asset.nav * PRICE_SCALE <= asset.balance * asset.price
         /\ latest.total_nav = SumOver([i \in DOMAIN latest.assets |-> latest.assets[i].nav],
                                       DOMAIN latest.assets)
=============================================================================
