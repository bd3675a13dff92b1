----------------------------- MODULE Safeguards -----------------------------
(***************************************************************************)
(* The treasury's safeguards beside its payments: the challenge windows,   *)
(* the valuation of its assets and its emergency reserve.  Each keeps its  *)
(* own state; calls to them come in any order.                             *)
(*                                                                         *)
(* The reserve (treasury/src/reserve.rs) is set apart: each inflow tops it *)
(* up to a share of the obligations it is told of, and the rest is for     *)
(* operations.  Obligations rise and fall between calls.                   *)
(***************************************************************************)
EXTENDS Challenges, NavSnapshots

CONSTANTS
    FULL_BPS,        \* the whole in basis points
    target_bps,      \* Reserve::target_bps
    Inflows,         \* amounts of inflows and draws
    Obligations,     \* obligations reported with an inflow
    MaxInflow        \* bound of the model

ASSUME ReserveConstants ==
    /\ FULL_BPS \in Nat \ {0} /\ target_bps \in 0 .. FULL_BPS
    /\ Inflows \subseteq Nat \ {0} /\ Obligations \subseteq Nat /\ MaxInflow \in Nat

VARIABLES
    reserve,         \* Reserve::balance
    routed,          \* history: everything routed in
    operating,       \* history: the part that went to operations
    drawn,           \* history: what governance drew from the reserve
    reported         \* history: the largest obligations reported so far

reserveVars == <<reserve, routed, operating, drawn, reported>>

ReserveInit == reserve = 0 /\ routed = 0 /\ operating = 0 /\ drawn = 0 /\ reported = 0

target(obligations) == (obligations * target_bps) \div FULL_BPS

Shortfall(obligations) ==
    IF target(obligations) > reserve THEN target(obligations) - reserve ELSE 0

route_inflow(amount, obligations) ==
    /\ routed + amount <= MaxInflow
    /\ LET short == Shortfall(obligations)
           toReserve == IF amount < short THEN amount ELSE short
       IN /\ reserve' = reserve + toReserve
          /\ operating' = operating + (amount - toReserve)
    /\ routed' = routed + amount
    /\ reported' = IF obligations > reported THEN obligations ELSE reported
    /\ UNCHANGED drawn

draw(amount) ==
    /\ amount <= reserve
    /\ reserve' = reserve - amount
    /\ drawn' = drawn + amount
    /\ UNCHANGED <<routed, operating, reported>>

ReserveNext ==
    \E amount \in Inflows :
      \/ \E obligations \in Obligations : route_inflow(amount, obligations)
      \/ draw(amount)

-----------------------------------------------------------------------------
(* Nothing is lost between reserve, operations and draws, and the reserve  *)
(* never outgrows the target share of the largest obligations reported so  *)
(* far (reserve.rs:3-7): inflows stop at the target even after obligations *)
(* fell and draws intervened.                                              *)
ReserveKeepsShare ==
    /\ routed = reserve + operating + drawn
    /\ reserve <= target(reported)

-----------------------------------------------------------------------------
(* The three together. *)

safeguardVars == <<challengeVars, navVars, reserveVars>>

SafeguardsInit == LedgerInit /\ ChallengesInit /\ NavInit /\ ReserveInit

SafeguardsNext ==
    \/ ChallengesNext /\ UNCHANGED <<navVars, reserveVars>>
    \/ NavNext /\ UNCHANGED <<challengeVars, reserveVars>>
    \/ ReserveNext /\ UNCHANGED <<challengeVars, navVars>>

SafeguardsSpec == SafeguardsInit /\ [][SafeguardsNext]_safeguardVars

(* What the three are for holds whatever the order of the calls: a held    *)
(* withdrawal stays held for its window (challenge.rs:3-7), the            *)
(* snapshot covers every asset with a feed once (lib.rs:349-473), and the  *)
(* reserve keeps its share and loses nothing (reserve.rs).                 *)
SafeguardsHold == ChallengesHold /\ NavComplete /\ ReserveKeepsShare
=============================================================================
