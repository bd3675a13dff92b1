--------------------------- MODULE PolicyRegistry ---------------------------
(***************************************************************************)
(* RefractPolicyRegistry: the index of policies the pool writes to.  The   *)
(* address that authorises a call is its argument `caller`; a call that    *)
(* returns Err leaves no write and is no step.                             *)
(***************************************************************************)
EXTENDS LedgerClock, Integers, FiniteSets, Sequences, Functions, Collections

CONSTANTS Addresses,       \* admins and pools
          Holders,         \* policyholders
          Ids,             \* policy ids
          Premiums,        \* premiums the records carry
          ChangeDelays     \* what set_pool_contract_change_delay is called with

ASSUME RegistryConstants ==
    /\ None \notin Addresses /\ IsFiniteSet(Ids)
    /\ Premiums \subseteq Nat /\ ChangeDelays \subseteq Nat

VARIABLES admin,           \* DataKey::Admin
          poolContract,    \* DataKey::PoolContract
          pendingPool,     \* DataKey::PendingPoolContract
          changeDelay,     \* DataKey::PoolContractChangeDelay, 0 if absent
          pendingAdmin,    \* DataKey::PendingAdmin
          records,         \* DataKey::Policy(id)
          holderPolicies,  \* DataKey::HolderPolicies(holder)
          counters,        \* TotalPolicies, TotalPremium, ActivePolicies
          proposedAt       \* history: when pendingPool was proposed, and under which delay

trust == <<admin, poolContract, pendingPool, changeDelay, pendingAdmin, proposedAt>>
index == <<records, holderPolicies, counters>>
regVars == <<now, trust, index>>

PolicyRecord == [holder : Holders, premium : Nat, is_active : BOOLEAN]
PendingPoolContract == [pool_contract : Addresses, executable_at : Nat]

\* None is what an absent storage entry reads as.
ASSUME AbsentPolicy == None \notin PolicyRecord /\ None \notin PendingPoolContract

RegInit ==
    /\ LedgerInit
    /\ admin = None /\ poolContract = None
    /\ pendingPool = None /\ pendingAdmin = None
    /\ changeDelay = 0
    /\ records = [id \in Ids |-> None]
    /\ holderPolicies = [h \in Holders |-> <<>>]
    /\ counters = [total |-> 0, premium |-> 0, active |-> 0]
    /\ proposedAt = [at |-> 0, delay |-> 0]

RegTick ==
    /\ LedgerTick
    /\ UNCHANGED <<trust, index>>

-----------------------------------------------------------------------------
require_admin(caller) == caller \in Addresses /\ caller = admin
require_pool_or_admin(caller) == admin # None /\ caller \in {admin, poolContract}

\* initialize authenticates nobody: whoever calls it first is believed.
initialize(newAdmin, pool) ==
    /\ admin = None
    /\ admin' = newAdmin
    /\ poolContract' = pool
    /\ counters' = [total |-> 0, premium |-> 0, active |-> 0]
    /\ UNCHANGED <<now, pendingPool, changeDelay, pendingAdmin, proposedAt, records, holderPolicies>>

register_policy(caller, id, holder, premium) ==
    /\ require_pool_or_admin(caller)
    /\ records[id] = None
    /\ records' = [records EXCEPT ![id] = [holder |-> holder, premium |-> premium, is_active |-> TRUE]]
    /\ holderPolicies' = [holderPolicies EXCEPT ![holder] = Append(@, id)]
    /\ counters' = [total |-> counters.total + 1, premium |-> counters.premium + premium,
                    active |-> counters.active + 1]
    /\ UNCHANGED <<now, trust>>

\* Mutant: no idempotence guard.
deactivate_policyTwice(caller, id) ==
    /\ require_pool_or_admin(caller)
    /\ records[id] # None
    /\ records' = [records EXCEPT ![id].is_active = FALSE]
    /\ counters' = [counters EXCEPT !.active = IF @ = 0 THEN 0 ELSE @ - 1]
    /\ UNCHANGED <<now, trust, holderPolicies>>

\* On an inactive record deactivate_policy returns Ok and writes nothing.
deactivate_policy(caller, id) ==
    /\ require_pool_or_admin(caller)
    /\ records[id] # None
    /\ records[id].is_active
    /\ records' = [records EXCEPT ![id].is_active = FALSE]
    /\ counters' = [counters EXCEPT !.active = IF @ = 0 THEN 0 ELSE @ - 1]
    /\ UNCHANGED <<now, trust, holderPolicies>>

set_pool_contract_change_delay(caller, delay) ==
    /\ require_admin(caller)
    /\ changeDelay' = delay
    /\ UNCHANGED <<now, admin, poolContract, pendingPool, pendingAdmin, proposedAt, index>>

Proposal(pool, executable_at) ==
    /\ pendingPool' = [pool_contract |-> pool, executable_at |-> executable_at]
    /\ proposedAt' = [at |-> now, delay |-> changeDelay]
    /\ UNCHANGED <<now, admin, poolContract, changeDelay, pendingAdmin, index>>

\* Mutant: a proposal that overwrites another inherits its window.
propose_pool_contractInherits(caller, pool) ==
    /\ require_admin(caller)
    /\ Proposal(pool, IF pendingPool = None THEN now + changeDelay ELSE pendingPool.executable_at)

propose_pool_contract(caller, pool) == require_admin(caller) /\ Proposal(pool, now + changeDelay)

confirm_pool_contract(caller) ==
    /\ require_admin(caller)
    /\ pendingPool # None
    /\ now >= pendingPool.executable_at
    /\ poolContract' = pendingPool.pool_contract
    /\ pendingPool' = None
    /\ UNCHANGED <<now, admin, changeDelay, pendingAdmin, proposedAt, index>>

cancel_pool_contract(caller) ==
    /\ require_admin(caller)
    /\ pendingPool # None
    /\ pendingPool' = None
    /\ UNCHANGED <<now, admin, poolContract, changeDelay, pendingAdmin, proposedAt, index>>

propose_admin(caller, newAdmin) ==
    /\ require_admin(caller)
    /\ pendingAdmin' = newAdmin
    /\ UNCHANGED <<now, admin, poolContract, pendingPool, changeDelay, proposedAt, index>>

accept_admin(caller) ==
    /\ pendingAdmin = caller
    /\ admin' = caller
    /\ pendingAdmin' = None
    /\ UNCHANGED <<now, poolContract, pendingPool, changeDelay, proposedAt, index>>

RegNext ==
    \/ RegTick
    \/ \E a, p \in Addresses : initialize(a, p)
    \/ \E c \in Addresses, id \in Ids, h \in Holders, x \in Premiums : register_policy(c, id, h, x)
    \/ \E c \in Addresses, id \in Ids : deactivate_policy(c, id)
    \/ \E c \in Addresses, d \in ChangeDelays : set_pool_contract_change_delay(c, d)
    \/ \E c, p \in Addresses : propose_pool_contract(c, p)
    \/ \E c \in Addresses : confirm_pool_contract(c)
    \/ \E c \in Addresses : cancel_pool_contract(c)
    \/ \E c, a \in Addresses : propose_admin(c, a)
    \/ \E c \in Addresses : accept_admin(c)

RegSpec == RegInit /\ [][RegNext]_regVars

-----------------------------------------------------------------------------
\* Type of the registry's storage: the admin and the pool are set together, and
\* a pending repoint is one the current delay or an earlier one produced.
RegTypeOK ==
    /\ now \in 0 .. MaxTime
    /\ admin \in Addresses \cup {None} /\ poolContract \in Addresses \cup {None}
    /\ (admin = None) <=> (poolContract = None)
    /\ pendingAdmin \in Addresses \cup {None}
    /\ pendingPool \in PendingPoolContract \cup {None}
    /\ changeDelay \in ChangeDelays \cup {0}
    /\ records \in [Ids -> PolicyRecord \cup {None}]
    /\ holderPolicies \in [Holders -> Seq(Ids)]
    /\ counters \in [total : Nat, premium : Nat, active : Nat]
    /\ proposedAt \in [at : Nat, delay : Nat]

Registered == {id \in Ids : records[id] # None}
ActiveIds == {id \in Registered : records[id].is_active}

\* The holder index lists every registered policy of a holder once, and no other.
HolderIndexExact ==
    \A h \in Holders :
        /\ \A j, k \in DOMAIN holderPolicies[h] : holderPolicies[h][j] = holderPolicies[h][k] => j = k
        /\ Range(holderPolicies[h]) = {id \in Registered : records[id].holder = h}

\* get_stats tells the truth: the three counters agree with the records, whoever
\* of pool and admin registered and deactivated, and in which order; with HolderIndexExact.
CountersAgree ==
    /\ RegTypeOK /\ HolderIndexExact
    /\ counters.total = Cardinality(Registered)
    /\ counters.active = Cardinality(ActiveIds)
    /\ counters.premium =
          SumOver([id \in Ids |-> IF records[id] = None THEN 0 ELSE records[id].premium], Ids)

\* The trusted pool changes only to the pool proposed last, and only once the
\* delay in force when that proposal was made has run from it: overwriting a
\* proposal restarts the window, and changing the delay shortens no window.
RepointWaits ==
    [][poolContract' # poolContract /\ poolContract # None =>
          /\ pendingPool # None /\ poolContract' = pendingPool.pool_contract
          /\ now >= proposedAt.at + proposedAt.delay]_regVars
=============================================================================
