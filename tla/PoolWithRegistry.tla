-------------------------- MODULE PoolWithRegistry --------------------------
(***************************************************************************)
(* RefractPool and the RefractPolicyRegistry it mirrors its policies into. *)
(* buy_policy calls register_policy with invoke_contract, so a refusal     *)
(* undoes the purchase; process_claim and expire_policy call               *)
(* deactivate_policy with try_invoke_contract and absorb a refusal.        *)
(* Either side can be repointed: the pool to another registry, the         *)
(* registry to another pool.  Both are initialized in the initial state.   *)
(***************************************************************************)
EXTENDS Pool, Sequences, Functions

CONSTANTS Addresses, Holders, Premiums, ChangeDelays, None,
          PoolAddress, RegistryAdmin,   \* two of the Addresses
          MaxForeignCalls               \* bound on index writes by anybody but this pool

ASSUME WiringConstants ==
    /\ PoolAddress \in Addresses /\ RegistryAdmin \in Addresses /\ PoolAddress # RegistryAdmin
    /\ Premiums \subseteq Nat

VARIABLES admin, poolContract, pendingPool, changeDelay, pendingAdmin, records, holderPolicies,
          counters, proposedAt,
          wired,        \* the pool's DataKey::PolicyRegistry is this registry
          \* History:
          elsewhere,    \* policies sold while the pool was wired to another registry
          byOthers      \* records somebody else registered or deactivated, with repetitions

R == INSTANCE PolicyRegistry WITH Ids <- PolicyIds

\* None is what an absent record reads as.
ASSUME AbsentRecord == None \notin R!PolicyRecord

registry == <<admin, poolContract, pendingPool, changeDelay, pendingAdmin, proposedAt, records,
              holderPolicies, counters>>
pool == <<initialized, config, acc, shares, lastDeposit, policies, oracle, balance, paid, emptied>>
wiring == <<wired, elsewhere, byOthers>>
prVars == <<poolVars, registry, wiring>>

PRInit ==
    /\ now = 0
    /\ initialized = TRUE
    /\ config = InitialConfig
    /\ acc = [total_capital |-> 0, total_coverage |-> 0, total_premiums |-> 0,
              total_shares |-> 0, next_policy_id |-> 0]
    /\ shares = [lp \in Providers |-> 0]
    /\ lastDeposit = [lp \in Providers |-> -1]
    /\ policies = [id \in PolicyIds |-> NoPolicy]
    /\ oracle = [t \in CoverageType |-> [value |-> 0, updated_at |-> -1]]
    /\ balance = 0
    /\ paid = [id \in PolicyIds |-> 0]
    /\ emptied = FALSE
    /\ admin = RegistryAdmin /\ poolContract = PoolAddress
    /\ pendingPool = None /\ pendingAdmin = None
    /\ changeDelay \in ChangeDelays
    /\ records = [id \in PolicyIds |-> None]
    /\ holderPolicies = [h \in Holders |-> <<>>]
    /\ counters = [total |-> 0, premium |-> 0, active |-> 0]
    /\ proposedAt = [at |-> 0, delay |-> 0]
    /\ wired = TRUE
    /\ elsewhere = {}
    /\ byOthers = <<>>

-----------------------------------------------------------------------------
\* Mutant: a refused registration is absorbed like a refused deactivation.
RegisterIfPossible(id, holder, premium) ==
    /\ IF wired /\ R!require_pool_or_admin(PoolAddress) /\ records[id] = None
       THEN R!register_policy(PoolAddress, id, holder, premium)
       ELSE UNCHANGED registry
    /\ elsewhere' = IF wired THEN elsewhere ELSE elsewhere \cup {id}

\* The register_policy call of buy_policy.  Another registry is external and may
\* accept anything.
RegisterInRegistry(id, holder, premium) ==
    /\ IF wired THEN R!register_policy(PoolAddress, id, holder, premium) ELSE UNCHANGED registry
    /\ elsewhere' = IF wired THEN elsewhere ELSE elsewhere \cup {id}

BuyPolicy(params, holder) ==
    /\ buy_policy(params)
    /\ RegisterInRegistry(acc.next_policy_id, holder, Premium(config, params))
    /\ UNCHANGED <<wired, byOthers>>

\* Whether deactivate_policy would change the record for this pool.
Deactivates(id) ==
    /\ wired
    /\ R!require_pool_or_admin(PoolAddress)
    /\ records[id] # None /\ records[id].is_active

\* Mutant: invoke_contract, which traps with the registry.
DeactivateOrTrap(id) == wired /\ R!deactivate_policy(PoolAddress, id)

\* _deactivate_in_registry
DeactivateInRegistry(id) ==
    IF Deactivates(id) THEN R!deactivate_policy(PoolAddress, id) ELSE UNCHANGED registry

ProcessClaim(id) == process_claim(id) /\ DeactivateInRegistry(id) /\ UNCHANGED wiring
ExpirePolicy(id) == expire_policy(id) /\ DeactivateInRegistry(id) /\ UNCHANGED wiring

set_policy_registry ==
    /\ wired' = ~wired
    /\ UNCHANGED <<poolVars, registry, elsewhere, byOthers>>

\* What else the pool's users and admin do.  Withdrawals touch neither policies
\* nor the registry; Pool.tla has them.
PoolStep ==
    /\ \/ PoolTick
       \/ \E lp \in Providers, amount \in Amounts : provide_capital(lp, amount)
       \/ \E type \in OfferedTypes, value \in Readings : update_oracle(type, value)
    /\ UNCHANGED <<registry, wiring>>

\* The registry's admin repointing it.
RepointStep ==
    /\ \/ \E p \in Addresses : R!propose_pool_contract(RegistryAdmin, p)
       \/ R!confirm_pool_contract(RegistryAdmin)
       \/ R!cancel_pool_contract(RegistryAdmin)
    /\ UNCHANGED <<pool, wiring>>

\* Somebody else writing the index, as require_pool_or_admin lets the admin and
\* whichever pool confirm_pool_contract moved trust to: any id, this pool's included.
ForeignIndexStep(caller, id) ==
    /\ \/ \E h \in Holders, x \in Premiums : R!register_policy(caller, id, h, x)
       \/ R!deactivate_policy(caller, id)
    /\ Len(byOthers) < MaxForeignCalls
    /\ byOthers' = Append(byOthers, id)
    /\ UNCHANGED <<pool, wired, elsewhere>>

PRNext ==
    \/ PoolStep
    \/ \E params \in Offers, h \in Holders : BuyPolicy(params, h)
    \/ \E id \in PolicyIds : ProcessClaim(id)
    \/ \E id \in PolicyIds : ExpirePolicy(id)
    \/ set_policy_registry
    \/ RepointStep
    \/ \E caller \in Addresses \ {PoolAddress}, id \in PolicyIds : ForeignIndexStep(caller, id)

PRSpec == PRInit /\ [][PRNext]_prVars

PRTick == PoolTick /\ UNCHANGED <<registry, wiring>>

\* Ledgers keep closing and keepers keep sweeping lapsed policies.
FairPRSpec ==
    PRSpec /\ WF_prVars(PRTick) /\ \A id \in PolicyIds : WF_prVars(ExpirePolicy(id))

-----------------------------------------------------------------------------
InForce(id) == policies[id].status = "Active"
Sold(id) == policies[id].status # "Absent"
ListedActive(id) == records[id] # None /\ records[id].is_active

\* The index never under-reports: a policy sold through this registry has its
\* record, and one in force is listed active, unless somebody else - the admin, or
\* a pool the registry trusted meanwhile - wrote that very record.  Repointing
\* either contract, in any order, takes no record away by itself; the pool the
\* registry is repointed to may deactivate any record there is.
NothingInForceUnlisted ==
    \A id \in PolicyIds : id \notin elsewhere \cup Range(byOthers) =>
        /\ Sold(id) <=> records[id] # None
        /\ InForce(id) => ListedActive(id)

\* policy/src/lib.rs INV-R4: "The registry CANNOT block a payout": whenever the
\* pool alone would pay a claim, the claim with its registry call goes through.
RegistryNeverBlocksPayout ==
    \A id \in PolicyIds : ENABLED process_claim(id) => ENABLED ProcessClaim(id)
=============================================================================
