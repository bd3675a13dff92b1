--------------------------- MODULE Administration ---------------------------
(***************************************************************************)
(* Who may run the protocol: the contract registry (registry/src/lib.rs),  *)
(* the parameter store (params/src/lib.rs) and the incident coordinator    *)
(* (incident_response/src/lib.rs), which in one transaction moves the pool *)
(* to a new admin and nominates it on the policy registry and the oracle.  *)
(* `caller` is the address whose signature the host has checked; the       *)
(* oracle takes its admin's signature without naming it, so a call in the  *)
(* coordinator's transaction goes through when the caller is that admin.   *)
(***************************************************************************)
EXTENDS PolicyRegistry, Oracle

CONSTANTS
    Roles,      \* ContractRole
    Keys,       \* parameter names: the well-known ones and others
    WellKnown,  \* the names initialize seeds
    Default,    \* the seeded value
    Settings    \* values governance sets

ASSUME AdministrationConstants ==
    /\ WellKnown \subseteq Keys /\ None \notin Settings \union {Default}
    /\ Addresses \subseteq OracleAdmins

VARIABLES
    regAdmin, regPending,      \* contract registry: DataKey::Admin, PendingAdmin
    entries,                   \* contract registry: DataKey::Entry(role)
    timelock, params,          \* parameter store: DataKey::Timelock, Param(key)
    incidentAdmin, guardian,   \* coordinator: DataKey::Admin, Guardian
    poolAdmin,                 \* pool: DataKey::Admin
    \* history
    named,      \* contract with a two-step handover -> whom its incumbent named last, or None
    lockdown    \* whom the last lockdown installs; None once a holder handed over anew

storeVars == <<regAdmin, regPending, entries, timelock, params>>
coordinatorVars == <<incidentAdmin, guardian, poolAdmin>>
adminHistory == <<named, lockdown>>

AdminInit ==
    /\ regAdmin = None /\ regPending = None
    /\ entries = [r \in Roles |-> None]
    /\ timelock = None /\ params = [k \in Keys |-> None]
    /\ incidentAdmin = None /\ guardian = None /\ poolAdmin = None
    /\ named = [c \in {"registry", "policy", "oracle"} |-> None]
    /\ lockdown = None

Named(contract, who) == named' = [named EXCEPT ![contract] = who]

-----------------------------------------------------------------------------
\* The contract registry.
registry_initialize(a) ==
    /\ regAdmin = None
    /\ regAdmin' = a
    /\ UNCHANGED <<regPending, entries, timelock, params, adminHistory>>

require_registry_admin(caller) == regAdmin # None /\ caller = regAdmin

registry_propose_admin(caller, new_admin) ==
    /\ require_registry_admin(caller)
    /\ regPending' = new_admin
    /\ Named("registry", new_admin)
    /\ UNCHANGED <<regAdmin, entries, timelock, params, lockdown>>

registry_accept_admin(caller) ==
    /\ regPending = caller
    /\ regAdmin' = caller /\ regPending' = None
    /\ Named("registry", None)
    /\ UNCHANGED <<entries, timelock, params, lockdown>>

registry_set(caller, role, addr) ==
    /\ require_registry_admin(caller)
    /\ entries' = [entries EXCEPT ![role] = addr]
    /\ UNCHANGED <<regAdmin, regPending, timelock, params, adminHistory>>

registry_remove(caller, role) ==
    /\ require_registry_admin(caller)
    /\ entries' = [entries EXCEPT ![role] = None]
    /\ UNCHANGED <<regAdmin, regPending, timelock, params, adminHistory>>

\* is_trusted and require_trusted answer alike, with different errors.
is_trusted(addr, role) == entries[role] # None /\ entries[role] = addr

-----------------------------------------------------------------------------
\* The parameter store: only the timelock it names writes.
params_initialize(t) ==
    /\ timelock = None
    /\ timelock' = t
    /\ params' = [k \in Keys |-> IF k \in WellKnown THEN Default ELSE params[k]]
    /\ UNCHANGED <<regAdmin, regPending, entries, adminHistory>>

params_set(caller, key, value) ==
    /\ timelock # None /\ caller = timelock
    /\ params' = [params EXCEPT ![key] = value]
    /\ UNCHANGED <<regAdmin, regPending, entries, timelock, adminHistory>>

set_timelock(caller, new_timelock) ==
    /\ timelock # None /\ caller = timelock
    /\ timelock' = new_timelock
    /\ UNCHANGED <<regAdmin, regPending, entries, params, adminHistory>>

StoresNext ==
    \/ \E a \in Addresses : registry_initialize(a) \/ registry_accept_admin(a) \/ params_initialize(a)
    \/ \E c, a \in Addresses : registry_propose_admin(c, a) \/ set_timelock(c, a)
    \/ \E c, a \in Addresses, r \in Roles : registry_set(c, r, a)
    \/ \E c \in Addresses, r \in Roles : registry_remove(c, r)
    \/ \E c \in Addresses, k \in Keys, v \in Settings : params_set(c, k, v)

-----------------------------------------------------------------------------
\* The coordinator, and the pool's admin, which it rotates in one step.
incident_initialize(a, g) ==
    /\ guardian = None
    /\ incidentAdmin' = a /\ guardian' = g
    /\ UNCHANGED <<regVars, oracleVars, storeVars, poolAdmin, adminHistory>>

pool_initialize(a) ==
    /\ poolAdmin = None
    /\ poolAdmin' = a
    /\ UNCHANGED <<regVars, oracleVars, storeVars, incidentAdmin, guardian, adminHistory>>

require_responder(caller) == guardian # None /\ caller \in {incidentAdmin, guardian}

set_guardian(caller, new_guardian) ==
    /\ require_responder(caller)
    /\ guardian' = new_guardian
    /\ UNCHANGED <<regVars, oracleVars, storeVars, incidentAdmin, poolAdmin, adminHistory>>

\* pool.set_admin
set_admin(caller, new_admin) ==
    /\ poolAdmin # None /\ caller = poolAdmin
    /\ poolAdmin' = new_admin

\* Mutant: the oracle is left out of the lockdown.
emergency_lockdownWithoutOracle(caller, new_admin) ==
    /\ require_responder(caller)
    /\ set_admin(caller, new_admin)
    /\ propose_admin(caller, new_admin)
    /\ Named("policy", new_admin)
    /\ lockdown' = new_admin
    /\ UNCHANGED <<oracleVars, storeVars, incidentAdmin, guardian>>

\* Every one of the three calls must go through, or none does.
emergency_lockdown(caller, new_admin) ==
    /\ require_responder(caller)
    /\ set_admin(caller, new_admin)
    /\ propose_admin(caller, new_admin)
    /\ caller = oracleAdmin /\ oracle_propose_admin(new_admin)
    /\ named' = [named EXCEPT !["policy"] = new_admin, !["oracle"] = new_admin]
    /\ lockdown' = new_admin
    /\ UNCHANGED <<storeVars, incidentAdmin, guardian>>

migrate_pool(caller, new_pool) ==
    /\ require_responder(caller)
    /\ propose_pool_contract(caller, new_pool)
    /\ UNCHANGED <<oracleVars, storeVars, coordinatorVars, adminHistory>>

\* The holders' own decisions, which supersede a lockdown, and the nominees' acceptances.
Handover(caller, new_admin) ==
    /\ \/ /\ set_admin(caller, new_admin)
          /\ UNCHANGED <<regVars, oracleVars, named>>
       \/ /\ propose_admin(caller, new_admin) /\ Named("policy", new_admin)
          /\ UNCHANGED <<oracleVars, poolAdmin>>
       \/ /\ caller = oracleAdmin /\ oracle_propose_admin(new_admin) /\ Named("oracle", new_admin)
          /\ UNCHANGED <<regVars, poolAdmin>>
    /\ lockdown' = None
    /\ UNCHANGED <<storeVars, incidentAdmin, guardian>>

Acceptance(caller) ==
    /\ \/ accept_admin(caller) /\ Named("policy", None) /\ UNCHANGED oracleVars
       \/ oracle_accept_admin(caller) /\ Named("oracle", None) /\ UNCHANGED regVars
    /\ UNCHANGED <<storeVars, coordinatorVars, lockdown>>

IncidentNext ==
    \/ \E a \in Addresses : pool_initialize(a)
    \/ \E a \in Addresses : oracle_initialize(a)
          /\ UNCHANGED <<regVars, storeVars, coordinatorVars, adminHistory>>
    \/ \E a, g \in Addresses : incident_initialize(a, g)
    \/ \E a, p \in Addresses : initialize(a, p)
          /\ UNCHANGED <<oracleVars, storeVars, coordinatorVars, adminHistory>>
    \/ \E c, n \in Addresses : \/ set_guardian(c, n) \/ emergency_lockdown(c, n)
                               \/ migrate_pool(c, n) \/ Handover(c, n)
    \/ \E c \in Addresses : Acceptance(c)

\* What else the policy registry and the oracle do, and the passing of time.
OtherBusiness ==
    /\ \/ RegNext /\ UNCHANGED <<admin, pendingAdmin, roles, data>>
       \/ OracleNext /\ UNCHANGED <<oracleAdmin, oraclePending, trust, index>>
    /\ UNCHANGED <<storeVars, coordinatorVars, adminHistory>>

AdministrationVars == <<regVars, oracleVars, storeVars, coordinatorVars, adminHistory>>

\* The contracts together: an incident, the stores' own operations and everything
\* else interleave.
AdministrationSpec ==
    /\ RegInit /\ OracleInit /\ AdminInit
    /\ [][\/ IncidentNext
          \/ StoresNext /\ UNCHANGED <<regVars, oracleVars, coordinatorVars>>
          \/ OtherBusiness]_AdministrationVars

-----------------------------------------------------------------------------
\* Type of the three contracts' storage: the parameter store is seeded as a whole, and the coordinator
\* has its two addresses together.
AdminTypeOK ==
    /\ {regAdmin, regPending, timelock, incidentAdmin, guardian, poolAdmin, lockdown}
          \subseteq Addresses \union {None}
    /\ entries \in [Roles -> Addresses \union {None}]
    /\ params \in [Keys -> Settings \union {Default, None}]
    /\ \A k \in WellKnown : (params[k] = None) <=> (timelock = None)
    /\ (guardian = None) <=> (incidentAdmin = None)

Pending(c) == CASE c = "registry" -> regPending [] c = "policy" -> pendingAdmin
                [] c = "oracle" -> oraclePending

\* Of every two-step handover (contract registry, policy registry, oracle), lockdowns included: the
\* successor who can take over is the one the present incumbent named last.  No nomination of a
\* former incumbent outlives its term or a later nomination.
NominationsCurrent ==
    AdminTypeOK /\ \A c \in DOMAIN named : Pending(c) = named[c]

\* emergency_lockdown "rotates the pool admin and proposes new_admin on the registry and oracle": the
\* new admin holds the pool, and each of the other two is held by it or waits for its acceptance,
\* whatever was proposed before and whoever accepts in between.  This lasts until a current holder of
\* one of the three hands over anew: until the acceptance "the compromised key is still their admin"
\* (incident lib.rs:104-106) and can propose another.  With NominationsCurrent.
LockdownHolds ==
    /\ NominationsCurrent
    /\ lockdown # None =>
        /\ poolAdmin = lockdown
        /\ lockdown \in {admin, pendingAdmin}
        /\ lockdown \in {oracleAdmin, oraclePending}

\* "Callable only by the authorized guardian or admin" (emergency_lockdown) and "acts as an
\* authorized emergency guardian coordinator" (module doc): where one admin holds the pool, the policy
\* registry, the oracle and the coordinator, the guardian's lockdown goes through.
GuardianCanLockDown ==
    guardian # None /\ {poolAdmin, admin, oracleAdmin} = {incidentAdmin} =>
        \E n \in Addresses : ENABLED emergency_lockdown(guardian, n)
=============================================================================
