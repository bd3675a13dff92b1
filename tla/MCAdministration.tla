-------------------------- MODULE MCAdministration --------------------------
(* The contracts that hold authority for TLC.  The parts share no state       *)
(* except that an incident reaches the policy registry and the oracle, so the *)
(* first state says which one is at work and the others rest.                 *)
EXTENDS Administration, Multisig, TLC

CONSTANTS a, b, c    \* signers

VARIABLE part

\* The multisig and the policy registry need less time than the oracle.
RegistryTime == 3

MCInit ==
    /\ part \in {"multisig", "policy", "oracle", "stores", "incident"}
    /\ MsInit /\ RegInit /\ OracleInit /\ AdminInit

rest(p) ==
    /\ p # "multisig" => UNCHANGED msVars
    /\ p \notin {"policy", "incident"} => UNCHANGED <<trust, index>>
    /\ p \notin {"oracle", "incident"} => UNCHANGED <<roles, data>>
    /\ p # "stores" => UNCHANGED storeVars
    /\ p # "incident" => UNCHANGED <<coordinatorVars, lockdown>>
    /\ p = "multisig" => UNCHANGED named
    /\ p \in {"multisig", "stores"} => UNCHANGED now

\* The oracle's clock waits for a handover of its admin role, which reads no time.
MCNext ==
    /\ UNCHANGED part
    /\ rest(part)
    /\ \/ part = "multisig" /\ MsNext
       \/ part = "policy" /\ RegNext /\ now' <= RegistryTime /\ Named("policy", pendingAdmin')
       \/ part = "oracle" /\ OracleNext /\ Named("oracle", oraclePending')
             /\ (oraclePending' # None => now' = 0)
       \/ part = "stores" /\ StoresNext
       \/ part = "incident" /\ IncidentNext

\* Without, written so that it can be reasoned about, is the filter.
ASSUME WithoutFilters ==
    \A n \in 0 .. 4 : \A seq \in [1 .. n -> {a, b, c}] :
        Without(seq, a) = SelectSeq(seq, LAMBDA o : o # a)

MCVars == <<part, msVars, regVars, oracleVars, storeVars, coordinatorVars, adminHistory>>

MCSpec == MCInit /\ [][MCNext]_MCVars

\* Addresses, holders and relayers are compared for equality only.
MCSymmetry == Permutations(Addresses) \cup Permutations(Holders) \cup Permutations(Relays)

MCDeltas == {-3, 2}
MCOwnerLists == {<<a, b>>}
MCPayloads == {[fn |-> "call"],
               [fn |-> "add_owner", owner |-> c],
               [fn |-> "remove_owner", owner |-> a],
               [fn |-> "change_threshold", threshold |-> 1],
               [fn |-> "change_threshold", threshold |-> 3]}
=============================================================================
