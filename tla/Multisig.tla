------------------------------ MODULE Multisig ------------------------------
(***************************************************************************)
(* RefractMultisig: M-of-N approval of forwarded calls; a forwarded call   *)
(* that fails undoes the execute.  The management functions are to run     *)
(* inside execute, as calls of the multisig to itself.  SelfCallsRun says  *)
(* whether the host runs such a call: require_self (lib.rs:502-510) takes  *)
(* it for granted, docs/INVARIANTS.md:87-89 says that no contract on the   *)
(* call stack is called.  Without it the module only has fewer steps.      *)
(***************************************************************************)
EXTENDS Collections, Functions

CONSTANTS Signers,         \* addresses that are or may become owners
          OwnerLists,      \* the owner lists initialize is called with
          Payloads,        \* what is proposed
          SelfCallsRun,    \* whether the host runs a call of the multisig to itself
          MaxProposals     \* bound on the proposals made

\* What a proposal forwards: a call of another contract, or a management call.
Payload == [fn : {"call"}]
             \cup [fn : {"add_owner", "remove_owner"}, owner : Signers]
             \cup [fn : {"change_threshold"}, threshold : Nat]

ASSUME MultisigConstants ==
    /\ IsFiniteSet(Signers) /\ SelfCallsRun \in BOOLEAN
    /\ OwnerLists \subseteq Seq(Signers) /\ Payloads \subseteq Payload /\ MaxProposals \in Nat

VARIABLES owners,      \* DataKey::Owners, empty before initialize
          initialized, \* DataKey::Owners is set
          threshold,   \* DataKey::Threshold
          nextId,      \* DataKey::NextId
          proposals,   \* DataKey::Proposal(id)
          \* History, read by no action:
          quorums      \* quorums[id]: who had approved id when it was executed, and the threshold
                       \* then, for every execution

msVars == <<owners, initialized, threshold, nextId, proposals, quorums>>

MsIds == 0 .. MaxProposals - 1

MsProposal == [status : {"Absent", "Pending", "Executed"}, payload : Payload, approvals : Seq(Signers)]
NoProposal == [status |-> "Absent", payload |-> [fn |-> "call"], approvals |-> <<>>]

MsInit ==
    /\ owners = <<>>
    /\ initialized = FALSE
    /\ threshold = 0
    /\ nextId = 0
    /\ proposals = [id \in MsIds |-> NoProposal]
    /\ quorums = [id \in MsIds |-> <<>>]

-----------------------------------------------------------------------------
IsOwner(caller) == caller \in Range(owners)

multisig_initialize(list, m) ==
    /\ ~initialized
    /\ list # <<>> /\ m > 0 /\ m <= Len(list)
    /\ initialized' = TRUE
    /\ owners' = list
    /\ threshold' = m
    /\ nextId' = 0
    /\ UNCHANGED <<proposals, quorums>>

propose(proposer, payload) ==
    /\ IsOwner(proposer)
    /\ nextId \in MsIds
    /\ proposals' = [proposals EXCEPT ![nextId] = [status |-> "Pending", payload |-> payload,
                                                  approvals |-> <<proposer>>]]
    /\ nextId' = nextId + 1
    /\ UNCHANGED <<owners, initialized, threshold, quorums>>

\* Mutant: a second approval of the same owner counts.
approveTwice(caller, id) ==
    /\ IsOwner(caller)
    /\ proposals[id].status = "Pending"
    /\ Len(proposals[id].approvals) < 3
    /\ proposals' = [proposals EXCEPT ![id].approvals = Append(@, caller)]
    /\ UNCHANGED <<owners, initialized, threshold, nextId, quorums>>

\* A second approval by the same owner returns Ok and writes nothing.
approve(caller, id) ==
    /\ IsOwner(caller)
    /\ proposals[id].status = "Pending"
    /\ caller \notin Range(proposals[id].approvals)
    /\ proposals' = [proposals EXCEPT ![id].approvals = Append(@, caller)]
    /\ UNCHANGED <<owners, initialized, threshold, nextId, quorums>>

add_owner(new_owner) ==
    /\ owners' = IF IsOwner(new_owner) THEN owners ELSE Append(owners, new_owner)
    /\ UNCHANGED threshold

\* The approvals of the owner are left where they are.
remove_owner(owner) ==
    /\ Len(owners) > 1
    /\ LET new_owners == Without(owners, owner)
       IN /\ owners' = new_owners
          /\ threshold' = IF threshold < Len(new_owners) THEN threshold ELSE Len(new_owners)

change_threshold(new_threshold) ==
    /\ new_threshold > 0 /\ new_threshold <= Len(owners)
    /\ threshold' = new_threshold
    /\ UNCHANGED owners

\* The call execute forwards, with what it writes here.
Forward(payload) ==
    \/ payload.fn = "call" /\ UNCHANGED <<owners, threshold>>
    \/ /\ SelfCallsRun
       /\ \/ payload.fn = "add_owner" /\ add_owner(payload.owner)
          \/ payload.fn = "remove_owner" /\ remove_owner(payload.owner)
          \/ payload.fn = "change_threshold" /\ change_threshold(payload.threshold)

execute(id) ==
    /\ proposals[id].status = "Pending"
    /\ Len(proposals[id].approvals) >= threshold
    /\ proposals' = [proposals EXCEPT ![id].status = "Executed"]
    /\ quorums' = [quorums EXCEPT ![id] = Append(@, [by |-> Range(proposals[id].approvals),
                                                     needed |-> threshold])]
    /\ Forward(proposals[id].payload)
    /\ UNCHANGED <<initialized, nextId>>

MsNext ==
    \/ \E list \in OwnerLists, m \in 1 .. Cardinality(Signers) : multisig_initialize(list, m)
    \/ \E s \in Signers, payload \in Payloads : propose(s, payload)
    \/ \E s \in Signers, id \in MsIds : approve(s, id)
    \/ \E id \in MsIds : execute(id)

MsSpec == MsInit /\ [][MsNext]_msVars

-----------------------------------------------------------------------------
\* Type of the multisig's storage.
MsTypeOK ==
    /\ owners \in Seq(Signers)
    /\ initialized \in BOOLEAN
    /\ threshold \in 0 .. Len(owners)
    /\ nextId \in 0 .. MaxProposals
    /\ proposals \in [MsIds -> MsProposal]
    /\ \A id \in MsIds : proposals[id].status = "Absent" <=> id >= nextId

Distinct(seq) == Cardinality(Range(seq)) = Len(seq)

\* Some set of current owners can always reach the threshold, and no proposal
\* runs on no approval, however owners were added and removed and the threshold
\* moved (for an owner list without repetitions).
ThresholdReachable ==
    MsTypeOK /\ (initialized => threshold >= 1 /\ threshold <= Cardinality(Range(owners)))

\* Every execution had as many different approvers as the threshold asked for at
\* that moment, and no proposal was executed twice; with ThresholdReachable.
DistinctQuorum ==
    /\ ThresholdReachable
    /\ \A id \in MsIds :
         /\ Len(quorums[id]) <= 1
         /\ \A k \in DOMAIN quorums[id] :
               Cardinality(quorums[id][k].by) >= quorums[id][k].needed
         /\ Distinct(proposals[id].approvals)
=============================================================================
