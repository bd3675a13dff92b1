------------------------------ MODULE Governor ------------------------------
(***************************************************************************)
(* RefractGovernor: token-weighted proposals.  The tokens are external:    *)
(* any holder may transfer between any two steps, cast_vote reads the      *)
(* balance of the moment, and set_config may replace the voting token      *)
(* while votes are open.  Calls that return Err or trap leave no write.    *)
(* The timelock and the targets are external here; GovernedTimelock.tla    *)
(* composes this module with Timelock.tla.                                 *)
(***************************************************************************)
EXTENDS Integers, FiniteSets, Collections

CONSTANTS Holders,         \* token holders: proposers and voters
          Tokens,          \* the tokens a configuration may name
          Supplies,        \* initial balances: a set of functions Tokens -> [Holders -> Nat]
          Configs,         \* the GovernorConfig values initialize and set_config are called with
          MaxProposals,    \* bound on the proposals made
          MaxTransfers,    \* bound on the token transfers
          MaxTime          \* bound on the ledger time

GovernorConfig == [token : Tokens, voting_period : Nat, quorum_bps : Nat,
                   proposal_threshold : Nat, total_supply : Nat]

ASSUME GovernorConstants ==
    /\ IsFiniteSet(Holders) /\ IsFiniteSet(Tokens)
    /\ Supplies \subseteq [Tokens -> [Holders -> Nat]]
    /\ Configs \subseteq GovernorConfig
    /\ MaxProposals \in Nat /\ MaxTransfers \in Nat /\ MaxTime \in Nat

VARIABLES now,          \* env.ledger().timestamp()
          installed,    \* DataKey::Admin is set
          config,       \* DataKey::Config
          timelockSet,  \* DataKey::Timelock is set
          proposalCount,\* DataKey::NextId
          proposals,    \* DataKey::Proposal(id)
          balance,      \* balance[t]: the balances of token t
          \* History, read by no action:
          transfers,    \* transfers made
          moved,        \* moved[p][t]: tokens t transferred since p was proposed
          weighed,      \* weighed[p][t]: the part of p's tally weighed in token t
          quorumMet     \* quorumMet[p]: whether the tally of p reached the quorum asked of it

token == <<balance, transfers, moved>>
governor == <<installed, config, timelockSet, proposalCount, proposals, weighed, quorumMet>>
govVars == <<now, governor, token>>

ProposalIds == 0 .. MaxProposals - 1

ProposalStatus == {"Absent", "Active", "Defeated", "Succeeded", "Queued", "Executed"}

ProposalState == [status : ProposalStatus, vote_end : Nat, votes_for : Nat, votes_against : Nat,
                  voters : SUBSET Holders]

NoProposal == [status |-> "Absent", vote_end |-> 0, votes_for |-> 0, votes_against |-> 0,
               voters |-> {}]

NoneOf == [t \in Tokens |-> 0]

GovInit ==
    /\ now = 0
    /\ installed = FALSE
    /\ config \in Configs      \* not read before initialize writes it
    /\ timelockSet = FALSE
    /\ proposalCount = 0
    /\ proposals = [p \in ProposalIds |-> NoProposal]
    /\ balance \in Supplies
    /\ transfers = 0
    /\ moved = [p \in ProposalIds |-> NoneOf]
    /\ weighed = [p \in ProposalIds |-> NoneOf]
    /\ quorumMet = [p \in ProposalIds |-> FALSE]

-----------------------------------------------------------------------------
GovTick == /\ now < MaxTime
           /\ now' = now + 1
           /\ UNCHANGED <<governor, token>>

\* A transfer of a voting token (external).
Transfer(t, from, to, amount) ==
    /\ transfers < MaxTransfers
    /\ from # to /\ amount > 0 /\ amount <= balance[t][from]
    /\ balance' = [balance EXCEPT ![t][from] = @ - amount, ![t][to] = @ + amount]
    /\ transfers' = transfers + 1
    /\ moved' = [p \in ProposalIds |->
                    IF p < proposalCount THEN [moved[p] EXCEPT ![t] = @ + amount] ELSE moved[p]]
    /\ UNCHANGED <<now, governor>>

initialize(cfg) ==
    /\ ~installed
    /\ installed' = TRUE
    /\ config' = cfg
    /\ proposalCount' = 0
    /\ UNCHANGED <<now, timelockSet, proposals, weighed, quorumMet, token>>

set_timelock ==
    /\ installed
    /\ timelockSet' = TRUE
    /\ UNCHANGED <<now, installed, config, proposalCount, proposals, weighed, quorumMet, token>>

\* The whole configuration is replaced, the voting token with it.
set_config(cfg) ==
    /\ installed
    /\ config' = cfg
    /\ UNCHANGED <<now, installed, timelockSet, proposalCount, proposals, weighed, quorumMet, token>>

propose(proposer) ==
    /\ installed
    /\ balance[config.token][proposer] >= config.proposal_threshold
    /\ proposalCount \in ProposalIds
    /\ proposals' = [proposals EXCEPT ![proposalCount] =
                        [NoProposal EXCEPT !.status = "Active",
                                           !.vote_end = now + config.voting_period]]
    /\ proposalCount' = proposalCount + 1
    /\ UNCHANGED <<now, installed, config, timelockSet, weighed, quorumMet, token>>

Weight(voter) == balance[config.token][voter]

AddVote(voter, p, support) ==
    /\ proposals' = [proposals EXCEPT
                        ![p].votes_for = IF support THEN @ + Weight(voter) ELSE @,
                        ![p].votes_against = IF support THEN @ ELSE @ + Weight(voter),
                        ![p].voters = @ \cup {voter}]
    /\ weighed' = [weighed EXCEPT ![p][config.token] = @ + Weight(voter)]
    /\ UNCHANGED <<now, installed, config, timelockSet, proposalCount, quorumMet, token>>

VotingOpen(p) == proposals[p].status = "Active" /\ now <= proposals[p].vote_end

cast_vote(voter, p, support) ==
    /\ VotingOpen(p)
    /\ voter \notin proposals[p].voters
    /\ AddVote(voter, p, support)

Votes(p) == proposals[p].votes_for + proposals[p].votes_against
QuorumRequired == (config.total_supply * config.quorum_bps) \div 10000
Carried(p) == Votes(p) >= QuorumRequired /\ proposals[p].votes_for > proposals[p].votes_against

Tally(p) ==
    /\ proposals' = [proposals EXCEPT ![p].status = IF Carried(p) THEN "Succeeded" ELSE "Defeated"]
    /\ quorumMet' = [quorumMet EXCEPT ![p] = Votes(p) >= QuorumRequired]
    /\ UNCHANGED <<now, installed, config, timelockSet, proposalCount, weighed, token>>

\* Mutant: the tally may be taken in the last second of the vote.
finalizeEarly(p) ==
    /\ proposals[p].status = "Active"
    /\ now >= proposals[p].vote_end
    /\ Tally(p)

\* On any other status finalize returns it and writes nothing.
finalize(p) ==
    /\ proposals[p].status = "Active"
    /\ now > proposals[p].vote_end
    /\ Tally(p)

SetProposal(p, from, to) ==
    /\ proposals[p].status \in from
    /\ proposals' = [proposals EXCEPT ![p].status = to]
    /\ UNCHANGED <<now, installed, config, timelockSet, proposalCount, weighed, quorumMet, token>>

\* Mutant: a finalized proposal is queued whatever its outcome.
queueAny(p) == SetProposal(p, {"Succeeded", "Defeated"}, "Queued")

\* The governor's own writes of queue and execute; the call each makes is
\* external and, if it traps, there is no step.
queue(p) == SetProposal(p, {"Succeeded"}, "Queued")
execute(p) == SetProposal(p, {"Queued"}, "Executed")

GovNext ==
    \/ GovTick
    \/ \E t \in Tokens, from, to \in Holders : \E amount \in 1 .. balance[t][from] :
          Transfer(t, from, to, amount)
    \/ \E cfg \in Configs : initialize(cfg)
    \/ set_timelock
    \/ \E cfg \in Configs : set_config(cfg)
    \/ \E h \in Holders : propose(h)
    \/ \E v \in Holders, p \in ProposalIds, s \in BOOLEAN : cast_vote(v, p, s)
    \/ \E p \in ProposalIds : finalize(p)
    \/ \E p \in ProposalIds : queue(p)
    \/ \E p \in ProposalIds : execute(p)

GovSpec == GovInit /\ [][GovNext]_govVars

-----------------------------------------------------------------------------
\* Type of the governor's storage and of the tokens' balances.
GovTypeOK ==
    /\ now \in 0 .. MaxTime
    /\ installed \in BOOLEAN /\ timelockSet \in BOOLEAN
    /\ config \in Configs
    /\ proposalCount \in 0 .. MaxProposals
    /\ proposals \in [ProposalIds -> ProposalState]
    /\ balance \in [Tokens -> [Holders -> Nat]]
    /\ transfers \in Nat
    /\ moved \in [ProposalIds -> [Tokens -> Nat]]
    /\ weighed \in [ProposalIds -> [Tokens -> Nat]]
    /\ quorumMet \in [ProposalIds -> BOOLEAN]

TokenSupply(t) == SumOver(balance[t], Holders)

\* A tally is what was weighed in each of the tokens that were the voting token
\* while the vote was open, and of each no more than its supply and what was
\* transferred meanwhile: nobody's tokens count twice unless they change hands
\* (cast_vote reads live balances) or the configuration replaces the token.
TallyBounded ==
    GovTypeOK /\ \A p \in ProposalIds :
        /\ Votes(p) = SumOver(weighed[p], Tokens)
        /\ \A t \in Tokens : weighed[p][t] <= TokenSupply(t) + moved[p][t]

\* The outcome finalize recorded stands: a proposal past Succeeded still shows a
\* majority for it and met its quorum, and a Defeated one lacked one of the two,
\* whatever was voted, transferred or reconfigured since; with TallyBounded.
OutcomeStands ==
    TallyBounded /\ \A p \in ProposalIds :
        LET majority == proposals[p].votes_for > proposals[p].votes_against
        IN /\ proposals[p].status \in {"Succeeded", "Queued", "Executed"} => majority /\ quorumMet[p]
           /\ proposals[p].status = "Defeated" => ~(majority /\ quorumMet[p])
=============================================================================
