-------------------------- MODULE GovernanceProofs --------------------------
(***************************************************************************)
(* Proofs about the governor, alone and driving the timelock, for any      *)
(* token holders, configurations and numbers of proposals.  What           *)
(* TimelockProofs shows of a step of the timelock is used as it stands.    *)
(***************************************************************************)
EXTENDS GovernedTimelock, CollectionTheorems

\* A proposal as the vote left it.
Outcome(q, quorum) ==
  /\ q.status \in {"Succeeded", "Queued", "Executed"} => q.votes_for > q.votes_against /\ quorum
  /\ q.status = "Defeated" => ~(q.votes_for > q.votes_against /\ quorum)
  /\ q.status \in {"Succeeded", "Queued", "Executed"} => now > q.vote_end

\* Proposals occupy the ids below proposalCount, and each shows how its vote ended.
GovInv ==
  /\ GovTypeOK
  /\ \A p \in ProposalIds : p >= proposalCount => proposals[p] = NoProposal
  /\ ~installed => proposalCount = 0
  /\ \A p \in ProposalIds : Outcome(proposals[p], quorumMet[p])

\* What the holders who have not voted on p could still add to its tally in token t.
Uncast(p, t) ==
  SumOver([h \in Holders |-> IF h \in proposals[p].voters THEN 0 ELSE balance[t][h]], Holders)

\* Of each token, what was weighed or is still to be cast exceeds the supply by
\* what changed hands; and the tally is what was weighed.
TallyInv ==
  \A p \in ProposalIds :
    /\ Votes(p) = SumOver(weighed[p], Tokens)
    /\ \A t \in Tokens : weighed[p][t] + Uncast(p, t) <= TokenSupply(t) + moved[p][t]

\* The fields of a stored proposal.
LEMMA ProposalFields ==
  ASSUME NEW q \in ProposalState
  PROVE  /\ q.status \in ProposalStatus /\ q.vote_end \in Nat /\ q.votes_for \in Nat
         /\ q.votes_against \in Nat /\ q.voters \subseteq Holders
  BY DEF ProposalState

\* No entrypoint writes a malformed proposal, or one whose outcome is wrong.
LEMMA ProposalWritten ==
  ASSUME GovInv, NEW p \in ProposalIds, NEW q \in ProposalState, NEW b \in BOOLEAN,
         Outcome(q, b), p < proposalCount',
         proposals' = [proposals EXCEPT ![p] = q],
         quorumMet' = [quorumMet EXCEPT ![p] = b],
         proposalCount' \in {proposalCount, proposalCount + 1}, proposalCount' \in 0 .. MaxProposals,
         weighed' \in [ProposalIds -> [Tokens -> Nat]],
         installed,
         UNCHANGED <<now, installed, config, timelockSet, token>>
  PROVE  GovInv'
  <1>1. GovTypeOK'
    BY DEF GovInv, GovTypeOK, token
  <1>2. proposals'[p] = q /\ quorumMet'[p] = b
        /\ \A r \in ProposalIds : r # p => proposals'[r] = proposals[r] /\ quorumMet'[r] = quorumMet[r]
    BY DEF GovInv, GovTypeOK
  <1>3. \A r \in ProposalIds : r >= proposalCount' => proposals'[r] = NoProposal
    <2>1. proposalCount \in Nat /\ p \in Nat /\ \A r \in ProposalIds : r \in Nat
      BY DEF GovInv, GovTypeOK, ProposalIds
    <2> QED  BY <1>2, <2>1 DEF GovInv
  <1>4. \A r \in ProposalIds : Outcome(proposals[r], quorumMet[r])'
    BY <1>2 DEF GovInv, Outcome
  <1> QED  BY <1>1, <1>3, <1>4 DEF GovInv

\* The configuration in force names one of the tokens.
LEMMA ConfiguredToken == GovTypeOK => config.token \in Tokens
  BY GovernorConstants DEF GovTypeOK, GovernorConfig

\* Nothing was proposed to begin with.
LEMMA GovInvInit == GovInit => GovInv /\ TallyInv
  <1> SUFFICES ASSUME GovInit  PROVE GovInv /\ TallyInv
    OBVIOUS
  <1>1. NoProposal \in ProposalState
    BY DEF NoProposal, ProposalState, ProposalStatus
  <1>2. GovInv
    <2>1. 0 \in 0 .. MaxTime /\ 0 \in 0 .. MaxProposals
      BY GovernorConstants
    <2>2. GovTypeOK
      BY <1>1, <2>1, GovernorConstants DEF GovInit, GovTypeOK, NoneOf
    <2>3. \A p \in ProposalIds : Outcome(proposals[p], quorumMet[p])
      BY DEF GovInit, Outcome, NoProposal
    <2> QED  BY <2>2, <2>3 DEF GovInit, GovInv
  <1>3. ASSUME NEW p \in ProposalIds, NEW t \in Tokens
        PROVE  weighed[p][t] + Uncast(p, t) <= TokenSupply(t) + moved[p][t]
    <2> DEFINE f == [h \in Holders |-> IF h \in proposals[p].voters THEN 0 ELSE balance[t][h]]
    <2>1. /\ proposals[p] = NoProposal /\ moved[p][t] = 0 /\ weighed[p][t] = 0
          /\ balance \in [Tokens -> [Holders -> Nat]]
      BY GovernorConstants DEF GovInit, NoneOf
    <2>2. \A h \in Holders : f[h] = balance[t][h] /\ balance[t][h] \in Int
      BY <2>1 DEF NoProposal
    <2> HIDE DEF f
    <2>4. SumOver(f, Holders) = SumOver(balance[t], Holders) /\ SumOver(balance[t], Holders) \in Int
      BY <2>2, GovernorConstants, SumSame, SumInt
    <2>5. Uncast(p, t) = SumOver(f, Holders)
      BY DEF Uncast, f
    <2> QED  BY <2>1, <2>4, <2>5 DEF TokenSupply
  <1>4. ASSUME NEW p \in ProposalIds  PROVE Votes(p) = SumOver(weighed[p], Tokens)
    <2>1. Votes(p) = 0
      BY DEF GovInit, Votes, NoProposal
    <2>2. \A t \in Tokens : weighed[p][t] = 0
      BY DEF GovInit, NoneOf
    <2>3. SumOver(weighed[p], Tokens) = 0
      BY <2>2, GovernorConstants, SumZero
    <2> QED  BY <2>1, <2>3
  <1> QED  BY <1>2, <1>3, <1>4 DEF TallyInv

\* Every entrypoint keeps the outcome of every vote.
LEMMA GovInvStep == GovInv /\ [GovNext]_govVars => GovInv'
  <1> SUFFICES ASSUME GovInv, [GovNext]_govVars  PROVE GovInv'
    OBVIOUS
  <1> USE GovernorConstants DEF governor, token
  <1>0. /\ GovTypeOK /\ now \in Nat /\ proposalCount \in Nat
        /\ \A p \in ProposalIds : p \in Nat /\ proposals[p] \in ProposalState
                                  /\ quorumMet[p] \in BOOLEAN
                                  /\ Outcome(proposals[p], quorumMet[p])
    BY DEF GovInv, GovTypeOK, ProposalIds
  <1>1. CASE GovTick
    <2>1. GovTypeOK'
      BY <1>0, <1>1 DEF GovTypeOK, GovTick
    <2>2. \A p \in ProposalIds : Outcome(proposals[p], quorumMet[p])'
      BY <1>0, <1>1, ProposalFields DEF GovTick, Outcome
    <2> QED  BY <1>1, <2>1, <2>2 DEF GovInv, GovTick
  <1>2. ASSUME NEW t \in Tokens, NEW from \in Holders, NEW to \in Holders,
               NEW amount \in 1 .. balance[t][from], Transfer(t, from, to, amount)
        PROVE  GovInv'
    <2>0. amount \in Nat /\ balance[t] \in [Holders -> Nat] /\ amount <= balance[t][from]
      BY <1>0, <1>2 DEF GovTypeOK, Transfer
    <2>1. balance' \in [Tokens -> [Holders -> Nat]]
      <3> DEFINE b == [balance[t] EXCEPT ![from] = @ - amount, ![to] = @ + amount]
      <3>1. balance[t][from] \in Nat /\ balance[t][to] \in Nat /\ balance[t][from] - amount \in Nat
        BY <2>0
      <3>2. b \in [Holders -> Nat]
        BY <2>0, <3>1
      <3>3. balance' = [balance EXCEPT ![t] = b]
        BY <1>0, <1>2 DEF Transfer, GovTypeOK
      <3> QED  BY <1>0, <3>2, <3>3 DEF GovTypeOK
    <2>2. moved' \in [ProposalIds -> [Tokens -> Nat]] /\ transfers' \in Nat
      <3>1. \A p \in ProposalIds : [moved[p] EXCEPT ![t] = @ + amount] \in [Tokens -> Nat]
        BY <1>0, <2>0 DEF GovTypeOK
      <3> QED  BY <1>0, <1>2, <3>1 DEF GovTypeOK, Transfer
    <2>3. UNCHANGED <<now, governor>>
      BY <1>2 DEF Transfer
    <2> QED  BY <1>0, <2>1, <2>2, <2>3 DEF GovInv, GovTypeOK, Outcome
  <1>3. ASSUME NEW cfg \in Configs, initialize(cfg)  PROVE GovInv'
    BY <1>0, <1>3 DEF GovInv, GovTypeOK, initialize, Outcome
  <1>4. CASE set_timelock
    BY <1>0, <1>4 DEF GovInv, GovTypeOK, set_timelock, Outcome
  <1>5. ASSUME NEW cfg \in Configs, set_config(cfg)  PROVE GovInv'
    BY <1>0, <1>5 DEF GovInv, GovTypeOK, set_config, Outcome
  <1>6. ASSUME NEW h \in Holders, propose(h)  PROVE GovInv'
    <2> DEFINE q == [NoProposal EXCEPT !.status = "Active", !.vote_end = now + config.voting_period]
    <2>1. PICK p \in ProposalIds : p = proposalCount
      BY <1>6 DEF propose
    <2>2. config.voting_period \in Nat
      BY <1>0 DEF GovTypeOK, GovernorConfig
    <2>3. q \in ProposalState /\ q.status = "Active"
      <3>1. now + config.voting_period \in Nat
        BY <1>0, <2>2
      <3>2. NoProposal \in ProposalState
        BY DEF NoProposal, ProposalState, ProposalStatus
      <3>3. \A o \in ProposalState, e \in Nat :
              /\ [o EXCEPT !.status = "Active", !.vote_end = e] \in ProposalState
              /\ [o EXCEPT !.status = "Active", !.vote_end = e].status = "Active"
        BY DEF ProposalState, ProposalStatus
      <3> QED  BY <3>1, <3>2, <3>3
    <2>4. /\ proposals' = [proposals EXCEPT ![p] = q] /\ proposalCount' = proposalCount + 1
          /\ UNCHANGED <<now, installed, config, timelockSet, weighed, quorumMet, token>> /\ installed
      BY <1>6, <2>1 DEF propose
    <2>5. quorumMet' = [quorumMet EXCEPT ![p] = quorumMet[p]] /\ quorumMet[p] \in BOOLEAN
      BY <1>0, <2>4 DEF GovTypeOK
    <2>6. p < proposalCount' /\ proposalCount' \in 0 .. MaxProposals
      BY <2>1, <2>4 DEF ProposalIds
    <2>7. Outcome(q, quorumMet[p])
      BY <2>3 DEF Outcome
    <2>8. weighed' \in [ProposalIds -> [Tokens -> Nat]]
      BY <1>0, <2>4 DEF GovTypeOK
    <2> HIDE DEF q
    <2> QED  BY <2>3, <2>4, <2>5, <2>6, <2>7, <2>8, ProposalWritten
  <1>7. ASSUME NEW p \in ProposalIds, proposals[p].status # "Absent"
        PROVE  p < proposalCount /\ installed
    <2>1. p < proposalCount
      BY <1>0, <1>7 DEF GovInv, NoProposal
    <2> QED  BY <1>0, <2>1 DEF GovInv, GovTypeOK
  <1>8. ASSUME NEW v \in Holders, NEW p \in ProposalIds, NEW s \in BOOLEAN, cast_vote(v, p, s)
        PROVE  GovInv'
    <2> DEFINE o == proposals[p]
               yes == IF s THEN o.votes_for + Weight(v) ELSE o.votes_for
               no == IF s THEN o.votes_against ELSE o.votes_against + Weight(v)
               q == [o EXCEPT !.votes_for = yes, !.votes_against = no, !.voters = o.voters \cup {v}]
    <2>1. o \in ProposalState /\ o.status = "Active" /\ Weight(v) \in Nat
      BY <1>0, <1>8, ConfiguredToken DEF cast_vote, VotingOpen, GovTypeOK, Weight
    <2>2. yes \in Nat /\ no \in Nat /\ o.voters \cup {v} \in SUBSET Holders
      BY <2>1, ProposalFields
    <2>3. /\ proposals' = [proposals EXCEPT ![p] = q]
          /\ UNCHANGED <<now, installed, config, timelockSet, proposalCount, quorumMet, token>>
      BY <1>8, <2>1 DEF cast_vote, AddVote, ProposalState
    <2>8. weighed' \in [ProposalIds -> [Tokens -> Nat]]
      BY <1>0, <1>8, <2>1, ConfiguredToken DEF cast_vote, AddVote, GovTypeOK
    <2> HIDE DEF yes, no
    <2>4. q \in ProposalState /\ q.status = "Active"
      BY <2>1, <2>2 DEF ProposalState
    <2> HIDE DEF q
    <2>5. quorumMet' = [quorumMet EXCEPT ![p] = quorumMet[p]] /\ quorumMet[p] \in BOOLEAN
      BY <1>0, <2>3 DEF GovTypeOK
    <2>6. Outcome(q, quorumMet[p])
      BY <2>4 DEF Outcome
    <2>7. p < proposalCount' /\ proposalCount' = proposalCount /\ proposalCount' \in 0 .. MaxProposals
          /\ installed
      BY <1>0, <1>7, <2>1, <2>3 DEF GovTypeOK
    <2> QED  BY <2>3, <2>4, <2>5, <2>6, <2>7, <2>8, ProposalWritten
  <1>9. ASSUME NEW p \in ProposalIds, finalize(p)  PROVE GovInv'
    <2> DEFINE o == proposals[p]
               met == Votes(p) >= QuorumRequired
               q == [o EXCEPT !.status = IF Carried(p) THEN "Succeeded" ELSE "Defeated"]
    <2>1. o \in ProposalState /\ o.status = "Active" /\ now > o.vote_end
      BY <1>0, <1>9 DEF finalize
    <2>2. /\ proposals' = [proposals EXCEPT ![p] = q] /\ quorumMet' = [quorumMet EXCEPT ![p] = met]
          /\ UNCHANGED <<now, installed, config, timelockSet, proposalCount, weighed, token>>
      BY <1>9 DEF finalize, Tally
    <2>3. /\ q \in ProposalState /\ q.vote_end = o.vote_end /\ q.votes_for = o.votes_for
          /\ q.votes_against = o.votes_against
          /\ q.status = IF Carried(p) THEN "Succeeded" ELSE "Defeated"
      BY <2>1 DEF ProposalState, ProposalStatus
    <2>4. Carried(p) = (met /\ o.votes_for > o.votes_against) /\ met \in BOOLEAN
      BY DEF Carried
    <2> HIDE DEF q, met
    <2>5. Outcome(q, met)
      BY <2>1, <2>3, <2>4 DEF Outcome
    <2>7. p < proposalCount' /\ proposalCount' = proposalCount /\ proposalCount' \in 0 .. MaxProposals
          /\ installed
      BY <1>0, <1>7, <2>1, <2>2 DEF GovTypeOK
    <2>8. weighed' \in [ProposalIds -> [Tokens -> Nat]]
      BY <1>0, <2>2 DEF GovTypeOK
    <2> QED  BY <2>2, <2>3, <2>4, <2>5, <2>7, <2>8, ProposalWritten
  <1>10. ASSUME NEW p \in ProposalIds, NEW from \in {{"Succeeded"}, {"Queued"}},
                NEW to \in {"Queued", "Executed"}, SetProposal(p, from, to)
         PROVE  GovInv'
    <2> DEFINE o == proposals[p]
               q == [o EXCEPT !.status = to]
    <2>1. o \in ProposalState /\ o.status \in {"Succeeded", "Queued"} /\ Outcome(o, quorumMet[p])
      BY <1>0, <1>10 DEF SetProposal
    <2>2. /\ proposals' = [proposals EXCEPT ![p] = q]
          /\ UNCHANGED <<now, installed, config, timelockSet, proposalCount, weighed, quorumMet, token>>
      BY <1>10 DEF SetProposal
    <2>3. /\ q \in ProposalState /\ q.vote_end = o.vote_end /\ q.votes_for = o.votes_for
          /\ q.votes_against = o.votes_against /\ q.status = to
      BY <1>10, <2>1 DEF ProposalState, ProposalStatus
    <2> HIDE DEF q
    <2>4. quorumMet' = [quorumMet EXCEPT ![p] = quorumMet[p]] /\ quorumMet[p] \in BOOLEAN
      BY <1>0, <2>2 DEF GovTypeOK
    <2>5. Outcome(q, quorumMet[p])
      BY <1>10, <2>1, <2>3 DEF Outcome
    <2>7. p < proposalCount' /\ proposalCount' = proposalCount /\ proposalCount' \in 0 .. MaxProposals
          /\ installed
      BY <1>0, <1>7, <2>1, <2>2 DEF GovTypeOK
    <2>8. weighed' \in [ProposalIds -> [Tokens -> Nat]]
      BY <1>0, <2>2 DEF GovTypeOK
    <2> QED  BY <2>2, <2>3, <2>4, <2>5, <2>7, <2>8, ProposalWritten
  <1>11. CASE UNCHANGED govVars
    BY <1>0, <1>11 DEF govVars, GovInv, GovTypeOK, Outcome
  <1> QED  BY <1>1, <1>2, <1>3, <1>4, <1>5, <1>6, <1>8, <1>9, <1>10, <1>11
           DEF GovNext, queue, execute

\* A step that changes no votes and moves no token leaves the tallies alone; a vote
\* adds the same to the tally and to what was weighed in the token of the moment.
LEMMA VotesWeighed ==
  ASSUME GovInv, TallyInv, [GovNext]_govVars, NEW p \in ProposalIds
  PROVE  (Votes(p) = SumOver(weighed[p], Tokens))'
  <1> USE GovernorConstants DEF governor, token
  <1>0. /\ GovTypeOK /\ proposals[p] \in ProposalState
        /\ weighed \in [ProposalIds -> [Tokens -> Nat]] /\ weighed[p] \in [Tokens -> Nat]
        /\ Votes(p) = SumOver(weighed[p], Tokens)
    BY DEF GovInv, GovTypeOK, TallyInv
  <1>1. ASSUME weighed'[p] = weighed[p], proposals'[p].votes_for = proposals[p].votes_for,
               proposals'[p].votes_against = proposals[p].votes_against
        PROVE  (Votes(p) = SumOver(weighed[p], Tokens))'
    BY <1>0, <1>1 DEF Votes
  <1>2. ASSUME NEW h \in Holders, propose(h)  PROVE (Votes(p) = SumOver(weighed[p], Tokens))'
    <2>1. CASE p = proposalCount
      <3>1. proposals[p] = NoProposal
        BY <1>0, <2>1 DEF GovInv, GovTypeOK, ProposalIds
      <3>2. /\ proposals'[p].votes_for = proposals[p].votes_for
            /\ proposals'[p].votes_against = proposals[p].votes_against
        BY <1>0, <1>2, <2>1, <3>1 DEF propose, NoProposal, GovTypeOK
      <3> QED  BY <1>1, <1>2, <3>2 DEF propose
    <2>2. CASE p # proposalCount
      <3>1. proposals'[p] = proposals[p]
        BY <1>0, <1>2, <2>2 DEF propose, GovTypeOK
      <3> QED  BY <1>1, <1>2, <3>1 DEF propose
    <2> QED  BY <2>1, <2>2
  <1>3. ASSUME NEW v \in Holders, NEW r \in ProposalIds, NEW s \in BOOLEAN, cast_vote(v, r, s)
        PROVE  (Votes(p) = SumOver(weighed[p], Tokens))'
    <2>1. CASE p # r
      <3>1. proposals'[p] = proposals[p] /\ weighed'[p] = weighed[p]
        BY <1>0, <1>3, <2>1 DEF cast_vote, AddVote, GovTypeOK
      <3> QED  BY <1>1, <3>1
    <2>2. CASE p = r
      <3>0. config.token \in Tokens /\ Weight(v) \in Nat
        BY <1>0, ConfiguredToken DEF GovTypeOK, Weight
      <3>1. Votes(p)' = Votes(p) + Weight(v)
        <4>1. /\ proposals'[p].votes_for
                   = IF s THEN proposals[p].votes_for + Weight(v) ELSE proposals[p].votes_for
              /\ proposals'[p].votes_against
                   = IF s THEN proposals[p].votes_against ELSE proposals[p].votes_against + Weight(v)
          BY <1>0, <1>3, <2>2 DEF cast_vote, AddVote, GovTypeOK, ProposalState
        <4> QED  BY <1>0, <3>0, <4>1, ProposalFields DEF Votes
      <3>2. /\ weighed'[p][config.token] = weighed[p][config.token] + Weight(v)
            /\ \A u \in Tokens \ {config.token} : weighed'[p][u] = weighed[p][u]
        BY <1>0, <1>3, <2>2, <3>0 DEF cast_vote, AddVote
      <3>3. SumOver(weighed'[p], Tokens)
              = SumOver(weighed[p], Tokens) - weighed[p][config.token] + weighed'[p][config.token]
        <4>1. (\A u \in Tokens : weighed[p][u] \in Int) /\ weighed'[p][config.token] \in Int
          BY <1>0, <3>0, <3>2
        <4> QED  BY <3>0, <3>2, <4>1, SumChange
      <3>4. SumOver(weighed[p], Tokens) \in Nat /\ weighed[p][config.token] \in Nat
        BY <1>0, <3>0, SumNat
      <3> QED  BY <1>0, <3>0, <3>1, <3>2, <3>3, <3>4
    <2> QED  BY <2>1, <2>2
  <1>4. ASSUME NEW r \in ProposalIds, NEW status, proposals' = [proposals EXCEPT ![r].status = status],
               weighed' = weighed
        PROVE  (Votes(p) = SumOver(weighed[p], Tokens))'
    <2>1. /\ proposals'[p].votes_for = proposals[p].votes_for
          /\ proposals'[p].votes_against = proposals[p].votes_against
      BY <1>0, <1>4 DEF GovTypeOK, ProposalState
    <2> QED  BY <1>1, <1>4, <2>1
  <1>5. ASSUME NEW r \in ProposalIds, finalize(r) \/ queue(r) \/ execute(r)
        PROVE  (Votes(p) = SumOver(weighed[p], Tokens))'
    BY <1>4, <1>5 DEF finalize, Tally, queue, execute, SetProposal
  <1>6. ASSUME UNCHANGED <<proposals, weighed>>  PROVE (Votes(p) = SumOver(weighed[p], Tokens))'
    BY <1>1, <1>6
  <1>7. ASSUME NEW t, NEW from, NEW to, NEW amount, Transfer(t, from, to, amount)
        PROVE  UNCHANGED <<proposals, weighed>>
    BY <1>7 DEF Transfer
  <1>8. ASSUME NEW cfg, initialize(cfg) \/ set_config(cfg)  PROVE UNCHANGED <<proposals, weighed>>
    BY <1>8 DEF initialize, set_config
  <1>9. CASE GovTick \/ set_timelock \/ UNCHANGED govVars
    BY <1>6, <1>9 DEF GovTick, set_timelock, govVars
  <1> HIDE DEF governor, token
  <1> QED  BY <1>2, <1>3, <1>5, <1>6, <1>7, <1>8, <1>9 DEF GovNext

\* The bound survives every step, for each token on its own: a vote moves tokens from
\* those still to be cast into the tally, a transfer adds no more than it moves, and
\* a new voting token starts from what was weighed in it before.
LEMMA WeightBounded ==
  ASSUME GovInv, GovInv', TallyInv, [GovNext]_govVars, NEW p \in ProposalIds, NEW t \in Tokens
  PROVE  (weighed[p][t] + Uncast(p, t) <= TokenSupply(t) + moved[p][t])'
  <1> USE GovernorConstants DEF governor, token
  <1> DEFINE Left == [h \in Holders |-> IF h \in proposals[p].voters THEN 0 ELSE balance[t][h]]
             Bound == weighed[p][t] + Uncast(p, t) <= TokenSupply(t) + moved[p][t]
  <1>0. /\ GovTypeOK /\ GovTypeOK' /\ config.token \in Tokens
        /\ proposals[p] \in ProposalState /\ proposals'[p] \in ProposalState
        /\ balance[t] \in [Holders -> Nat] /\ balance'[t] \in [Holders -> Nat]
        /\ moved[p][t] \in Nat /\ moved'[p][t] \in Nat
        /\ weighed[p][t] \in Nat /\ weighed'[p][t] \in Nat
    BY ConfiguredToken DEF GovInv, GovTypeOK
  <1>a. /\ \A h \in Holders : Left[h] \in Int /\ Left'[h] \in Int
        /\ \A h \in Holders : balance[t][h] \in Int /\ balance'[t][h] \in Int
        /\ \A h \in Holders : Left[h] = IF h \in proposals[p].voters THEN 0 ELSE balance[t][h]
        /\ \A h \in Holders : Left'[h] = IF h \in proposals'[p].voters THEN 0 ELSE balance'[t][h]
    BY <1>0
  <1>b. Uncast(p, t) = SumOver(Left, Holders) /\ Uncast(p, t)' = SumOver(Left', Holders)
    BY DEF Uncast
  <1> HIDE DEF Left
  <1>c. /\ Uncast(p, t) \in Int /\ Uncast(p, t)' \in Int
        /\ TokenSupply(t) \in Int /\ TokenSupply(t)' \in Int
    BY <1>a, <1>b, SumInt DEF TokenSupply
  <1>d. Bound
    BY DEF TallyInv
  \* A proposal whose votes do not change, while this token does not move.
  <1>1. ASSUME balance'[t] = balance[t], moved'[p][t] = moved[p][t], weighed'[p][t] = weighed[p][t],
               proposals'[p].voters = proposals[p].voters
        PROVE  Bound'
    <2>1. \A h \in Holders : Left'[h] = Left[h]
      BY <1>1, <1>a
    <2>2. Uncast(p, t)' = Uncast(p, t)
      BY <1>b, <2>1, SumSame
    <2>3. TokenSupply(t)' = TokenSupply(t)
      BY <1>1 DEF TokenSupply
    <2> QED  BY <1>1, <1>d, <2>2, <2>3
  <1>2. ASSUME NEW u \in Tokens, NEW from \in Holders, NEW to \in Holders,
               NEW amount \in 1 .. balance[u][from], Transfer(u, from, to, amount)
        PROVE  Bound'
    <2>0. UNCHANGED <<proposals, weighed>>
      BY <1>2 DEF Transfer
    <2>a. CASE u # t
      <3>1. balance'[t] = balance[t]
        BY <1>0, <1>2, <2>a DEF Transfer, GovTypeOK
      <3>2. moved'[p][t] = moved[p][t]
        BY <1>0, <1>2, <2>a DEF Transfer, GovTypeOK
      <3> QED  BY <1>1, <2>0, <3>1, <3>2
    <2>b. CASE u = t
      <3>0. amount \in Nat /\ amount > 0 /\ from # to
        BY <1>0, <1>2, <2>b DEF Transfer
      <3>1. /\ balance'[t][from] = balance[t][from] - amount
            /\ balance'[t][to] = balance[t][to] + amount
            /\ \A h \in Holders \ {from, to} : balance'[t][h] = balance[t][h]
        BY <1>0, <1>2, <2>b DEF Transfer, GovTypeOK
      <3>2. TokenSupply(t)' = TokenSupply(t)
        <4>1. SumOver(balance'[t], Holders) = SumOver(balance[t], Holders)
                 - balance[t][from] + balance'[t][from] - balance[t][to] + balance'[t][to]
          BY <1>a, <3>0, <3>1, SumChangeTwo
        <4>2. balance[t][from] \in Int /\ balance[t][to] \in Int /\ SumOver(balance[t], Holders) \in Int
          BY <1>a, SumInt
        <4> QED  BY <3>0, <3>1, <4>1, <4>2 DEF TokenSupply
      <3>4. Uncast(p, t)' = Uncast(p, t) - Left[from] + Left'[from] - Left[to] + Left'[to]
        <4>1. \A h \in Holders \ {from, to} : Left'[h] = Left[h]
          BY <1>a, <2>0, <3>1
        <4> QED  BY <1>a, <1>b, <3>0, <4>1, SumChangeTwo
      <3>5. Left'[from] <= Left[from] /\ Left'[to] <= Left[to] + amount
        <4>1. /\ from \in proposals[p].voters => Left[from] = 0 /\ Left'[from] = 0
              /\ from \notin proposals[p].voters
                   => Left[from] = balance[t][from] /\ Left'[from] = balance'[t][from]
              /\ to \in proposals[p].voters => Left[to] = 0 /\ Left'[to] = 0
              /\ to \notin proposals[p].voters => Left[to] = balance[t][to] /\ Left'[to] = balance'[t][to]
          BY <1>a, <2>0
        <4>2. balance[t][from] \in Int /\ balance[t][to] \in Int
          BY <1>a
        <4> QED  BY <3>0, <3>1, <4>1, <4>2
      <3>6. CASE p < proposalCount
        <4>1. moved'[p][t] = moved[p][t] + amount
          BY <1>0, <1>2, <2>b, <3>6 DEF Transfer, GovTypeOK
        <4>2. Left[from] \in Int /\ Left'[from] \in Int /\ Left[to] \in Int /\ Left'[to] \in Int
          BY <1>a
        <4>3. weighed'[p][t] = weighed[p][t]
          BY <2>0
        <4> QED  BY <1>0, <1>c, <1>d, <3>0, <3>2, <3>4, <3>5, <4>1, <4>2, <4>3
      <3>7. CASE ~(p < proposalCount)
        <4>1. proposals[p] = NoProposal
          BY <1>0, <3>7 DEF GovInv, GovTypeOK, ProposalIds
        <4>2. Votes(p) = 0 /\ proposals'[p].voters = {}
          BY <2>0, <4>1 DEF Votes, NoProposal
        <4>3. weighed'[p][t] = 0
          <5>1. \A x \in Tokens : weighed[p][x] \in Nat
            BY <1>0 DEF GovTypeOK
          <5>2. weighed[p][t] <= SumOver(weighed[p], Tokens) /\ SumOver(weighed[p], Tokens) = 0
            BY <4>2, <5>1, SumAtLeast DEF TallyInv
          <5> QED  BY <1>0, <2>0, <5>2
        <4>4. \A h \in Holders : Left'[h] = balance'[t][h]
          BY <1>a, <4>2
        <4>5. Uncast(p, t)' = TokenSupply(t)'
          BY <1>b, <4>4, SumSame DEF TokenSupply
        <4> QED  BY <1>0, <1>c, <4>3, <4>5
      <3> QED  BY <3>6, <3>7
    <2> QED  BY <2>a, <2>b
  <1>3. ASSUME NEW h \in Holders, propose(h)  PROVE Bound'
    <2>1. CASE p = proposalCount
      <3>1. proposals[p] = NoProposal
        BY <1>0, <2>1 DEF GovInv, GovTypeOK, ProposalIds
      <3>2. proposals'[p].voters = proposals[p].voters
        BY <1>0, <1>3, <2>1, <3>1 DEF propose, NoProposal, GovTypeOK
      <3> QED  BY <1>1, <1>3, <3>2 DEF propose
    <2>2. CASE p # proposalCount
      <3>1. proposals'[p] = proposals[p]
        BY <1>0, <1>3, <2>2 DEF propose, GovTypeOK
      <3> QED  BY <1>1, <1>3, <3>1 DEF propose
    <2> QED  BY <2>1, <2>2
  <1>4. ASSUME NEW v \in Holders, NEW r \in ProposalIds, NEW s \in BOOLEAN, cast_vote(v, r, s)
        PROVE  Bound'
    <2>0. UNCHANGED token
      BY <1>4 DEF cast_vote, AddVote
    <2>1. CASE p # r
      <3>1. proposals'[p] = proposals[p] /\ weighed'[p] = weighed[p]
        BY <1>0, <1>4, <2>1 DEF cast_vote, AddVote, GovTypeOK
      <3> QED  BY <1>1, <2>0, <3>1
    <2>2. CASE p = r
      <3>1. v \notin proposals[p].voters /\ proposals'[p].voters = proposals[p].voters \cup {v}
        BY <1>0, <1>4, <2>2 DEF cast_vote, AddVote, GovTypeOK, ProposalState
      <3>2. weighed'[p][t] <= weighed[p][t] + balance[t][v]
        <4>1. CASE t = config.token
          <5>1. weighed'[p][t] = weighed[p][t] + balance[t][v]
            BY <1>0, <1>4, <2>2, <4>1 DEF cast_vote, AddVote, GovTypeOK, Weight
          <5> QED  BY <1>0, <5>1
        <4>2. CASE t # config.token
          <5>1. weighed'[p][t] = weighed[p][t]
            BY <1>0, <1>4, <2>2, <4>2 DEF cast_vote, AddVote, GovTypeOK
          <5> QED  BY <1>0, <5>1
        <4> QED  BY <4>1, <4>2
      <3>3. Left[v] = balance[t][v] /\ Left'[v] = 0 /\ \A h \in Holders \ {v} : Left'[h] = Left[h]
        BY <1>a, <2>0, <3>1
      <3>4. Uncast(p, t)' = Uncast(p, t) - Left[v] + Left'[v]
        BY <1>a, <1>b, <3>3, SumChange
      <3>5. TokenSupply(t)' = TokenSupply(t) /\ moved'[p][t] = moved[p][t]
        BY <2>0 DEF TokenSupply
      <3>6. balance[t][v] \in Int
        BY <1>a
      <3> QED  BY <1>0, <1>c, <1>d, <3>2, <3>3, <3>4, <3>5, <3>6
    <2> QED  BY <2>1, <2>2
  <1>5. ASSUME NEW r \in ProposalIds, NEW status, proposals' = [proposals EXCEPT ![r].status = status],
               UNCHANGED <<weighed, token>>
        PROVE  Bound'
    <2>1. proposals'[p].voters = proposals[p].voters
      BY <1>0, <1>5 DEF GovTypeOK, ProposalState
    <2> QED  BY <1>1, <1>5, <2>1
  <1>6. ASSUME NEW r \in ProposalIds, finalize(r) \/ queue(r) \/ execute(r)  PROVE Bound'
    BY <1>5, <1>6 DEF finalize, Tally, queue, execute, SetProposal
  <1>7. ASSUME UNCHANGED <<proposals, weighed, token>>  PROVE Bound'
    BY <1>1, <1>7
  <1> QED  BY <1>2, <1>3, <1>4, <1>6, <1>7
           DEF GovNext, govVars, GovTick, initialize, set_timelock, set_config

\* The invariants hold of every behaviour of the governor.
LEMMA GovInvHolds == GovSpec => [](GovInv /\ TallyInv)
  <1>1. GovInv /\ TallyInv /\ [GovNext]_govVars => (GovInv /\ TallyInv)'
    <2> SUFFICES ASSUME GovInv, TallyInv, [GovNext]_govVars  PROVE GovInv' /\ TallyInv'
      OBVIOUS
    <2>1. GovInv'
      BY GovInvStep
    <2>2. \A p \in ProposalIds : (Votes(p) = SumOver(weighed[p], Tokens))'
      BY VotesWeighed
    <2>3. \A p \in ProposalIds, t \in Tokens :
             (weighed[p][t] + Uncast(p, t) <= TokenSupply(t) + moved[p][t])'
      BY <2>1, WeightBounded
    <2> QED  BY <2>1, <2>2, <2>3 DEF TallyInv
  <1> QED  BY <1>1, GovInvInit, PTL DEF GovSpec

\* Votes not yet cast weigh something or nothing, so what was weighed is bounded.
LEMMA TallyInvBounds == GovInv /\ TallyInv => TallyBounded
  <1> SUFFICES ASSUME GovInv, TallyInv, NEW p \in ProposalIds, NEW t \in Tokens
               PROVE  weighed[p][t] <= TokenSupply(t) + moved[p][t]
    BY DEF TallyBounded, GovInv, TallyInv
  <1> DEFINE f == [h \in Holders |-> IF h \in proposals[p].voters THEN 0 ELSE balance[t][h]]
  <1>1. balance[t] \in [Holders -> Nat] /\ moved[p][t] \in Nat /\ weighed[p][t] \in Nat
    BY DEF GovInv, GovTypeOK
  <1>2. \A h \in Holders : f[h] \in Nat
    BY <1>1
  <1> HIDE DEF f
  <1>3. SumOver(f, Holders) \in Nat /\ SumOver(balance[t], Holders) \in Nat
    BY <1>1, <1>2, GovernorConstants, SumNat
  <1>4. Uncast(p, t) = SumOver(f, Holders)
    BY DEF Uncast, f
  <1> QED  BY <1>1, <1>3, <1>4 DEF TallyInv, TokenSupply

(* What finalize recorded stands, whatever is voted, transferred or        *)
(* reconfigured afterwards; a tally is what was weighed in the tokens that *)
(* were the voting token meanwhile, and of none of them more than its      *)
(* supply and what changed hands since the proposal was made.              *)
THEOREM OutcomesStand == GovSpec => []OutcomeStands
  <1>1. GovInv /\ TallyInv => OutcomeStands
    BY TallyInvBounds DEF GovInv, Outcome, OutcomeStands
  <1> QED  BY <1>1, GovInvHolds, PTL
-----------------------------------------------------------------------------
\* The governor driving the timelock.  Every step of the composed system is a step
\* of the governor, or leaves it alone, and likewise of the timelock, so that what
\* each component keeps on its own it keeps here.

\* The theorems of the timelock, for the timelock of the composition.
TLP == INSTANCE TimelockProofs WITH MaxReverts <- 0

\* The constants of the composed system are constants of the timelock.
LEMMA TimelockGiven ==
  /\ MaxOps \in Nat /\ MaxTime \in Nat /\ 0 \in Nat
  /\ Etas \subseteq Nat /\ Delays \subseteq Nat
  /\ KeeperRewards \subseteq Int /\ KeeperCaps \subseteq Int /\ EpochLens \subseteq Nat
  /\ NoKeeper \notin TLP!KeeperConfig
  BY GovernorConstants, CompositionConstants, KeeperUnset DEF TL!KeeperConfig, TLP!KeeperConfig

\* Every step of the system is a step of the governor or leaves it alone.
LEMMA GovernorSteps == [SysNext]_sysVars => [GovNext]_govVars
  <1> SUFFICES ASSUME [SysNext]_sysVars  PROVE [GovNext]_govVars
    OBVIOUS
  <1>1. CASE GovernorStep
    BY <1>1 DEF GovernorStep, GovNext
  <1>2. ASSUME NEW h \in Holders, NEW content, Propose(h, content)  PROVE GovNext
    BY <1>2 DEF Propose, GovNext
  <1>3. ASSUME NEW p \in ProposalIds, NEW eta, Queue(p, eta)  PROVE GovNext
    BY <1>3 DEF Queue, GovNext
  <1>4. ASSUME NEW p \in ProposalIds, ExecuteDirectly(p)  PROVE GovNext
    BY <1>4 DEF ExecuteDirectly, GovNext
  <1>5. CASE TimelockStep
    <2>1. UNCHANGED now
      BY <1>5 DEF TimelockStep, TL!execute, TL!retry, TL!MarkExecuted, TL!RolledBack, TL!Sweep,
                  TL!execute_due
    <2> QED  BY <1>5, <2>1 DEF TimelockStep, govVars
  <1>6. CASE UNCHANGED sysVars
    BY <1>6 DEF sysVars
  <1> QED  BY <1>1, <1>2, <1>3, <1>4, <1>5, <1>6 DEF SysNext

\* The timelock of the model is the timelock of the proofs.
LEMMA SameTimelock ==
  /\ TL!Ids = TLP!Ids
  /\ \A eta : TL!queue(eta) => TLP!queue(eta)
  /\ \A id : /\ TL!execute(id) => TLP!execute(id)
             /\ TL!retry(id) => TLP!retry(id)
             /\ TL!cancel(id) => TLP!cancel(id)
             /\ TL!cancel_failed(id) => TLP!cancel_failed(id)
             /\ TL!expire(id) => TLP!expire(id)
             /\ TL!Due(id) /\ TL!MarkExecuted(id) => TLP!execute(id)
             /\ TL!Retriable(id) /\ TL!MarkExecuted(id) => TLP!retry(id)
  /\ \A r, c, l : TL!set_keeper_config(r, c, l) => TLP!set_keeper_config(r, c, l)
  /\ TL!Sweep => TLP!Sweep
  <1> USE DEF TL!Ids, TLP!Ids
  <1>1. \A eta : TL!queue(eta) => TLP!queue(eta)
    BY DEF TL!queue, TLP!queue, TL!StoreOperation, TLP!StoreOperation
  <1>2. \A id : TL!MarkExecuted(id) => TLP!MarkExecuted(id)
    BY DEF TL!MarkExecuted, TLP!MarkExecuted
  <1>3. \A id : TL!RolledBack(id) => TLP!RolledBack(id)
    BY DEF TL!RolledBack, TLP!RolledBack, TL!OneMore, TLP!OneMore, TL!storage, TLP!storage
  <1>4. \A id : /\ TL!execute(id) => TLP!execute(id)
                /\ TL!retry(id) => TLP!retry(id)
                /\ TL!Due(id) /\ TL!MarkExecuted(id) => TLP!execute(id)
                /\ TL!Retriable(id) /\ TL!MarkExecuted(id) => TLP!retry(id)
    BY <1>2, <1>3 DEF TL!execute, TLP!execute, TL!retry, TLP!retry, TL!Due, TLP!Due,
                      TL!Retriable, TLP!Retriable
  <1>5. \A id : /\ TL!cancel(id) => TLP!cancel(id)
                /\ TL!cancel_failed(id) => TLP!cancel_failed(id)
                /\ TL!expire(id) => TLP!expire(id)
    BY DEF TL!cancel, TLP!cancel, TL!cancel_failed, TLP!cancel_failed, TL!expire, TLP!expire,
           TL!SetStatus, TLP!SetStatus, TL!history, TLP!history
  <1>6. TL!Sweep => TLP!Sweep
    <2>1. TL!DueIds = TLP!DueIds
      BY DEF TL!DueIds, TLP!DueIds, TL!Due, TLP!Due
    <2>2. TL!CurrentEpoch = TLP!CurrentEpoch
      BY DEF TL!CurrentEpoch, TLP!CurrentEpoch, TL!DefaultKeeper, TLP!DefaultKeeper
    <2>3. \A cfg, n : TL!Reward(cfg, n) = TLP!Reward(cfg, n)
      BY DEF TL!Reward, TLP!Reward, TL!Clamp0, TLP!Clamp0, TL!Least, TLP!Least
    <2>4. \A n : TL!settle_keeper_epoch(n) => TLP!settle_keeper_epoch(n)
      BY <2>2, <2>3 DEF TL!settle_keeper_epoch, TLP!settle_keeper_epoch
    <2>5. \A op : TL!Succeed(op) = TLP!Succeed(op) /\ TL!Fail(op) = TLP!Fail(op)
      BY DEF TL!Succeed, TLP!Succeed, TL!Fail, TLP!Fail
    <2>6. \A n : TL!OneMore(n) = TLP!OneMore(n)
      BY DEF TL!OneMore, TLP!OneMore
    <2>8. \A S : TL!Cardinality(S) = TLP!Cardinality(S)
      BY Zenon DEF TL!Cardinality, TLP!Cardinality
    <2>7. ASSUME NEW S, TL!execute_due(S)  PROVE TLP!execute_due(S)
      BY <2>1, <2>4, <2>5, <2>6, <2>7, <2>8 DEF TL!execute_due, TLP!execute_due
    <2> QED  BY <2>1, <2>7 DEF TL!Sweep, TLP!Sweep
  <1>7. \A r, c, l : TL!set_keeper_config(r, c, l) => TLP!set_keeper_config(r, c, l)
    BY DEF TL!set_keeper_config, TLP!set_keeper_config, TL!StoreKeeper, TLP!StoreKeeper,
           TL!NothingPaid, TLP!NothingPaid, TL!Times, TLP!Times
  <1> QED  BY <1>1, <1>4, <1>5, <1>6, <1>7

\* Every step of the system is a step of the timelock or leaves it alone.
LEMMA TimelockSteps == [SysNext]_sysVars => [TLP!Next]_(TLP!vars)
  <1> SUFFICES ASSUME [SysNext]_sysVars  PROVE [TLP!Next]_(TLP!vars)
    OBVIOUS
  <1> USE DEF timelock, TLP!vars, TLP!storage, TLP!history
  <1>1. CASE GovernorStep
    <2>1. CASE GovTick
      BY <1>1, <2>1 DEF GovernorStep, GovTick, TLP!Next, TLP!Tick
    <2>2. CASE UNCHANGED now
      BY <1>1, <2>2 DEF GovernorStep
    <2> QED  BY <1>1, <2>1, <2>2
             DEF GovernorStep, initialize, set_timelock, set_config, cast_vote, AddVote, finalize, Tally
  <1>2. ASSUME NEW h \in Holders, NEW content, Propose(h, content)  PROVE UNCHANGED TLP!vars
    BY <1>2 DEF Propose, propose
  <1>3. ASSUME NEW p \in ProposalIds, NEW eta \in Etas, Queue(p, eta)
        PROVE  [TLP!Next]_(TLP!vars)
    <2>1. CASE timelockSet
      BY <1>3, <2>1, SameTimelock DEF Queue, ForwardToTimelock, TLP!Next
    <2>2. CASE ~timelockSet
      BY <1>3, <2>2 DEF Queue, ForwardToTimelock, queue, SetProposal
    <2> QED  BY <2>1, <2>2
  <1>4. ASSUME NEW p \in ProposalIds, ExecuteDirectly(p)  PROVE [TLP!Next]_(TLP!vars)
    <2>1. ASSUME NEW fn, NEW arg, TimelockCall(fn, arg)  PROVE TLP!Next
      BY <2>1, SameTimelock DEF TimelockCall, TLP!Next
    <2>2. ASSUME NEW eta \in Etas, TL!queue(eta)  PROVE TLP!Next
      BY <2>2, SameTimelock DEF TLP!Next
    <2>3. CASE UNCHANGED timelock
      BY <1>4, <2>3 DEF ExecuteDirectly, execute, SetProposal
    <2> QED  BY <1>4, <2>1, <2>2, <2>3 DEF ExecuteDirectly
  <1>5. CASE TimelockStep
    BY <1>5, SameTimelock DEF TimelockStep, TLP!Next
  <1>6. CASE UNCHANGED sysVars
    BY <1>6 DEF sysVars, govVars
  <1> QED  BY <1>1, <1>2, <1>3, <1>4, <1>5, <1>6 DEF SysNext

\* Operation k, which stands in the timelock for the proposal it came from.
Forwarded(k) ==
  /\ origin[k] \in ProposalIds
  /\ proposals[origin[k]].status \in {"Queued", "Executed"}
  /\ queuedAt[k] > proposals[origin[k]].vote_end
  /\ route[k] = "execute" => /\ proposals[origin[k]].status = "Executed"
                             /\ payload[origin[k]].fn = "queue"
  /\ calls[k] > 0 => CallsTarget(k)

\* A target that obeys the timelock alone took no call from the governor.
DirectCalls ==
  /\ directAt \in [ProposalIds -> Int]
  /\ \A p \in ProposalIds : directAt[p] >= 0 =>
        /\ proposals[p].status = "Executed"
        /\ targetAdmin = "timelock" => payload[p].fn # "call"

\* The operations of the timelock were queued there after the vote of the proposal
\* they come from, and differ in it or in the way they took.
Handover ==
  /\ origin \in [TL!Ids -> Nat]
  /\ route \in [TL!Ids -> {"queue", "execute"}]
  /\ payload \in [ProposalIds -> Payload]
  /\ \A k \in TL!Ids : k < nextId => Forwarded(k)
  /\ \A j, k \in TL!Ids :
       (j < nextId /\ k < nextId /\ origin[j] = origin[k] /\ route[j] = route[k]) => j = k
  /\ DirectCalls

\* The inductive invariant of the composition: each component's own, and the handover.
SysInv == GovInv /\ TLP!TypeOK /\ TLP!Inv /\ Handover

\* The system starts with an empty timelock, whose admin is the governor.
LEMMA SysInvInit == SysInit => SysInv
  <1> SUFFICES ASSUME SysInit  PROVE SysInv
    OBVIOUS
  <1>0. TLP!Ids = TL!Ids /\ TL!NoOperation = TLP!NoOperation /\ TL!NothingPaid = TLP!NothingPaid
    BY DEF TLP!Ids, TL!Ids, TL!NoOperation, TLP!NoOperation, TL!NothingPaid, TLP!NothingPaid,
           TL!Times, TLP!Times
  <1>1. GovInv
    BY GovInvInit DEF SysInit
  <1>2. TLP!TypeOK
    <2>1. TLP!NoOperation \in TLP!Operation
      BY DEF TLP!NoOperation, TLP!Operation, TLP!Statuses
    <2>2. 0 \in TLP!Times /\ 0 \in 0 .. MaxOps
      BY TimelockGiven DEF TLP!Times
    <2>3. paid \in [TLP!Times -> Nat]
      BY <1>0 DEF SysInit, TLP!NothingPaid
    <2>4. minDelay \in Nat /\ keeper = NoKeeper /\ initialized \in BOOLEAN /\ now = 0
      BY TimelockGiven DEF SysInit, GovInit
    <2> QED  BY <1>0, <2>1, <2>2, <2>3, <2>4 DEF SysInit, TLP!TypeOK
  <1>3. TLP!Inv
    <2>1. now = 0 /\ \A k \in TL!Ids : k \in Nat
      BY DEF SysInit, GovInit, TL!Ids
    <2> QED  BY <1>0, <2>1 DEF SysInit, TLP!Inv, TLP!DelayRespected, TLP!ForwardedOnce,
                 TLP!FailedWasDue, TLP!IdsDense, TLP!NoOperation
  <1>4. Handover
    <2>1. [fn |-> "call", arg |-> 0] \in Payload
      BY DEF Payload
    <2>2. \A k \in TL!Ids : ~(k < 0)
      BY DEF TL!Ids
    <2> QED  BY <1>0, <2>1, <2>2 DEF SysInit, Handover, DirectCalls
  <1> QED  BY <1>1, <1>2, <1>3, <1>4 DEF SysInv

\* What the components guarantee on their own.
LEMMA ComponentsKeep ==
  ASSUME SysInv, [SysNext]_sysVars
  PROVE  GovInv' /\ TLP!TypeOK' /\ TLP!Inv'
  <1>1. [GovNext]_govVars /\ [TLP!Next]_(TLP!vars)
    BY GovernorSteps, TimelockSteps
  <1>2. GovInv'
    BY <1>1, GovInvStep DEF SysInv
  <1>3. TLP!TypeOK'
    BY <1>1, TimelockGiven, TLP!TypeStep DEF SysInv
  <1>4. TLP!Inv'
    BY <1>1, TimelockGiven, TLP!InvStep DEF SysInv
  <1> QED  BY <1>2, <1>3, <1>4

\* A step that queues nothing and forwards no call but a governed one keeps the
\* handover.
LEMMA HandoverKept ==
  ASSUME Handover,
         \A p \in ProposalIds : /\ proposals'[p].vote_end = proposals[p].vote_end
                                   \/ proposals[p].status \notin {"Queued", "Executed"}
                                /\ proposals[p].status = "Executed" => proposals'[p].status = "Executed"
                                /\ proposals[p].status = "Queued"
                                     => proposals'[p].status \in {"Queued", "Executed"},
         UNCHANGED <<nextId, queuedAt, origin, route, targetAdmin, directAt>>,
         \A k \in TL!Ids : calls'[k] # calls[k] => CallsTarget(k),
         payload' \in [ProposalIds -> Payload],
         \A p \in ProposalIds : proposals[p].status \in {"Queued", "Executed"} => payload'[p] = payload[p]
  PROVE  Handover'
  <1>1. \A k \in TL!Ids : k < nextId => Forwarded(k)'
    BY DEF Handover, Forwarded, CallsTarget
  <1>2. DirectCalls'
    BY DEF Handover, DirectCalls
  <1> QED  BY <1>1, <1>2 DEF Handover

\* Queueing an operation for a proposal that has none by that way keeps it too.
LEMMA HandoverQueues ==
  ASSUME SysInv, NEW r \in ProposalIds, NEW way \in {"queue", "execute"}, NEW eta,
         TL!queue(eta), QueuedFor(r, way),
         proposals[r].status \in {"Succeeded", "Queued"},
         way = "queue" => proposals[r].status = "Succeeded",
         way = "execute" => payload[r].fn = "queue" /\ proposals'[r].status = "Executed",
         proposals'[r].status \in {"Queued", "Executed"},
         \A p \in ProposalIds : proposals'[p].vote_end = proposals[p].vote_end,
         \A p \in ProposalIds : p # r => proposals'[p] = proposals[p],
         DirectCalls', payload' = payload
  PROVE  Handover'
  <1>0. /\ Handover /\ nextId \in Nat
        /\ Outcome(proposals[r], quorumMet[r])
        /\ queuedAt \in [TL!Ids -> Nat]
        /\ \A k \in TL!Ids : k \in Nat
    <2>1. queuedAt \in [TLP!Ids -> TLP!Times] /\ TLP!Ids = TL!Ids /\ nextId \in Nat
      BY DEF SysInv, TLP!TypeOK, TLP!Ids, TL!Ids
    <2>2. \A x \in TLP!Times : x \in Nat
      BY TimelockGiven DEF TLP!Times
    <2> QED  BY <2>1, <2>2 DEF SysInv, GovInv, TL!Ids
  <1>1. PICK n \in TL!Ids : n = nextId
    BY DEF TL!queue, TL!StoreOperation
  <1>2. /\ nextId' = n + 1 /\ queuedAt' = [queuedAt EXCEPT ![n] = now] /\ calls' = calls
        /\ origin' = [origin EXCEPT ![n] = r] /\ route' = [route EXCEPT ![n] = way]
    BY <1>1 DEF TL!queue, TL!StoreOperation, QueuedFor
  <1>3. /\ queuedAt'[n] = now /\ origin'[n] = r /\ route'[n] = way
        /\ \A k \in TL!Ids : k # n => /\ queuedAt'[k] = queuedAt[k] /\ origin'[k] = origin[k]
                                      /\ route'[k] = route[k]
    BY <1>0, <1>2 DEF Handover
  <1>4. now > proposals[r].vote_end
    BY <1>0 DEF Outcome
  <1>5. ~(calls[n] > 0)
    <2>1. n \in TLP!Ids
      BY <1>1 DEF TL!Ids, TLP!Ids
    <2>2. n >= nextId
      BY <1>0, <1>1
    <2>3. ops[n].status = "Absent"
      BY <2>1, <2>2 DEF SysInv, TLP!Inv, TLP!IdsDense
    <2>4. calls[n] = 0
      BY <2>1, <2>3 DEF SysInv, TLP!Inv, TLP!ForwardedOnce
    <2> QED  BY <2>4
  <1>6. ASSUME NEW k \in TL!Ids, k < n  PROVE Forwarded(k) /\ ~(origin[k] = r /\ route[k] = way)
    <2>1. Forwarded(k)
      BY <1>0, <1>1, <1>6 DEF Handover
    <2>2. origin[k] = r => proposals[r].status \in {"Queued", "Executed"}
      BY <2>1 DEF Forwarded
    <2>3. origin[k] = r /\ route[k] = "execute" => proposals[r].status = "Executed"
      BY <2>1 DEF Forwarded
    <2>4. CASE way = "queue"
      BY <2>1, <2>2, <2>4
    <2>5. CASE way = "execute"
      BY <2>1, <2>3, <2>5
    <2> QED  BY <2>4, <2>5
  <1>7. ASSUME NEW k \in TL!Ids, k < nextId'  PROVE k < n \/ k = n
    <2>1. k \in Nat /\ n \in Nat /\ nextId' = n + 1
      BY <1>0, <1>1, <1>2
    <2> QED  BY <1>7, <2>1
  <1>8. ASSUME NEW k \in TL!Ids, k < nextId'  PROVE Forwarded(k)'
    <2>1. CASE k = n
      BY <1>2, <1>3, <1>4, <1>5, <2>1 DEF Forwarded
    <2>2. CASE k < n /\ k # n
      <3>1. Forwarded(k) /\ origin'[k] = origin[k] /\ route'[k] = route[k]
            /\ queuedAt'[k] = queuedAt[k] /\ calls'[k] = calls[k] /\ payload' = payload
        BY <1>2, <1>3, <1>6, <2>2
      <3>2. /\ proposals'[origin[k]].status \in {"Queued", "Executed"}
            /\ proposals[origin[k]].status = "Executed" => proposals'[origin[k]].status = "Executed"
            /\ proposals'[origin[k]].vote_end = proposals[origin[k]].vote_end
        BY <3>1 DEF Forwarded
      <3> QED  BY <3>1, <3>2 DEF Forwarded, CallsTarget
    <2> QED  BY <1>0, <1>1, <1>7, <1>8, <2>1, <2>2
  <1>9. \A j, k \in TL!Ids :
          (j < nextId' /\ k < nextId' /\ origin'[j] = origin'[k] /\ route'[j] = route'[k]) => j = k
    BY <1>0, <1>1, <1>3, <1>6, <1>7 DEF Handover
  <1>10. origin' \in [TL!Ids -> Nat] /\ route' \in [TL!Ids -> {"queue", "execute"}]
    <2>1. r \in Nat
      BY DEF ProposalIds
    <2> QED  BY <1>0, <1>2, <2>1 DEF Handover
  <1>11. payload' \in [ProposalIds -> Payload]
    BY <1>0 DEF Handover
  <1> QED  BY <1>8, <1>9, <1>10, <1>11 DEF Handover

\* Every step of the system keeps the handover between governor and timelock.
LEMMA HandoverStep ==
  ASSUME SysInv, [SysNext]_sysVars
  PROVE  Handover'
  <1> USE DEF governor, token, timelock, aux
  <1>0. /\ GovTypeOK /\ Handover /\ nextId \in Nat /\ now \in Nat
        /\ \A p \in ProposalIds : proposals[p] \in ProposalState /\ p \in Nat
        /\ \A p \in ProposalIds : Outcome(proposals[p], quorumMet[p])
        /\ payload \in [ProposalIds -> Payload]
    <2>1. nextId \in Nat
      BY DEF SysInv, TLP!TypeOK
    <2> QED  BY <2>1, GovernorConstants
             DEF SysInv, GovInv, GovTypeOK, Handover, ProposalIds
  <1>1. ASSUME UNCHANGED <<proposals, nextId, queuedAt, aux>>,
               \A k \in TL!Ids : calls'[k] # calls[k] => CallsTarget(k)
        PROVE  Handover'
    BY <1>0, <1>1, HandoverKept
  <1>2. CASE GovernorStep
    <2>1. UNCHANGED <<nextId, queuedAt, calls, aux>>
      BY <1>2 DEF GovernorStep
    <2>2. CASE UNCHANGED proposals
      BY <1>1, <2>1, <2>2
    <2>3. ASSUME NEW r \in ProposalIds, proposals[r].status = "Active",
                 \A p \in ProposalIds : p # r => proposals'[p] = proposals[p],
                 proposals'[r].vote_end = proposals[r].vote_end
          PROVE  Handover'
      BY <1>0, <2>1, <2>3, HandoverKept
    <2>4. ASSUME NEW v \in Holders, NEW r \in ProposalIds, NEW s \in BOOLEAN, cast_vote(v, r, s)
          PROVE  Handover'
      <3>1. /\ proposals[r].status = "Active"
            /\ \A p \in ProposalIds : p # r => proposals'[p] = proposals[p]
            /\ proposals'[r].vote_end = proposals[r].vote_end
        BY <1>0, <2>4 DEF cast_vote, VotingOpen, AddVote, GovTypeOK, ProposalState
      <3> QED  BY <2>3, <3>1
    <2>5. ASSUME NEW r \in ProposalIds, finalize(r)  PROVE Handover'
      <3>1. /\ proposals[r].status = "Active"
            /\ \A p \in ProposalIds : p # r => proposals'[p] = proposals[p]
            /\ proposals'[r].vote_end = proposals[r].vote_end
        BY <1>0, <2>5 DEF finalize, Tally, GovTypeOK, ProposalState
      <3> QED  BY <2>3, <3>1
    <2> QED  BY <1>2, <2>2, <2>4, <2>5
             DEF GovernorStep, GovTick, initialize, set_timelock, set_config
  <1>3. ASSUME NEW h \in Holders, NEW content \in Payloads, Propose(h, content)  PROVE Handover'
    <2>1. PICK n \in ProposalIds : n = proposalCount
      BY <1>3 DEF Propose, propose
    <2>2. proposals[n].status = "Absent"
      BY <1>0, <2>1 DEF SysInv, GovInv, NoProposal
    <2>3. /\ \A p \in ProposalIds : p # n => proposals'[p] = proposals[p]
          /\ \A p \in ProposalIds : p # n => payload'[p] = payload[p]
          /\ UNCHANGED <<nextId, queuedAt, calls, origin, route, targetAdmin, directAt>>
      BY <1>0, <1>3, <2>1 DEF Propose, propose, GovTypeOK
    <2>4. payload' \in [ProposalIds -> Payload]
      BY <1>0, <1>3, CompositionConstants DEF Propose
    <2> QED  BY <1>0, <2>2, <2>3, <2>4, HandoverKept
  <1>4. ASSUME NEW r \in ProposalIds, NEW to \in {"Queued", "Executed"},
               proposals[r].status \in {"Succeeded", "Queued"},
               proposals' = [proposals EXCEPT ![r].status = to]
        PROVE  /\ proposals'[r].status = to
               /\ \A p \in ProposalIds : proposals'[p].vote_end = proposals[p].vote_end
               /\ \A p \in ProposalIds : p # r => proposals'[p] = proposals[p]
    BY <1>0, <1>4 DEF GovTypeOK, ProposalState
  <1>5. ASSUME NEW r \in ProposalIds, NEW eta \in Etas, Queue(r, eta)  PROVE Handover'
    <2>1. /\ proposals[r].status = "Succeeded"
          /\ proposals' = [proposals EXCEPT ![r].status = "Queued"]
          /\ UNCHANGED <<targetAdmin, payload, directAt>>
      BY <1>5 DEF Queue, queue, SetProposal, ForwardToTimelock
    <2>2. /\ proposals'[r].status = "Queued"
          /\ \A p \in ProposalIds : proposals'[p].vote_end = proposals[p].vote_end
          /\ \A p \in ProposalIds : p # r => proposals'[p] = proposals[p]
      BY <1>4, <2>1
    <2>3. CASE ~timelockSet
      <3>1. UNCHANGED <<nextId, queuedAt, calls, origin, route>>
        BY <1>5, <2>3 DEF Queue, ForwardToTimelock
      <3> QED  BY <1>0, <2>1, <2>2, <3>1, HandoverKept
    <2>4. CASE timelockSet
      <3>1. TL!queue(eta) /\ QueuedFor(r, "queue")
        BY <1>5, <2>4 DEF Queue, ForwardToTimelock
      <3>2. DirectCalls'
        BY <1>0, <2>1, <2>2 DEF Handover, DirectCalls
      <3>3. payload' = payload /\ proposals[r].status \in {"Succeeded", "Queued"}
            /\ proposals'[r].status \in {"Queued", "Executed"}
        BY <2>1, <2>2
      <3> QED  BY <2>1, <2>2, <3>1, <3>2, <3>3, HandoverQueues
    <2> QED  BY <2>3, <2>4
  <1>6. ASSUME NEW r \in ProposalIds, ExecuteDirectly(r)  PROVE Handover'
    <2>1. /\ proposals[r].status = "Queued"
          /\ proposals' = [proposals EXCEPT ![r].status = "Executed"]
          /\ directAt' = [directAt EXCEPT ![r] = now]
          /\ UNCHANGED <<targetAdmin, payload>>
      BY <1>6 DEF ExecuteDirectly, execute, SetProposal
    <2>2. /\ proposals'[r].status = "Executed"
          /\ \A p \in ProposalIds : proposals'[p].vote_end = proposals[p].vote_end
          /\ \A p \in ProposalIds : p # r => proposals'[p] = proposals[p]
      BY <1>4, <2>1
    <2>3. (targetAdmin = "timelock" => payload[r].fn # "call") => DirectCalls'
      <3>1. /\ directAt' \in [ProposalIds -> Int]
            /\ \A p \in ProposalIds : p # r => directAt'[p] = directAt[p]
        BY <1>0, <2>1 DEF Handover, DirectCalls
      <3> QED  BY <1>0, <2>1, <2>2, <3>1 DEF Handover, DirectCalls
    <2>4. CASE payload[r].fn = "queue" /\ TL!queue(payload[r].arg) /\ QueuedFor(r, "execute")
      <3>1. DirectCalls' /\ payload' = payload
        BY <2>1, <2>3, <2>4
      <3> QED  BY <2>1, <2>2, <2>4, <3>1, HandoverQueues
    <2>5. ASSUME UNCHANGED <<nextId, queuedAt, origin, route>>,
                 targetAdmin = "timelock" => payload[r].fn # "call",
                 \A k \in TL!Ids : calls'[k] # calls[k] => CallsTarget(k)
          PROVE  Handover'
      <3>1. \A k \in TL!Ids : k < nextId => Forwarded(k)'
        BY <1>0, <2>1, <2>2, <2>5 DEF Handover, Forwarded, CallsTarget
      <3> QED  BY <1>0, <2>1, <2>3, <2>5, <3>1 DEF Handover
    <2>6. CASE payload[r].fn = "call" /\ Accepts("governor") /\ UNCHANGED <<timelock, origin, route>>
      <3>1. targetAdmin # "timelock"
        BY <2>6 DEF Accepts
      <3> QED  BY <2>5, <2>6, <3>1
    <2>7. CASE /\ TimelockCall(payload[r].fn, payload[r].arg) /\ OnlyAccepted
               /\ UNCHANGED <<origin, route>>
      <3>1. UNCHANGED <<nextId, queuedAt>>
        BY <2>7 DEF TimelockCall, TL!cancel, TL!cancel_failed, TL!expire, TL!SetStatus, TL!history,
                    TL!MarkExecuted, TL!Sweep, TL!execute_due, TL!set_keeper_config, TL!StoreKeeper
      <3>2. payload[r].fn # "call"
        BY <2>7 DEF TimelockCall
      <3> QED  BY <2>5, <2>7, <3>1, <3>2 DEF OnlyAccepted
    <2> QED  BY <1>6, <2>4, <2>6, <2>7 DEF ExecuteDirectly
  <1>7. CASE TimelockStep
    <2>1. UNCHANGED <<proposals, aux>> /\ OnlyAccepted
      BY <1>7 DEF TimelockStep
    <2>2. UNCHANGED <<nextId, queuedAt>>
      BY <1>7 DEF TimelockStep, TL!execute, TL!retry, TL!MarkExecuted, TL!RolledBack, TL!Sweep,
                  TL!execute_due, TL!storage
    <2> QED  BY <1>1, <2>1, <2>2 DEF OnlyAccepted
  <1>8. CASE UNCHANGED sysVars
    BY <1>1, <1>8 DEF sysVars, govVars
  <1> QED  BY <1>2, <1>3, <1>5, <1>6, <1>7, <1>8 DEF SysNext

\* The invariant holds of every behaviour of the composed system.
LEMMA SysInvHolds == SysSpec => []SysInv
  <1>1. SysInv /\ [SysNext]_sysVars => SysInv'
    BY ComponentsKeep, HandoverStep DEF SysInv
  <1> QED  BY <1>1, SysInvInit, PTL DEF SysSpec

\* What took effect through the timelock was queued there as a call of the target,
\* and waited.
LEMMA EffectOf ==
  ASSUME SysInv, targetAdmin = "timelock", NEW p \in ProposalIds, NEW e \in Effects(p)
  PROVE  \E k \in TL!Ids : /\ k < nextId /\ origin[k] = p /\ e = <<k, calledAt[k]>>
                           /\ CallsTarget(k)
                           /\ calledAt[k] >= queuedAt[k] + minDelay
  <1>1. ~(payload[p].fn = "call" /\ directAt[p] >= 0)
    BY DEF SysInv, Handover, DirectCalls
  <1>2. PICK k \in TL!Ids : calls[k] > 0 /\ origin[k] = p /\ e = <<k, calledAt[k]>>
    BY <1>1 DEF Effects
  <1>3. k \in TLP!Ids
    BY DEF TL!Ids, TLP!Ids
  <1>4. k < nextId /\ calledAt[k] >= queuedAt[k] + minDelay
    <2>1. ops[k].status = "Executed"
      BY <1>2, <1>3 DEF SysInv, TLP!Inv, TLP!ForwardedOnce
    <2>2. ~(k >= nextId)
      BY <1>3, <2>1 DEF SysInv, TLP!Inv, TLP!IdsDense
    <2>3. k \in Nat /\ nextId \in Nat
      BY <1>3 DEF SysInv, TLP!TypeOK, TLP!Ids
    <2> QED  BY <1>2, <1>3, <2>2, <2>3 DEF SysInv, TLP!Inv, TLP!DelayRespected
  <1>5. CallsTarget(k)
    BY <1>2, <1>4 DEF SysInv, Handover, Forwarded
  <1> QED  BY <1>2, <1>4, <1>5

(* Where the target obeys the timelock alone, a proposal takes effect on it *)
(* only after its vote has closed and the timelock's delay has passed, for *)
(* every number of proposals and operations, whatever proposals call and   *)
(* whoever executes, sweeps or retries.                                    *)
THEOREM CallsAlwaysWait == SysSpec => []CallsWaitForDelay
  <1>1. SysInv => CallsWaitForDelay
    <2> SUFFICES ASSUME SysInv, targetAdmin = "timelock", NEW p \in ProposalIds, NEW e \in Effects(p)
                 PROVE  e[2] > proposals[p].vote_end + minDelay
      BY DEF CallsWaitForDelay
    <2>1. PICK k \in TL!Ids : /\ k < nextId /\ origin[k] = p /\ e = <<k, calledAt[k]>>
                             /\ calledAt[k] >= queuedAt[k] + minDelay
      BY EffectOf
    <2>2. queuedAt[k] > proposals[p].vote_end
      BY <2>1 DEF SysInv, Handover, Forwarded
    <2>3. queuedAt[k] \in Nat /\ calledAt[k] \in Nat /\ minDelay \in Nat
      BY TimelockGiven DEF SysInv, TLP!TypeOK, TLP!Ids, TL!Ids, TLP!Times
    <2>4. proposals[p].vote_end \in Nat
      BY ProposalFields DEF SysInv, GovInv, GovTypeOK
    <2> QED  BY <2>1, <2>2, <2>3, <2>4
  <1> QED  BY <1>1, SysInvHolds, PTL

(* Every operation of the timelock comes from a carried proposal, one by    *)
(* governance::queue and one more only if queueing is what the proposal     *)
(* calls; and where the target obeys the timelock alone a proposal takes    *)
(* effect on it at most once.                                               *)
THEOREM CallsAlwaysOnce == SysSpec => []CallTakesEffectOnce
  <1>1. SysInv => CallTakesEffectOnce
    <2> SUFFICES ASSUME SysInv  PROVE CallTakesEffectOnce
      OBVIOUS
    <2>1. QueuedByVote
      <3>1. \A k \in TL!Ids : k < nextId =>
               /\ proposals[origin[k]].status \in {"Queued", "Executed"} /\ quorumMet[origin[k]]
               /\ route[k] = "execute" => payload[origin[k]].fn = "queue"
        BY DEF SysInv, Handover, Forwarded, GovInv, Outcome
      <3> QED  BY <3>1 DEF QueuedByVote, SysInv, Handover
    <2>2. ASSUME targetAdmin = "timelock", NEW p \in ProposalIds, NEW d \in Effects(p),
                 NEW e \in Effects(p)
          PROVE  d = e
      <3>1. PICK j \in TL!Ids : j < nextId /\ origin[j] = p /\ d = <<j, calledAt[j]>> /\ CallsTarget(j)
        BY <2>2, EffectOf
      <3>2. PICK k \in TL!Ids : k < nextId /\ origin[k] = p /\ e = <<k, calledAt[k]>> /\ CallsTarget(k)
        BY <2>2, EffectOf
      <3>3. route[j] \in {"queue", "execute"} /\ route[k] \in {"queue", "execute"}
        BY DEF SysInv, Handover
      <3>4. route[j] = route[k]
        BY <3>1, <3>2, <3>3 DEF SysInv, Handover, Forwarded, CallsTarget
      <3> QED  BY <3>1, <3>2, <3>4 DEF SysInv, Handover
    <2> QED  BY <2>1, <2>2 DEF CallTakesEffectOnce, OneEffect
  <1> QED  BY <1>1, SysInvHolds, PTL
=============================================================================
