------------------------ MODULE AdministrationProofs ------------------------
(***************************************************************************)
(* Proofs about the contracts that hold authority: the oracle's relayers   *)
(* and readings, the policy registry, the incident coordinator and the     *)
(* multisig.                                                               *)
(***************************************************************************)
EXTENDS Administration, Multisig, CollectionTheorems, SequenceTheorems

-----------------------------------------------------------------------------
(* The oracle. *)
USE LedgerConstants, OracleConstants, AbsentReading

\* The parts of the oracle's state that its type invariant leaves open.
OracleShape ==
  /\ OracleTypeOK
  /\ reading \in [Feeds -> OracleReading \cup {None}]
  /\ newest \in [Feeds -> Nat \cup {None}]
  /\ outsideAt \in [Relays -> Nat]

\* Removals lie in the past, the reading on file is the newest accepted, and a
\* relayer that submitted has a last submission.
OracleKept ==
  /\ OracleShape
  /\ \A r \in Relays : outsideAt[r] <= now
  /\ \A f \in Feeds : reading[f] = None => newest[f] = None
  /\ \A f \in Feeds : reading[f] # None => reading[f].timestamp = newest[f] /\ newest[f] <= now
  /\ \A r \in Relays, f \in Feeds : lastSubmission[<<r, f>>] = None => accepts[<<r, f>>] = 0
  /\ \A r \in Relays, f \in Feeds : lastSubmission[<<r, f>>] # None => lastSubmission[<<r, f>>] <= now

\* A deployed oracle has no relayers, no readings and a shape.
LEMMA OracleShapeInit == OracleInit => OracleShape
  BY DEF OracleInit, LedgerInit, OracleShape, OracleTypeOK

\* Every entrypoint of the oracle keeps the shape of its storage.
LEMMA OracleShapeStep == OracleShape /\ [OracleNext]_oracleVars => OracleShape'
  <1> SUFFICES ASSUME OracleShape, [OracleNext]_oracleVars  PROVE OracleShape'
    OBVIOUS
  <1> USE DEF OracleShape, OracleTypeOK, roles, data
  <1>1. ASSUME OracleTick \/ UNCHANGED oracleVars  PROVE OracleShape'
    BY <1>1 DEF OracleTick, LedgerTick, oracleVars
  <1>2. ASSUME NEW a \in OracleAdmins,
               oracle_initialize(a) \/ oracle_propose_admin(a) \/ oracle_accept_admin(a)
        PROVE  OracleShape'
    BY <1>2 DEF oracle_initialize, oracle_propose_admin, oracle_accept_admin
  <1>3. ASSUME NEW r \in Relays, add_relayer(r)  PROVE OracleShape'
    BY <1>3 DEF add_relayer
  <1>4. ASSUME NEW r \in Relays, activate_relayer(r)  PROVE OracleShape'
    BY <1>4 DEF activate_relayer
  <1>5. ASSUME NEW r \in Relays, remove_relayer(r)  PROVE OracleShape'
    BY <1>5 DEF remove_relayer
  <1>6. ASSUME NEW r \in Relays, NEW d \in Deltas, update_reputation(r, d)  PROVE OracleShape'
    BY <1>6 DEF update_reputation, Clamp
  <1>7. ASSUME NEW f \in Feeds, NEW v \in Thresholds, set_threshold(f, v)  PROVE OracleShape'
    BY <1>7 DEF set_threshold
  <1>8. ASSUME NEW r \in Relays, NEW f \in Feeds, NEW v \in Values, NEW t \in 0 .. now,
               submit(r, f, v, t)
        PROVE  OracleShape'
    BY <1>8 DEF submit, OracleReading
  <1> QED  BY <1>1, <1>2, <1>3, <1>4, <1>5, <1>6, <1>7, <1>8 DEF OracleNext

\* With the notice of RelayersGaveNotice and the bound of SubmissionsBounded.
OracleInv == OracleKept /\ RelayersGaveNotice /\ SubmissionsBounded

\* Nothing was announced, submitted or served in the initial state.
LEMMA OracleInvInit == OracleInit => OracleInv
  <1> SUFFICES ASSUME OracleInit  PROVE OracleInv
    OBVIOUS
  <1>1. OracleShape
    BY OracleShapeInit
  <1> QED  BY <1>1 DEF OracleInit, LedgerInit, OracleInv, OracleKept, OracleShape,
                       RelayersGaveNotice, SubmissionsBounded

\* Only activate_relayer makes a relayer, and it compares with an announcement
\* made since the last removal.
LEMMA NoticeStep ==
  ASSUME OracleInv, [OracleNext]_oracleVars
  PROVE  RelayersGaveNotice' /\ \A r \in Relays : outsideAt'[r] <= now'
  <1> DEFINE Goal == RelayersGaveNotice' /\ \A r \in Relays : outsideAt'[r] <= now'
  <1>0. OracleShape /\ OracleShape'
    BY OracleShapeStep DEF OracleInv, OracleKept
  <1> USE <1>0 DEF OracleInv, OracleKept, OracleShape, OracleTypeOK, RelayersGaveNotice, roles, data
  <1>1. ASSUME OracleTick \/ UNCHANGED oracleVars  PROVE Goal
    BY <1>1 DEF OracleTick, LedgerTick, oracleVars
  <1>2. ASSUME NEW a \in OracleAdmins,
               oracle_initialize(a) \/ oracle_propose_admin(a) \/ oracle_accept_admin(a)
        PROVE  Goal
    BY <1>2 DEF oracle_initialize, oracle_propose_admin, oracle_accept_admin
  <1>3. ASSUME NEW r \in Relays, add_relayer(r)  PROVE Goal
    BY <1>3 DEF add_relayer
  <1>4. ASSUME NEW r \in Relays, activate_relayer(r)  PROVE Goal
    BY <1>4 DEF activate_relayer
  <1>5. ASSUME NEW r \in Relays, remove_relayer(r)  PROVE Goal
    BY <1>5 DEF remove_relayer
  <1>6. ASSUME NEW r \in Relays, NEW d \in Deltas, update_reputation(r, d)  PROVE Goal
    BY <1>6 DEF update_reputation, Clamp
  <1>7. ASSUME NEW f \in Feeds, NEW v \in Thresholds, set_threshold(f, v)  PROVE Goal
    BY <1>7 DEF set_threshold
  <1>8. ASSUME NEW r \in Relays, NEW f \in Feeds, NEW v \in Values, NEW t \in 0 .. now,
               submit(r, f, v, t)
        PROVE  Goal
    BY <1>8 DEF submit
  <1> QED  BY <1>1, <1>2, <1>3, <1>4, <1>5, <1>6, <1>7, <1>8 DEF OracleNext

\* The stored reading is the newest capture accepted, since InOrder refuses
\* older ones.
LEMMA ReadingStep ==
  ASSUME OracleInv, [OracleNext]_oracleVars
  PROVE  /\ \A f \in Feeds : reading'[f] = None => newest'[f] = None
         /\ \A f \in Feeds : reading'[f] # None =>
              reading'[f].timestamp = newest'[f] /\ newest'[f] <= now'
  <1> DEFINE Goal == /\ \A f \in Feeds : reading'[f] = None => newest'[f] = None
                     /\ \A f \in Feeds : reading'[f] # None =>
                          reading'[f].timestamp = newest'[f] /\ newest'[f] <= now'
  <1>0. OracleShape /\ OracleShape'
    BY OracleShapeStep DEF OracleInv, OracleKept
  <1>1. ASSUME now' >= now, UNCHANGED <<reading, newest>>  PROVE Goal
    <2>1. \A f \in Feeds : reading[f] # None => newest[f] \in Nat
      BY <1>0 DEF OracleInv, OracleKept, OracleShape, OracleReading
    <2> QED  BY <1>0, <1>1, <2>1 DEF OracleInv, OracleKept, OracleShape, OracleTypeOK
  <1>2. ASSUME NEW r \in Relays, NEW f \in Feeds, NEW v \in Values, NEW t \in 0 .. now,
               submit(r, f, v, t)
        PROVE  Goal
    <2> DEFINE q == [value |-> v, timestamp |-> t]
    <2>1. /\ reading' = [reading EXCEPT ![f] = q] /\ UNCHANGED now
          /\ newest' = [newest EXCEPT ![f] = IF @ # None /\ @ > t THEN @ ELSE t]
          /\ InOrder(f, t)
      BY <1>2 DEF submit
    <2>2. q.timestamp = t /\ q \in OracleReading /\ t \in Nat /\ t <= now
      BY <1>0 DEF OracleReading, OracleShape, OracleTypeOK
    <2> HIDE DEF q
    <2>3. newest[f] # None => newest[f] <= t
      BY <1>0, <2>1 DEF InOrder, OracleInv, OracleKept, OracleShape
    <2>4. newest'[f] = t
      <3>1. newest[f] # None => newest[f] \in Nat
        BY <1>0 DEF OracleShape
      <3> QED  BY <1>0, <2>1, <2>2, <2>3, <3>1 DEF OracleShape
    <2>5. reading'[f] = q /\ q # None
      BY <1>0, <2>1, <2>2 DEF OracleShape
    <2>6. \A g \in Feeds \ {f} : reading'[g] = reading[g] /\ newest'[g] = newest[g]
      BY <1>0, <2>1 DEF OracleShape
    <2> QED  BY <2>1, <2>2, <2>4, <2>5, <2>6 DEF OracleInv, OracleKept
  <1>3. CASE ~ \E r \in Relays, f \in Feeds, v \in Values, t \in 0 .. now : submit(r, f, v, t)
    <2>1. now' >= now /\ UNCHANGED <<reading, newest>>
      BY <1>0, <1>3 DEF OracleNext, OracleTick, LedgerTick, oracle_initialize, oracle_propose_admin,
                  oracle_accept_admin, add_relayer, activate_relayer, remove_relayer,
                  update_reputation, set_threshold, oracleVars, data, OracleShape, OracleTypeOK
    <2> QED  BY <1>1, <2>1
  <1> QED  BY <1>2, <1>3

\* Each accepted submission of a relayer comes INTERVAL at least after its last one.
LEMMA RateStep ==
  ASSUME OracleInv, [OracleNext]_oracleVars
  PROVE  /\ SubmissionsBounded'
         /\ \A r \in Relays, f \in Feeds : lastSubmission'[<<r, f>>] = None => accepts'[<<r, f>>] = 0
         /\ \A r \in Relays, f \in Feeds :
              lastSubmission'[<<r, f>>] # None => lastSubmission'[<<r, f>>] <= now'
  <1> DEFINE Bounded(n, last, time) == /\ n > 0 => (n - 1) * INTERVAL <= last
                                       /\ last = None => n = 0
                                       /\ last # None => last <= time
  <1> SUFFICES ASSUME NEW a \in Relays, NEW g \in Feeds
               PROVE  Bounded(accepts'[<<a, g>>], lastSubmission'[<<a, g>>], now')
    BY DEF SubmissionsBounded
  <1> DEFINE p == <<a, g>>
  <1>0. OracleShape /\ p \in Relays \X Feeds
    BY DEF OracleInv, OracleKept
  <1>1. Bounded(accepts[p], lastSubmission[p], now)
    BY DEF OracleInv, OracleKept, SubmissionsBounded
  <1>2. accepts[p] \in Nat /\ now \in Nat /\ (lastSubmission[p] # None => lastSubmission[p] \in Nat)
    BY <1>0 DEF OracleShape, OracleTypeOK
  <1>3. ASSUME now' >= now, now' \in Nat, accepts'[p] = accepts[p],
               lastSubmission'[p] = lastSubmission[p]
        PROVE  Bounded(accepts'[p], lastSubmission'[p], now')
    BY <1>1, <1>2, <1>3
  <1>4. ASSUME NEW r \in Relays, NEW f \in Feeds, NEW v \in Values, NEW t \in 0 .. now,
               submit(r, f, v, t)
        PROVE  Bounded(accepts'[p], lastSubmission'[p], now')
    <2>1. /\ lastSubmission' = [lastSubmission EXCEPT ![<<r, f>>] = now]
          /\ accepts' = [accepts EXCEPT ![<<r, f>>] = @ + 1]
          /\ UNCHANGED now /\ CooledDown(r, f)
      BY <1>4 DEF submit
    <2>2. CASE p = <<r, f>>
      <3>1. lastSubmission'[p] = now /\ accepts'[p] = accepts[p] + 1
        BY <1>0, <2>1, <2>2 DEF OracleShape, OracleTypeOK
      <3>2. lastSubmission[p] # None => now - lastSubmission[p] >= INTERVAL
        BY <2>1, <2>2 DEF CooledDown
      <3>3. accepts[p] * INTERVAL <= now
        <4>1. CASE accepts[p] = 0
          BY <1>2, <4>1
        <4>2. CASE accepts[p] > 0
          <5>1. accepts[p] * INTERVAL = (accepts[p] - 1) * INTERVAL + INTERVAL
            BY <1>2
          <5>2. lastSubmission[p] # None /\ (accepts[p] - 1) * INTERVAL <= lastSubmission[p]
            BY <1>1, <4>2
          <5> DEFINE x == (accepts[p] - 1) * INTERVAL
          <5>3. x \in Int
            BY <1>2
          <5> HIDE DEF x
          <5>4. x + INTERVAL <= now
            BY <1>2, <3>2, <5>2, <5>3 DEF x
          <5> QED  BY <5>1, <5>4 DEF x
        <4> QED  BY <1>2, <4>1, <4>2
      <3>4. (accepts[p] + 1) - 1 = accepts[p]
        BY <1>2
      <3> QED  BY <1>2, <2>1, <3>1, <3>3, <3>4
    <2>3. CASE p # <<r, f>>
      <3>1. lastSubmission'[p] = lastSubmission[p] /\ accepts'[p] = accepts[p]
        BY <1>0, <2>1, <2>3 DEF OracleShape, OracleTypeOK
      <3> QED  BY <1>2, <1>3, <2>1, <3>1
    <2> QED  BY <2>2, <2>3
  <1>5. CASE ~ \E r \in Relays, f \in Feeds, v \in Values, t \in 0 .. now : submit(r, f, v, t)
    <2>1. now' >= now /\ now' \in Nat /\ UNCHANGED <<lastSubmission, accepts>>
      BY <1>2, <1>5 DEF OracleNext, OracleTick, LedgerTick, oracle_initialize, oracle_propose_admin,
                  oracle_accept_admin, add_relayer, activate_relayer, remove_relayer,
                  update_reputation, set_threshold, oracleVars, data
    <2> QED  BY <1>3, <2>1
  <1> QED  BY <1>4, <1>5

\* The inductive invariant of the oracle.
LEMMA OracleInvHolds == OracleSpec => []OracleInv
  <1>1. OracleInv /\ [OracleNext]_oracleVars => OracleInv'
    <2> SUFFICES ASSUME OracleInv, [OracleNext]_oracleVars  PROVE OracleInv'
      OBVIOUS
    <2>1. OracleShape'
      BY OracleShapeStep DEF OracleInv, OracleKept
    <2> QED  BY <2>1, NoticeStep, ReadingStep, RateStep DEF OracleInv, OracleKept
  <1> QED  BY <1>1, OracleInvInit, PTL DEF OracleSpec

(* Relayers give notice, for every set of relayers and every notice        *)
(* period: an active relayer has been inside for at least NOTICE since its *)
(* last removal, however announcements, activations and removals follow.   *)
THEOREM RelayersAlwaysGaveNotice == OracleSpec => []RelayersGaveNotice
  <1>1. OracleInv => RelayersGaveNotice
    BY DEF OracleInv
  <1> QED  BY <1>1, OracleInvHolds, PTL

(* What get_reading serves is the newest accepted capture and at most      *)
(* STALENESS old, and the rate limit bounds each relayer's submissions     *)
(* over the whole history, for every number of relayers and feeds.         *)
THEOREM AlwaysServesNewest == OracleSpec => []ServesNewest
  <1>1. OracleInv => ServesNewest
    BY DEF OracleInv, OracleKept, ServesNewest, Served
  <1> QED  BY <1>1, OracleInvHolds, PTL

-----------------------------------------------------------------------------
(* The policy registry. *)
USE RegistryConstants, AbsentPolicy



\* What CountersAgree says of the records, the index and the counters; before
\* initialize nothing is stored, and a pending repoint carries the window of its
\* own proposal.
RegInv ==
  /\ CountersAgree
  /\ admin = None => Registered = {} /\ pendingAdmin = None
  /\ pendingPool # None => pendingPool.executable_at = proposedAt.at + proposedAt.delay

\* No id is registered in the initial state, so that every counter is zero.
LEMMA RegInvInit == RegInit => RegInv
  <1> SUFFICES ASSUME RegInit  PROVE RegInv
    OBVIOUS
  <1>1. Registered = {} /\ ActiveIds = {}
    BY DEF RegInit, Registered, ActiveIds
  <1>2. RegTypeOK
    BY DEF RegInit, LedgerInit, RegTypeOK
  <1>3. HolderIndexExact
    BY <1>1 DEF RegInit, HolderIndexExact, Range
  <1> DEFINE p == [id \in Ids |-> IF records[id] = None THEN 0 ELSE records[id].premium]
  <1>4. \A id \in Ids : p[id] = 0
    BY DEF RegInit
  <1> HIDE DEF p
  <1>5. SumOver(p, Ids) = 0
    BY <1>4, SumZero
  <1>6. Cardinality({}) = 0
    BY FS_EmptySet
  <1> QED  BY <1>1, <1>2, <1>3, <1>5, <1>6 DEF p, RegInit, RegInv, CountersAgree

\* Every step keeps the types; a handover only follows a nomination, which only
\* an initialized registry takes.
LEMMA RegTypeStep ==
  ASSUME RegInv, [RegNext]_regVars
  PROVE  RegTypeOK'
  <1>0. RegTypeOK /\ (admin = None => pendingAdmin = None)
    BY DEF RegInv, CountersAgree
  <1> USE <1>0 DEF RegTypeOK, trust, index
  <1>1. ASSUME RegTick \/ UNCHANGED regVars  PROVE RegTypeOK'
    BY <1>1 DEF RegTick, LedgerTick, regVars
  <1>2. ASSUME NEW a \in Addresses, NEW q \in Addresses, initialize(a, q)  PROVE RegTypeOK'
    BY <1>2 DEF initialize
  <1>3. ASSUME NEW c \in Addresses, NEW id \in Ids, NEW h \in Holders, NEW x \in Premiums,
               register_policy(c, id, h, x)
        PROVE  RegTypeOK'
    <2> DEFINE r == [holder |-> h, premium |-> x, is_active |-> TRUE]
    <2>1. r \in PolicyRecord
      BY DEF PolicyRecord
    <2>2. records' = [records EXCEPT ![id] = r]
      BY <1>3 DEF register_policy
    <2> HIDE DEF r
    <2>3. records' \in [Ids -> PolicyRecord \cup {None}]
      BY <2>1, <2>2
    <2>4. holderPolicies' \in [Holders -> Seq(Ids)]
      BY <1>3 DEF register_policy
    <2>5. counters' \in [total : Nat, premium : Nat, active : Nat]
      <3>1. /\ counters.total + 1 \in Nat /\ counters.premium + x \in Nat
            /\ counters.active + 1 \in Nat
        OBVIOUS
      <3> QED  BY <1>3, <3>1 DEF register_policy
    <2> QED  BY <1>3, <2>3, <2>4, <2>5 DEF register_policy
  <1>4. ASSUME NEW c \in Addresses, NEW id \in Ids, deactivate_policy(c, id)  PROVE RegTypeOK'
    <2>1. records[id] \in PolicyRecord
      BY <1>4 DEF deactivate_policy
    <2>2. [records[id] EXCEPT !.is_active = FALSE] \in PolicyRecord
      BY <2>1 DEF PolicyRecord
    <2>3. records' \in [Ids -> PolicyRecord \cup {None}]
      BY <1>4, <2>2 DEF deactivate_policy
    <2>4. counters' \in [total : Nat, premium : Nat, active : Nat]
      <3>1. counters.active \in Nat
        OBVIOUS
      <3>2. (IF counters.active = 0 THEN 0 ELSE counters.active - 1) \in Nat
        BY <3>1
      <3>3. counters' = [counters EXCEPT !.active =
                           IF counters.active = 0 THEN 0 ELSE counters.active - 1]
        BY <1>4 DEF deactivate_policy
      <3> QED  BY <3>2, <3>3
    <2> QED  BY <1>4, <2>3, <2>4 DEF deactivate_policy
  <1>5. ASSUME NEW c \in Addresses, NEW d \in ChangeDelays, set_pool_contract_change_delay(c, d)
        PROVE  RegTypeOK'
    BY <1>5 DEF set_pool_contract_change_delay
  <1>6. ASSUME NEW c \in Addresses, NEW q \in Addresses, propose_pool_contract(c, q)
        PROVE  RegTypeOK'
    <2>1. now + changeDelay \in Nat /\ now \in Nat /\ changeDelay \in Nat
      OBVIOUS
    <2>2. [pool_contract |-> q, executable_at |-> now + changeDelay] \in PendingPoolContract
      BY <2>1 DEF PendingPoolContract
    <2> QED  BY <1>6, <2>1, <2>2 DEF propose_pool_contract, Proposal
  <1>7. ASSUME NEW c \in Addresses, confirm_pool_contract(c)  PROVE RegTypeOK'
    <2>1. pendingPool.pool_contract \in Addresses /\ admin \in Addresses
      BY <1>7 DEF confirm_pool_contract, require_admin, PendingPoolContract
    <2> QED  BY <1>7, <2>1 DEF confirm_pool_contract
  <1>8. ASSUME NEW c \in Addresses, cancel_pool_contract(c) \/ accept_admin(c)  PROVE RegTypeOK'
    BY <1>8 DEF cancel_pool_contract, accept_admin
  <1>9. ASSUME NEW c \in Addresses, NEW a \in Addresses, propose_admin(c, a)  PROVE RegTypeOK'
    BY <1>9 DEF propose_admin
  <1> QED  BY <1>1, <1>2, <1>3, <1>4, <1>5, <1>6, <1>7, <1>8, <1>9 DEF RegNext

\* Registering adds one id to its holder's list, to the records and to each counter.
LEMMA RegisterAgrees ==
  ASSUME RegInv, NEW c \in Addresses, NEW id \in Ids, NEW h \in Holders, NEW x \in Premiums,
         register_policy(c, id, h, x), RegTypeOK'
  PROVE  CountersAgree'
  <1> DEFINE r == [holder |-> h, premium |-> x, is_active |-> TRUE]
             Due(recs) == [i \in Ids |-> IF recs[i] = None THEN 0 ELSE recs[i].premium]
  <1>1. r.holder = h /\ r.premium = x /\ r.is_active /\ r \in PolicyRecord /\ r # None
    <2>1. r.holder = h /\ r.premium = x /\ r.is_active /\ r \in PolicyRecord
      BY DEF PolicyRecord
    <2> HIDE DEF r
    <2> QED  BY <2>1
  <1>2. /\ records[id] = None
        /\ records' = [records EXCEPT ![id] = r]
        /\ holderPolicies' = [holderPolicies EXCEPT ![h] = Append(@, id)]
        /\ counters'.total = counters.total + 1
        /\ counters'.premium = counters.premium + x
        /\ counters'.active = counters.active + 1
    BY DEF register_policy
  <1> HIDE DEF r
  <1>3. RegTypeOK /\ HolderIndexExact
    BY DEF RegInv, CountersAgree
  <1>4. records'[id] = r /\ \A i \in Ids \ {id} : records'[i] = records[i]
    BY <1>2, <1>3 DEF RegTypeOK
  <1>5. Registered' = Registered \cup {id} /\ id \notin Registered
    BY <1>1, <1>2, <1>4 DEF Registered
  <1>6. ActiveIds' = ActiveIds \cup {id} /\ id \notin ActiveIds
    BY <1>1, <1>4, <1>5 DEF ActiveIds, Registered
  <1>7. IsFiniteSet(Registered) /\ IsFiniteSet(ActiveIds)
    BY FS_Subset DEF Registered, ActiveIds
  <1>8. /\ Cardinality(Registered') = Cardinality(Registered) + 1
        /\ Cardinality(ActiveIds') = Cardinality(ActiveIds) + 1
    BY <1>5, <1>6, <1>7, FS_AddElement
  <1>9. SumOver(Due(records'), Ids) = SumOver(Due(records), Ids) + x
    <2> DEFINE p == Due(records)
               q == Due(records')
    <2>1. \A i \in Ids : p[i] \in Int /\ q[i] \in Int
      <3>1. \A i \in Ids : records[i] = None \/ records[i].premium \in Int
        BY <1>3 DEF RegTypeOK, PolicyRecord
      <3>2. \A i \in Ids : records'[i] = None \/ records'[i].premium \in Int
        BY DEF RegTypeOK, PolicyRecord
      <3> QED  BY <3>1, <3>2
    <2>2. p[id] = 0 /\ q[id] = x /\ \A i \in Ids \ {id} : q[i] = p[i]
      BY <1>1, <1>2, <1>4
    <2> HIDE DEF p, q
    <2>3. x \in Int /\ SumOver(p, Ids) \in Int
      BY <2>1, SumInt
    <2>4. SumOver(q, Ids) = SumOver(p, Ids) - p[id] + q[id]
      BY <2>1, <2>2, SumChange
    <2> QED  BY <2>2, <2>3, <2>4 DEF p, q
  <1>10. HolderIndexExact'
    <2>1. ASSUME NEW g \in Holders \ {h}
          PROVE  holderPolicies'[g] = holderPolicies[g] /\
                 {i \in Registered' : records'[i].holder = g} = {i \in Registered : records[i].holder = g}
      <3>1. holderPolicies'[g] = holderPolicies[g]
        BY <1>2, <1>3 DEF RegTypeOK
      <3>2. \A i \in Registered : i \in Ids \ {id}
        BY <1>5 DEF Registered
      <3> QED  BY <1>1, <1>4, <1>5, <3>1, <3>2
    <2>2. {i \in Registered' : records'[i].holder = h} = {i \in Registered : records[i].holder = h} \cup {id}
      <3>2. \A i \in Registered : i \in Ids \ {id}
        BY <1>5 DEF Registered
      <3> QED  BY <1>1, <1>4, <1>5, <3>2
    <2> DEFINE s == holderPolicies[h]
               t == Append(s, id)
    <2>3. s \in Seq(Ids) /\ holderPolicies'[h] = t
      BY <1>2, <1>3 DEF RegTypeOK
    <2>4. /\ \A j, k \in DOMAIN s : s[j] = s[k] => j = k
          /\ Range(s) = {i \in Registered : records[i].holder = h}
      BY <1>3 DEF HolderIndexExact
    <2>5. \A j \in DOMAIN s : s[j] # id
      BY <1>5, <2>4 DEF Range
    <2> HIDE DEF s
    <2>6. /\ DOMAIN t = 1 .. Len(s) + 1 /\ DOMAIN s = 1 .. Len(s) /\ Len(s) \in Nat
          /\ t[Len(s) + 1] = id /\ \A j \in 1 .. Len(s) : t[j] = s[j]
      BY <2>3
    <2> HIDE DEF t
    <2>7. \A j, k \in DOMAIN t : t[j] = t[k] => j = k
      BY <2>4, <2>5, <2>6
    <2>8. Range(t) = Range(s) \cup {id}
      <3>1. \A e : e \in Range(t) <=> \E j \in 1 .. Len(s) + 1 : e = t[j]
        BY <2>6 DEF Range
      <3>2. \A e : e \in Range(s) <=> \E j \in 1 .. Len(s) : e = s[j]
        BY <2>6 DEF Range
      <3>3. ASSUME NEW e \in Range(t)  PROVE e \in Range(s) \cup {id}
        <4>1. PICK j \in 1 .. Len(s) + 1 : e = t[j]
          BY <3>1
        <4>2. j \in 1 .. Len(s) \/ j = Len(s) + 1
          BY <2>6
        <4> QED  BY <2>6, <3>2, <4>1, <4>2
      <3>4. ASSUME NEW e \in Range(s)  PROVE e \in Range(t)
        <4>1. PICK j \in 1 .. Len(s) : e = s[j]
          BY <3>2
        <4>2. j \in 1 .. Len(s) + 1
          BY <2>6
        <4> QED  BY <2>6, <3>1, <4>1, <4>2
      <3>5. id \in Range(t)
        BY <2>6, <3>1
      <3> QED  BY <3>3, <3>4, <3>5
    <2> QED  BY <1>3, <2>1, <2>2, <2>3, <2>4, <2>7, <2>8 DEF HolderIndexExact
  <1>11. /\ counters.total = Cardinality(Registered)
         /\ counters.active = Cardinality(ActiveIds)
         /\ counters.premium = SumOver(Due(records), Ids)
    BY DEF RegInv, CountersAgree
  <1> QED  BY <1>2, <1>8, <1>9, <1>10, <1>11 DEF CountersAgree

\* Deactivating takes one id off the active ones and changes nothing else.
LEMMA DeactivateAgrees ==
  ASSUME RegInv, NEW c \in Addresses, NEW id \in Ids, deactivate_policy(c, id), RegTypeOK'
  PROVE  CountersAgree'
  <1> DEFINE r == [records[id] EXCEPT !.is_active = FALSE]
             Due(recs) == [i \in Ids |-> IF recs[i] = None THEN 0 ELSE recs[i].premium]
  <1>1. RegTypeOK /\ HolderIndexExact /\ records[id] # None /\ records[id] \in PolicyRecord
    BY DEF RegInv, CountersAgree, RegTypeOK, deactivate_policy
  <1>2. r # None /\ r.holder = records[id].holder /\ r.premium = records[id].premium /\ ~ r.is_active
    <2>1. /\ r \in PolicyRecord /\ r.holder = records[id].holder /\ r.premium = records[id].premium
          /\ ~ r.is_active
      BY <1>1 DEF PolicyRecord
    <2> HIDE DEF r
    <2> QED  BY <2>1
  <1>3. /\ records' = [records EXCEPT ![id] = r] /\ records[id].is_active
        /\ UNCHANGED holderPolicies
        /\ counters' = [counters EXCEPT !.active =
                          IF counters.active = 0 THEN 0 ELSE counters.active - 1]
    BY DEF deactivate_policy
  <1> HIDE DEF r
  <1>4. records'[id] = r /\ \A i \in Ids \ {id} : records'[i] = records[i]
    BY <1>1, <1>3 DEF RegTypeOK
  <1>5. Registered' = Registered
    BY <1>1, <1>2, <1>4 DEF Registered
  <1>6. ActiveIds' = ActiveIds \ {id} /\ id \in ActiveIds
    BY <1>1, <1>2, <1>3, <1>4, <1>5 DEF ActiveIds, Registered
  <1>7. IsFiniteSet(ActiveIds)
    BY FS_Subset DEF Registered, ActiveIds
  <1>8. Cardinality(ActiveIds') = Cardinality(ActiveIds) - 1 /\ Cardinality(ActiveIds) \in Nat \ {0}
    BY <1>6, <1>7, FS_RemoveElement, FS_CardinalityType, FS_EmptySet
  <1>9. Due(records') = Due(records)
    BY <1>1, <1>2, <1>4
  <1>10. HolderIndexExact'
    <2>1. \A i \in Registered : records'[i].holder = records[i].holder
      BY <1>2, <1>4 DEF Registered
    <2>2. \A g \in Holders : {i \in Registered' : records'[i].holder = g}
                               = {i \in Registered : records[i].holder = g}
      BY <1>5, <2>1
    <2> QED  BY <1>1, <1>3, <2>2 DEF HolderIndexExact
  <1>11. /\ counters.total = Cardinality(Registered)
         /\ counters.active = Cardinality(ActiveIds)
         /\ counters.premium = SumOver(Due(records), Ids)
    BY DEF RegInv, CountersAgree
  <1>12. /\ counters'.total = counters.total /\ counters'.premium = counters.premium
         /\ counters'.active = counters.active - 1
    BY <1>1, <1>3, <1>8, <1>11 DEF RegTypeOK
  <1> QED  BY <1>5, <1>8, <1>9, <1>10, <1>11, <1>12 DEF CountersAgree

\* A step that writes neither the records, nor the index, nor the counters.
LEMMA IndexUnread ==
  ASSUME CountersAgree, RegTypeOK', UNCHANGED <<records, holderPolicies, counters>>
  PROVE  CountersAgree' /\ Registered' = Registered
  <1>1. Registered' = Registered
    BY DEF Registered
  <1>2. ActiveIds' = ActiveIds
    BY <1>1 DEF ActiveIds
  <1>3. HolderIndexExact'
    BY <1>1 DEF CountersAgree, HolderIndexExact
  <1> QED  BY <1>1, <1>2, <1>3 DEF CountersAgree

\* initialize zeroes counters that are zero, since nothing was registered before it.
LEMMA InitializeAgrees ==
  ASSUME RegInv, NEW a \in Addresses, NEW q \in Addresses, initialize(a, q)
  PROVE  UNCHANGED <<records, holderPolicies, counters>>
  <1> DEFINE p == [id \in Ids |-> IF records[id] = None THEN 0 ELSE records[id].premium]
  <1>1. Registered = {} /\ RegTypeOK
    BY DEF RegInv, CountersAgree, initialize
  <1>2. ActiveIds = {} /\ \A id \in Ids : p[id] = 0
    BY <1>1 DEF ActiveIds, Registered
  <1> HIDE DEF p
  <1>3. SumOver(p, Ids) = 0 /\ Cardinality({}) = 0
    BY <1>2, SumZero, FS_EmptySet
  <1>4. counters.total = 0 /\ counters.premium = 0 /\ counters.active = 0
    BY <1>1, <1>2, <1>3 DEF RegInv, CountersAgree, p
  <1>5. counters = [total |-> 0, premium |-> 0, active |-> 0]
    BY <1>1, <1>4 DEF RegTypeOK
  <1> QED  BY <1>5 DEF initialize

\* The proposal on file carries its own window, and is only made by an admin.
LEMMA WindowStep ==
  ASSUME RegInv, [RegNext]_regVars
  PROVE  /\ pendingPool' # None => pendingPool'.executable_at = proposedAt'.at + proposedAt'.delay
         /\ admin' = None => admin = None /\ pendingAdmin' = None
  <1> DEFINE Goal ==
        /\ pendingPool' # None => pendingPool'.executable_at = proposedAt'.at + proposedAt'.delay
        /\ admin' = None => admin = None /\ pendingAdmin' = None
  <1>0. /\ admin = None => pendingAdmin = None
        /\ pendingPool # None => pendingPool.executable_at = proposedAt.at + proposedAt.delay
    BY DEF RegInv
  <1>1. ASSUME RegTick \/ UNCHANGED regVars  PROVE Goal
    BY <1>0, <1>1 DEF RegTick, regVars, trust
  <1>2. ASSUME NEW a \in Addresses, NEW q \in Addresses, initialize(a, q)  PROVE Goal
    BY <1>0, <1>2 DEF initialize
  <1>3. ASSUME NEW c \in Addresses, NEW id \in Ids, NEW h \in Holders, NEW x \in Premiums,
               register_policy(c, id, h, x)
        PROVE  Goal
    BY <1>0, <1>3 DEF register_policy, trust
  <1>4. ASSUME NEW c \in Addresses, NEW d \in ChangeDelays, set_pool_contract_change_delay(c, d)
        PROVE  Goal
    BY <1>0, <1>4 DEF set_pool_contract_change_delay
  <1>5. ASSUME NEW c \in Addresses, NEW q \in Addresses, propose_pool_contract(c, q)  PROVE Goal
    BY <1>0, <1>5 DEF propose_pool_contract, Proposal, require_admin
  <1>6. ASSUME NEW c \in Addresses, confirm_pool_contract(c) \/ cancel_pool_contract(c)  PROVE Goal
    BY <1>0, <1>6 DEF confirm_pool_contract, cancel_pool_contract, require_admin
  <1>7. ASSUME NEW c \in Addresses, NEW a \in Addresses, propose_admin(c, a)  PROVE Goal
    BY <1>0, <1>7 DEF propose_admin, require_admin
  <1>8. ASSUME NEW c \in Addresses, accept_admin(c)  PROVE Goal
    BY <1>0, <1>8 DEF accept_admin
  <1>9. ASSUME NEW c \in Addresses, NEW id \in Ids, deactivate_policy(c, id)  PROVE Goal
    BY <1>0, <1>9 DEF deactivate_policy, trust
  <1> QED  BY <1>1, <1>2, <1>3, <1>4, <1>5, <1>6, <1>7, <1>8, <1>9 DEF RegNext

\* Registering and deactivating are the only steps that write the index; the
\* others leave it.
LEMMA RegInvStep == RegInv /\ [RegNext]_regVars => RegInv'
  <1> SUFFICES ASSUME RegInv, [RegNext]_regVars  PROVE RegInv'
    OBVIOUS
  <1>1. RegTypeOK' /\ CountersAgree
    BY RegTypeStep DEF RegInv
  <1>2. ASSUME UNCHANGED <<records, holderPolicies, counters>>  PROVE RegInv'
    BY <1>1, <1>2, IndexUnread, WindowStep DEF RegInv
  <1>3. ASSUME NEW c \in Addresses, NEW id \in Ids, NEW h \in Holders, NEW x \in Premiums,
               register_policy(c, id, h, x)
        PROVE  RegInv'
    <2>1. admin # None /\ UNCHANGED admin
      BY <1>3 DEF register_policy, require_pool_or_admin, trust
    <2> QED  BY <1>1, <1>3, <2>1, RegisterAgrees, WindowStep DEF RegInv
  <1>4. ASSUME NEW c \in Addresses, NEW id \in Ids, deactivate_policy(c, id)  PROVE RegInv'
    <2>1. admin # None /\ UNCHANGED admin
      BY <1>4 DEF deactivate_policy, require_pool_or_admin, trust
    <2> QED  BY <1>1, <1>4, <2>1, DeactivateAgrees, WindowStep DEF RegInv
  <1>5. ASSUME NEW a \in Addresses, NEW q \in Addresses, initialize(a, q)  PROVE RegInv'
    BY <1>2, <1>5, InitializeAgrees
  <1>6. ASSUME \/ RegTick \/ UNCHANGED regVars
               \/ \E c \in Addresses, d \in ChangeDelays : set_pool_contract_change_delay(c, d)
               \/ \E c, q \in Addresses : propose_pool_contract(c, q)
               \/ \E c \in Addresses : confirm_pool_contract(c)
               \/ \E c \in Addresses : cancel_pool_contract(c)
               \/ \E c, a \in Addresses : propose_admin(c, a)
               \/ \E c \in Addresses : accept_admin(c)
        PROVE  RegInv'
    <2>1. UNCHANGED <<records, holderPolicies, counters>>
      BY <1>6 DEF RegTick, set_pool_contract_change_delay, propose_pool_contract, Proposal,
         confirm_pool_contract, cancel_pool_contract, propose_admin, accept_admin, regVars, index
    <2> QED  BY <1>2, <2>1
  <1> QED  BY <1>3, <1>4, <1>5, <1>6 DEF RegNext

\* The inductive invariant of the policy registry.
LEMMA RegInvHolds == RegSpec => []RegInv
  BY RegInvInit, RegInvStep, PTL DEF RegSpec

(* get_stats tells the truth for every number of policies, holders and     *)
(* addresses: the three counters and the holder index agree with the       *)
(* records, whoever registered and deactivated.                            *)
THEOREM StatsAlwaysAgree == RegSpec => []CountersAgree
  <1>1. RegInv => CountersAgree
    BY DEF RegInv
  <1> QED  BY <1>1, RegInvHolds, PTL

(* The trusted pool changes only to the pool proposed last and only once   *)
(* the delay in force at that proposal has run, for every delay.           *)
THEOREM RepointsAlwaysWait == RegSpec => RepointWaits
  <1> DEFINE Waits ==
        poolContract' # poolContract /\ poolContract # None =>
          /\ pendingPool # None /\ poolContract' = pendingPool.pool_contract
          /\ now >= proposedAt.at + proposedAt.delay
  <1>1. RegInv /\ [RegNext]_regVars => [Waits]_regVars
    <2> SUFFICES ASSUME RegInv, RegNext, poolContract' # poolContract, poolContract # None
                 PROVE  Waits
      BY DEF regVars
    <2>1. admin # None
      BY DEF RegInv, CountersAgree, RegTypeOK
    <2>2. PICK c \in Addresses : confirm_pool_contract(c)
      BY <2>1 DEF RegNext, RegTick, initialize, register_policy, deactivate_policy,
         set_pool_contract_change_delay, propose_pool_contract, Proposal, cancel_pool_contract,
         propose_admin, accept_admin, trust
    <2> QED  BY <2>2 DEF confirm_pool_contract, RegInv
  <1> QED  BY <1>1, RegInvHolds, PTL DEF RegSpec, RepointWaits

-----------------------------------------------------------------------------
(* The incident coordinator and the contracts it reaches. *)
USE AdministrationConstants

\* A lockdown in force waits for the new admin's acceptance or has it, and while
\* it has it nobody else is nominated: that is what an acceptance cannot undo.
LockdownInv ==
  /\ NominationsCurrent
  /\ named \in [{"registry", "policy", "oracle"} -> Addresses \cup {None}]
  /\ lockdown # None =>
       /\ poolAdmin = lockdown
       /\ admin # None /\ (pendingAdmin = lockdown \/ (admin = lockdown /\ pendingAdmin = None))
       /\ oracleAdmin # None
       /\ (oraclePending = lockdown \/ (oracleAdmin = lockdown /\ oraclePending = None))

\* No handover is under way in the initial state.
LEMMA LockdownInvInit == RegInit /\ OracleInit /\ AdminInit => LockdownInv
  <1> SUFFICES ASSUME RegInit, OracleInit, AdminInit  PROVE LockdownInv
    OBVIOUS
  <1>1. AdminTypeOK
    BY DEF AdminInit, AdminTypeOK
  <1>2. \A k \in DOMAIN named : Pending(k) = named[k]
    BY DEF AdminInit, RegInit, OracleInit, Pending
  <1> QED  BY <1>1, <1>2 DEF AdminInit, LockdownInv, NominationsCurrent

\* LockdownInv with the three nominations spelt out, which the steps below keep.
Standing ==
  /\ named \in [{"registry", "policy", "oracle"} -> Addresses \cup {None}]
  /\ named["registry"] = regPending
  /\ named["policy"] = pendingAdmin
  /\ named["oracle"] = oraclePending
  /\ lockdown # None =>
       /\ poolAdmin = lockdown
       /\ admin # None /\ (pendingAdmin = lockdown \/ (admin = lockdown /\ pendingAdmin = None))
       /\ oracleAdmin # None
       /\ (oraclePending = lockdown \/ (oracleAdmin = lockdown /\ oraclePending = None))

\* The invariant in the form the steps are proved in.
LEMMA StandingIsInv == LockdownInv <=> AdminTypeOK /\ Standing
  BY DEF LockdownInv, NominationsCurrent, Standing, Pending

\* The same for the next state.
LEMMA StandingIsInvNext == LockdownInv' <=> AdminTypeOK' /\ Standing'
  BY DEF LockdownInv, NominationsCurrent, Standing, Pending

\* The contract registry and the parameter store, whose own operations an
\* incident never meets.
LEMMA StoresKeep ==
  ASSUME LockdownInv, StoresNext, UNCHANGED <<regVars, oracleVars, coordinatorVars>>
  PROVE  LockdownInv'
  <1>0. AdminTypeOK /\ Standing
    BY StandingIsInv
  <1> SUFFICES AdminTypeOK' /\ Standing'
    BY StandingIsInvNext
  <1> USE <1>0 DEF AdminTypeOK, Standing, regVars, trust, oracleVars, roles, coordinatorVars,
                   adminHistory
  <1>1. ASSUME NEW a \in Addresses, registry_initialize(a) \/ registry_accept_admin(a)
        PROVE  AdminTypeOK' /\ Standing'
    BY <1>1 DEF registry_initialize, registry_accept_admin, Named
  <1>2. ASSUME NEW a \in Addresses, params_initialize(a)  PROVE AdminTypeOK' /\ Standing'
    BY <1>2 DEF params_initialize
  <1>3. ASSUME NEW c \in Addresses, NEW a \in Addresses, registry_propose_admin(c, a)
        PROVE  AdminTypeOK' /\ Standing'
    BY <1>3 DEF registry_propose_admin, Named
  <1>4. ASSUME NEW c \in Addresses, NEW a \in Addresses, set_timelock(c, a)
        PROVE  AdminTypeOK' /\ Standing'
    BY <1>4 DEF set_timelock
  <1>5. ASSUME NEW c \in Addresses, NEW r \in Roles, registry_remove(c, r)
        PROVE  AdminTypeOK' /\ Standing'
    BY <1>5 DEF registry_remove
  <1>6. ASSUME NEW c \in Addresses, NEW a \in Addresses, NEW r \in Roles, registry_set(c, r, a)
        PROVE  AdminTypeOK' /\ Standing'
    BY <1>6 DEF registry_set
  <1>7. ASSUME NEW c \in Addresses, NEW k \in Keys, NEW v \in Settings, params_set(c, k, v)
        PROVE  AdminTypeOK' /\ Standing'
    BY <1>7 DEF params_set
  <1> QED  BY <1>1, <1>2, <1>3, <1>4, <1>5, <1>6, <1>7 DEF StoresNext

\* The coordinator, the pool's admin and the two handovers it starts.
LEMMA IncidentKeeps ==
  ASSUME LockdownInv, IncidentNext
  PROVE  LockdownInv'
  <1>0. AdminTypeOK /\ Standing
    BY StandingIsInv
  <1> SUFFICES AdminTypeOK' /\ Standing'
    BY StandingIsInvNext
  <1> USE <1>0 DEF AdminTypeOK, Standing, regVars, trust, oracleVars, roles, storeVars,
                   coordinatorVars, adminHistory
  <1>1. ASSUME NEW a \in Addresses, pool_initialize(a)  PROVE AdminTypeOK' /\ Standing'
    BY <1>1 DEF pool_initialize
  <1>2. ASSUME NEW a \in Addresses, oracle_initialize(a),
               UNCHANGED <<regVars, storeVars, coordinatorVars, adminHistory>>
        PROVE  AdminTypeOK' /\ Standing'
    BY <1>2 DEF oracle_initialize
  <1>3. ASSUME NEW a \in Addresses, NEW g \in Addresses, incident_initialize(a, g)
        PROVE  AdminTypeOK' /\ Standing'
    BY <1>3 DEF incident_initialize
  <1>4. ASSUME NEW a \in Addresses, NEW p \in Addresses, initialize(a, p),
               UNCHANGED <<oracleVars, storeVars, coordinatorVars, adminHistory>>
        PROVE  AdminTypeOK' /\ Standing'
    BY <1>4 DEF initialize
  <1>5. ASSUME NEW c \in Addresses, NEW n \in Addresses, set_guardian(c, n)
        PROVE  AdminTypeOK' /\ Standing'
    BY <1>5 DEF set_guardian, require_responder
  <1>6. ASSUME NEW c \in Addresses, NEW n \in Addresses, emergency_lockdown(c, n)
        PROVE  AdminTypeOK' /\ Standing'
    BY <1>6 DEF emergency_lockdown, require_responder, set_admin, propose_admin, require_admin,
       oracle_propose_admin
  <1>7. ASSUME NEW c \in Addresses, NEW n \in Addresses, migrate_pool(c, n)
        PROVE  AdminTypeOK' /\ Standing'
    BY <1>7 DEF migrate_pool, propose_pool_contract, Proposal
  <1>8. ASSUME NEW c \in Addresses, NEW n \in Addresses, Handover(c, n)
        PROVE  AdminTypeOK' /\ Standing'
    BY <1>8 DEF Handover, set_admin, propose_admin, oracle_propose_admin, Named
  <1>9. ASSUME NEW c \in Addresses, Acceptance(c)  PROVE AdminTypeOK' /\ Standing'
    BY <1>9 DEF Acceptance, accept_admin, oracle_accept_admin, Named
  <1> QED  BY <1>1, <1>2, <1>3, <1>4, <1>5, <1>6, <1>7, <1>8, <1>9 DEF IncidentNext

\* The inductive invariant of the administration.
LEMMA LockdownInvHolds == AdministrationSpec => []LockdownInv
  <1> DEFINE Step == \/ IncidentNext
                     \/ StoresNext /\ UNCHANGED <<regVars, oracleVars, coordinatorVars>>
                     \/ OtherBusiness
  <1>1. LockdownInv /\ [Step]_AdministrationVars => LockdownInv'
    <2> SUFFICES ASSUME LockdownInv, [Step]_AdministrationVars  PROVE LockdownInv'
      OBVIOUS
    <2>1. CASE OtherBusiness \/ UNCHANGED AdministrationVars
      <3>1. UNCHANGED <<admin, pendingAdmin, oracleAdmin, oraclePending, storeVars, coordinatorVars,
                        adminHistory>>
        BY <2>1 DEF OtherBusiness, AdministrationVars, regVars, trust, oracleVars, roles
      <3>2. AdminTypeOK /\ Standing
        BY StandingIsInv
      <3>3. AdminTypeOK' /\ Standing'
        BY <3>1, <3>2 DEF AdminTypeOK, Standing, storeVars, coordinatorVars, adminHistory
      <3> QED  BY <3>3, StandingIsInvNext
    <2> QED  BY <2>1, IncidentKeeps, StoresKeep
  <1> QED  BY <1>1, LockdownInvInit, PTL DEF AdministrationSpec

(* emergency_lockdown holds, for every number of addresses: until a        *)
(* current holder of one of the three contracts hands over anew - which a  *)
(* compromised admin of the policy registry or the oracle can, before the  *)
(* new admin accepts - the new admin has the pool and has, or can accept,  *)
(* the other two; and in every two-step handover the successor is the one  *)
(* the present incumbent named last.                                       *)
THEOREM LockdownAlwaysHolds == AdministrationSpec => []LockdownHolds
  <1>1. LockdownInv => LockdownHolds
    BY DEF LockdownInv, LockdownHolds
  <1> QED  BY <1>1, LockdownInvHolds, PTL

-----------------------------------------------------------------------------
(* The multisig. *)
USE MultisigConstants

\* Counting a sequence's entries and counting its values agree when none repeats.
LEMMA InjectiveIsDistinct ==
  ASSUME NEW S, NEW seq \in Seq(S)
  PROVE  /\ IsFiniteSet(Range(seq)) /\ Cardinality(Range(seq)) \in Nat
         /\ Distinct(seq) <=> IsInjective(seq)
  <1>1. DOMAIN seq = 1 .. Len(seq) /\ Len(seq) \in Nat
    OBVIOUS
  <1>2. IsFiniteSet(DOMAIN seq) /\ Cardinality(DOMAIN seq) = Len(seq)
    BY <1>1, FS_Interval
  <1>3. seq \in Surjection(DOMAIN seq, Range(seq))
    BY DEF Surjection, Range
  <1>4. /\ IsFiniteSet(Range(seq))
        /\ Cardinality(Range(seq)) = Cardinality(DOMAIN seq) <=> seq \in Injection(DOMAIN seq, Range(seq))
    BY <1>2, <1>3, FS_Surjection
  <1>5. seq \in Injection(DOMAIN seq, Range(seq)) <=> IsInjective(seq)
    BY <1>3 DEF Injection, Surjection
  <1> QED  BY <1>2, <1>4, <1>5, FS_CardinalityType DEF Distinct

\* Of one proposal: no owner approves it twice, it runs once, on a full quorum.
Quorate(p, q) ==
  /\ p \in MsProposal /\ q \in Seq([by : SUBSET Signers, needed : Nat])
  /\ IsInjective(p.approvals)
  /\ p.status # "Executed" => q = <<>>
  /\ Len(q) <= 1
  /\ \A k \in DOMAIN q : Cardinality(q[k].by) >= q[k].needed

\* Before initialize there is no owner and no proposal; owners never repeat.
MsInv ==
  /\ MsTypeOK
  /\ quorums \in [MsIds -> Seq([by : SUBSET Signers, needed : Nat])]
  /\ IsInjective(owners)
  /\ initialized => threshold >= 1
  /\ ~initialized => owners = <<>> /\ nextId = 0
  /\ \A id \in MsIds : Quorate(proposals[id], quorums[id])

\* A deployed multisig has no owners, no proposals and no executions.
LEMMA MsInvInit == MsInit => MsInv
  <1> SUFFICES ASSUME MsInit  PROVE MsInv
    OBVIOUS
  <1>1. NoProposal \in MsProposal /\ NoProposal.status = "Absent" /\ NoProposal.approvals = <<>>
    BY DEF NoProposal, MsProposal, Payload
  <1>2. <<>> \in Seq(Signers) /\ Len(<<>>) = 0 /\ IsInjective(<<>>)
        /\ <<>> \in Seq([by : SUBSET Signers, needed : Nat])
    BY DEF IsInjective
  <1>3. \A id \in MsIds : proposals[id] = NoProposal /\ quorums[id] = <<>>
    BY DEF MsInit
  <1>4. MsTypeOK
    <2>1. proposals \in [MsIds -> MsProposal]
      BY <1>1 DEF MsInit
    <2>2. \A id \in MsIds : id >= 0
      BY DEF MsIds
    <2>3. owners \in Seq(Signers) /\ threshold \in 0 .. Len(owners) /\ nextId \in 0 .. MaxProposals
      BY <1>2 DEF MsInit
    <2> QED  BY <1>1, <1>3, <2>1, <2>2, <2>3 DEF MsInit, MsTypeOK
  <1>5. Quorate(NoProposal, <<>>)
    BY <1>1, <1>2 DEF Quorate
  <1> QED  BY <1>2, <1>3, <1>4, <1>5 DEF MsInit, MsInv

\* Appending a value that is not there repeats nothing.
LEMMA AppendNew ==
  ASSUME NEW S, NEW seq \in Seq(S), NEW e \in S, IsInjective(seq), e \notin Range(seq)
  PROVE  IsInjective(Append(seq, e)) /\ Append(seq, e) \in Seq(S)
  <1> DEFINE t == Append(seq, e)
  <1>1. /\ t \in Seq(S) /\ DOMAIN t = 1 .. Len(seq) + 1 /\ DOMAIN seq = 1 .. Len(seq)
        /\ Len(seq) \in Nat /\ t[Len(seq) + 1] = e /\ \A j \in 1 .. Len(seq) : t[j] = seq[j]
    OBVIOUS
  <1>2. \A j \in DOMAIN seq : seq[j] # e
    BY DEF Range
  <1> HIDE DEF t
  <1>3. \A j, k \in DOMAIN t : t[j] = t[k] => j = k
    BY <1>1, <1>2 DEF IsInjective
  <1> QED  BY <1>1, <1>3 DEF t, IsInjective

\* Proposing, approving and setting up.
LEMMA MsVotingStep ==
  ASSUME MsInv, \A list \in OwnerLists : Distinct(list),
         \/ \E list \in OwnerLists, m \in 1 .. Cardinality(Signers) : multisig_initialize(list, m)
         \/ \E s \in Signers, payload \in Payloads : propose(s, payload)
         \/ \E s \in Signers, id \in MsIds : approve(s, id)
         \/ UNCHANGED msVars
  PROVE  MsInv'
  <1>0. MsTypeOK /\ \A id \in MsIds : Quorate(proposals[id], quorums[id])
    BY DEF MsInv
  <1>1. ASSUME NEW list \in OwnerLists, NEW m \in 1 .. Cardinality(Signers),
               multisig_initialize(list, m)
        PROVE  MsInv'
    <2>1. nextId = 0 /\ owners = <<>>
      BY <1>1 DEF multisig_initialize, MsInv
    <2>2. Cardinality(Signers) \in Nat
      BY FS_CardinalityType
    <2>3. list \in Seq(Signers) /\ IsInjective(list) /\ Len(list) \in Nat
      BY InjectiveIsDistinct
    <2>4. /\ owners' = list /\ threshold' = m /\ nextId' = 0 /\ initialized' = TRUE
          /\ UNCHANGED <<proposals, quorums>> /\ m <= Len(list)
      BY <1>1 DEF multisig_initialize
    <2>5. m \in 0 .. Len(list) /\ m >= 1 /\ 0 \in 0 .. MaxProposals
      BY <2>2, <2>3, <2>4
    <2>6. MsTypeOK'
      BY <1>0, <2>1, <2>3, <2>4, <2>5 DEF MsTypeOK
    <2> QED  BY <2>3, <2>4, <2>5, <2>6 DEF MsInv
  <1>2. ASSUME NEW s \in Signers, NEW payload \in Payloads, propose(s, payload)  PROVE MsInv'
    <2> DEFINE p == [status |-> "Pending", payload |-> payload, approvals |-> <<s>>]
    <2>1. /\ p \in MsProposal /\ p.status = "Pending" /\ p.approvals = <<s>>
      BY DEF MsProposal
    <2>2. /\ nextId \in MsIds /\ s \in Range(owners)
          /\ proposals' = [proposals EXCEPT ![nextId] = p]
          /\ nextId' = nextId + 1 /\ UNCHANGED <<owners, initialized, threshold, quorums>>
      BY <1>2 DEF propose, IsOwner
    <2> HIDE DEF p
    <2>3. proposals[nextId].status = "Absent"
      BY <1>0, <2>2 DEF MsTypeOK, MsIds
    <2>4. quorums[nextId] = <<>>
      BY <1>0, <2>2, <2>3 DEF Quorate
    <2>5. IsInjective(<<s>>) /\ Len(<<>>) = 0 /\ <<>> \in Seq([by : SUBSET Signers, needed : Nat])
      BY DEF IsInjective
    <2>6. Quorate(p, <<>>)
      BY <2>1, <2>5 DEF Quorate
    <2>7. /\ proposals'[nextId] = p /\ proposals' \in [MsIds -> MsProposal]
          /\ \A id \in MsIds \ {nextId} : proposals'[id] = proposals[id]
      BY <1>0, <2>1, <2>2 DEF MsTypeOK
    <2>8. initialized
      <3>1. Range(<<>>) = {}
        BY DEF Range
      <3> QED  BY <2>2, <3>1 DEF MsInv
    <2>9. nextId' \in 0 .. MaxProposals /\ nextId \in Nat
      BY <1>0, <2>2 DEF MsTypeOK, MsIds
    <2>10. \A id \in MsIds : proposals'[id].status = "Absent" <=> id >= nextId'
      <3> SUFFICES ASSUME NEW id \in MsIds
                   PROVE  proposals'[id].status = "Absent" <=> id >= nextId'
        OBVIOUS
      <3>1. id \in Int
        BY DEF MsIds
      <3>2. CASE id = nextId
        BY <2>1, <2>2, <2>7, <2>9, <3>2
      <3>3. CASE id # nextId
        <4>1. proposals'[id].status = "Absent" <=> id >= nextId
          BY <1>0, <2>7, <3>3 DEF MsTypeOK
        <4>2. id >= nextId <=> id >= nextId + 1
          BY <2>9, <3>1, <3>3
        <4> QED  BY <2>2, <4>1, <4>2
      <3> QED  BY <3>2, <3>3
    <2>11. MsTypeOK'
      BY <1>0, <2>2, <2>7, <2>9, <2>10 DEF MsTypeOK
    <2>12. \A id \in MsIds : Quorate(proposals'[id], quorums'[id])
      BY <1>0, <2>2, <2>4, <2>6, <2>7
    <2> QED  BY <2>2, <2>8, <2>11, <2>12 DEF MsInv
  <1>3. ASSUME NEW s \in Signers, NEW id \in MsIds, approve(s, id)  PROVE MsInv'
    <2> DEFINE old == proposals[id]
               p == [old EXCEPT !.approvals = Append(@, s)]
    <2>1. /\ old \in MsProposal /\ old.status = "Pending" /\ s \notin Range(old.approvals)
          /\ proposals' = [proposals EXCEPT ![id] = p]
          /\ UNCHANGED <<owners, initialized, threshold, nextId, quorums>>
      BY <1>0, <1>3 DEF approve, MsTypeOK
    <2>2. Quorate(old, quorums[id])
      BY <1>0
    <2>3. IsInjective(Append(old.approvals, s)) /\ Append(old.approvals, s) \in Seq(Signers)
      <3>1. old.approvals \in Seq(Signers) /\ IsInjective(old.approvals)
        BY <2>1, <2>2 DEF Quorate, MsProposal
      <3> QED  BY <2>1, <3>1, AppendNew
    <2>4. p \in MsProposal /\ p.status = "Pending" /\ p.approvals = Append(old.approvals, s)
      BY <2>1, <2>3 DEF MsProposal
    <2> HIDE DEF p
    <2>5. Quorate(p, quorums[id])
      BY <2>1, <2>2, <2>3, <2>4 DEF Quorate
    <2> HIDE DEF old
    <2>6. /\ proposals'[id] = p /\ proposals' \in [MsIds -> MsProposal]
          /\ \A i \in MsIds \ {id} : proposals'[i] = proposals[i]
      BY <1>0, <2>1, <2>4 DEF MsTypeOK
    <2>7. \A i \in MsIds : proposals'[i].status = "Absent" <=> i >= nextId
      BY <1>0, <2>1, <2>4, <2>6 DEF MsTypeOK, old
    <2>8. MsTypeOK'
      BY <1>0, <2>1, <2>6, <2>7 DEF MsTypeOK
    <2>9. \A i \in MsIds : Quorate(proposals'[i], quorums'[i])
      BY <1>0, <2>1, <2>5, <2>6
    <2> QED  BY <2>1, <2>8, <2>9 DEF MsInv
  <1>4. ASSUME UNCHANGED msVars  PROVE MsInv'
    BY <1>4 DEF msVars, MsInv, MsTypeOK
  <1> QED  BY <1>1, <1>2, <1>3, <1>4

\* Whatever an execution forwards, owners stay distinct and the threshold stays
\* between one and their number.
LEMMA ForwardKeeps ==
  ASSUME MsInv, initialized, NEW payload \in Payload, Forward(payload)
  PROVE  /\ owners' \in Seq(Signers) /\ IsInjective(owners')
         /\ threshold' \in 1 .. Len(owners')
  <1>0. /\ owners \in Seq(Signers) /\ IsInjective(owners) /\ threshold \in 1 .. Len(owners)
        /\ Len(owners) \in Nat
    BY DEF MsInv, MsTypeOK
  <1> DEFINE Goal == /\ owners' \in Seq(Signers) /\ IsInjective(owners')
                     /\ threshold' \in 1 .. Len(owners')
  <1>1. CASE payload.fn = "call" /\ UNCHANGED <<owners, threshold>>
    BY <1>0, <1>1
  <1>2. CASE payload.fn = "add_owner" /\ add_owner(payload.owner)
    <2>1. payload.owner \in Signers
      BY <1>2 DEF Payload
    <2>2. CASE payload.owner \in Range(owners)
      BY <1>0, <1>2, <2>2 DEF add_owner, IsOwner
    <2>3. CASE payload.owner \notin Range(owners)
      <3>1. owners' = Append(owners, payload.owner) /\ UNCHANGED threshold
        BY <1>2, <2>3 DEF add_owner, IsOwner
      <3>2. IsInjective(owners') /\ owners' \in Seq(Signers)
        BY <1>0, <2>1, <2>3, <3>1, AppendNew
      <3>3. Len(owners') = Len(owners) + 1
        BY <1>0, <2>1, <3>1
      <3> QED  BY <1>0, <3>1, <3>2, <3>3
    <2> QED  BY <2>2, <2>3
  <1>3. CASE payload.fn = "remove_owner" /\ remove_owner(payload.owner)
    <2> DEFINE o == payload.owner
               w == Without(owners, o)
    <2>1. /\ Len(owners) > 1 /\ owners' = w
          /\ threshold' = IF threshold < Len(w) THEN threshold ELSE Len(w)
      BY <1>3 DEF remove_owner
    <2>2. w \in Seq(Signers) /\ IsInjective(w) /\ Range(w) = Range(owners) \ {o}
      BY <1>0, WithoutFacts
    <2> HIDE DEF w
    <2>3. Len(w) # 0
      <3>1. owners[1] \in Range(owners) /\ owners[2] \in Range(owners) /\ owners[1] # owners[2]
        BY <1>0, <2>1 DEF Range, IsInjective
      <3>2. Range(w) # {}
        BY <2>2, <3>1
      <3>3. Range(<<>>) = {}
        BY DEF Range
      <3> QED  BY <2>2, <3>2, <3>3
    <2>4. Len(w) \in Nat \ {0}
      BY <2>2, <2>3
    <2> QED  BY <1>0, <2>1, <2>2, <2>4
  <1>4. CASE payload.fn = "change_threshold" /\ change_threshold(payload.threshold)
    <2>1. payload.threshold \in Nat
      BY <1>4 DEF Payload
    <2> QED  BY <1>0, <1>4, <2>1 DEF change_threshold
  <1> QED  BY <1>1, <1>2, <1>3, <1>4 DEF Forward

\* An execution is recorded once, with as many approvers as the threshold asked for.
LEMMA MsExecuteStep ==
  ASSUME MsInv, NEW id \in MsIds, execute(id)
  PROVE  MsInv'
  <1> DEFINE old == proposals[id]
             p == [old EXCEPT !.status = "Executed"]
             e == [by |-> Range(old.approvals), needed |-> threshold]
             q == Append(quorums[id], e)
  <1>0. MsTypeOK /\ \A i \in MsIds : Quorate(proposals[i], quorums[i])
    BY DEF MsInv
  <1>1. /\ old \in MsProposal /\ old.status = "Pending" /\ Len(old.approvals) >= threshold
        /\ proposals' = [proposals EXCEPT ![id] = p]
        /\ quorums' = [quorums EXCEPT ![id] = q]
        /\ Forward(old.payload) /\ UNCHANGED <<initialized, nextId>>
    BY <1>0 DEF execute, MsTypeOK
  <1>2. Quorate(old, quorums[id])
    BY <1>0
  <1>3. old.payload \in Payload /\ old.approvals \in Seq(Signers) /\ IsInjective(old.approvals)
    BY <1>1, <1>2 DEF Quorate, MsProposal
  <1>4. p \in MsProposal /\ p.status = "Executed" /\ p.approvals = old.approvals
    BY <1>1 DEF MsProposal
  <1>5. initialized
    <2>1. nextId # 0
      BY <1>0, <1>1 DEF MsTypeOK, MsIds
    <2> QED  BY <2>1 DEF MsInv
  <1>6. /\ owners' \in Seq(Signers) /\ IsInjective(owners')
        /\ threshold' \in 1 .. Len(owners')
    BY <1>1, <1>3, <1>5, ForwardKeeps
  <1>7. threshold \in Nat
    BY <1>0 DEF MsTypeOK
  <1>8. Cardinality(Range(old.approvals)) = Len(old.approvals) /\ Range(old.approvals) \subseteq Signers
    <2>1. Distinct(old.approvals)
      BY <1>3, InjectiveIsDistinct
    <2> QED  BY <1>3, <2>1 DEF Distinct, Range
  <1>9. /\ e \in [by : SUBSET Signers, needed : Nat]
        /\ e.by = Range(old.approvals) /\ e.needed = threshold
    BY <1>7, <1>8
  <1>10. Cardinality(e.by) >= e.needed
    BY <1>1, <1>8, <1>9
  <1>11. quorums[id] = <<>> /\ q = <<e>>
    <2>1. quorums[id] = <<>>
      BY <1>1, <1>2 DEF Quorate
    <2> HIDE DEF e
    <2> QED  BY <2>1
  <1> HIDE DEF p, e, q, old
  <1>12. /\ q \in Seq([by : SUBSET Signers, needed : Nat]) /\ Len(q) = 1
         /\ \A k \in DOMAIN q : q[k] = e
    BY <1>9, <1>11
  <1>13. Quorate(p, q)
    BY <1>3, <1>4, <1>10, <1>12 DEF Quorate
  <1>14. /\ proposals'[id] = p /\ proposals' \in [MsIds -> MsProposal]
         /\ \A i \in MsIds \ {id} : proposals'[i] = proposals[i]
    BY <1>0, <1>1, <1>4 DEF MsTypeOK
  <1>15. /\ quorums'[id] = q /\ quorums' \in [MsIds -> Seq([by : SUBSET Signers, needed : Nat])]
         /\ \A i \in MsIds \ {id} : quorums'[i] = quorums[i]
    BY <1>1, <1>12 DEF MsInv
  <1>16. \A i \in MsIds : proposals'[i].status = "Absent" <=> i >= nextId
    BY <1>0, <1>1, <1>4, <1>14 DEF MsTypeOK, old
  <1>17. MsTypeOK'
    BY <1>0, <1>1, <1>6, <1>14, <1>16 DEF MsTypeOK
  <1>18. \A i \in MsIds : Quorate(proposals'[i], quorums'[i])
    BY <1>0, <1>13, <1>14, <1>15
  <1>19. threshold' >= 1 /\ initialized'
    BY <1>1, <1>5, <1>6
  <1> QED  BY <1>6, <1>15, <1>17, <1>18, <1>19 DEF MsInv

(* Every execution had as many different approvers as the threshold asked  *)
(* for, no proposal runs twice and the owners can always reach the         *)
(* threshold: for every set of signers and every sequence of management    *)
(* calls, given that initialize is called with no owner twice (which the   *)
(* code does not check).                                                   *)
THEOREM QuorumsAlwaysDistinct ==
  ASSUME \A list \in OwnerLists : Distinct(list)
  PROVE  MsSpec => []DistinctQuorum
  <1>1. MsInv /\ [MsNext]_msVars => MsInv'
    BY MsVotingStep, MsExecuteStep DEF MsNext
  <1>2. MsInv => DistinctQuorum
    <2> SUFFICES ASSUME MsInv  PROVE DistinctQuorum
      OBVIOUS
    <2>1. Cardinality(Range(owners)) = Len(owners)
      BY InjectiveIsDistinct DEF MsInv, MsTypeOK, Distinct
    <2>2. ThresholdReachable
      BY <2>1 DEF MsInv, MsTypeOK, ThresholdReachable
    <2>3. ASSUME NEW id \in MsIds
          PROVE  /\ Len(quorums[id]) <= 1
                 /\ \A k \in DOMAIN quorums[id] :
                       Cardinality(quorums[id][k].by) >= quorums[id][k].needed
                 /\ Distinct(proposals[id].approvals)
      <3>1. Quorate(proposals[id], quorums[id])
        BY DEF MsInv
      <3>2. proposals[id].approvals \in Seq(Signers)
        BY <3>1 DEF Quorate, MsProposal
      <3> QED  BY <3>1, <3>2, InjectiveIsDistinct DEF Quorate
    <2> QED  BY <2>2, <2>3 DEF DistinctQuorum
  <1> QED  BY <1>1, <1>2, MsInvInit, PTL DEF MsSpec
=============================================================================
