---------------------------- MODULE PaymentProofs ----------------------------
(***************************************************************************)
(* Proofs about the money that leaves the protocol: the treasury's custody *)
(* and payment requests, its safeguards, the failed payouts of             *)
(* refract-common and the bounty escrow.                                   *)
(***************************************************************************)
EXTENDS Treasury, FailedPayouts, Safeguards, PayoutRegistry, Bounty, CollectionTheorems

USE TreasuryConstants, AbsentRequest DEF RequestIds

\* A payment request that is stored has its fields.
LEMMA RequestFields ==
  ASSUME NEW r \in PaymentRequest
  PROVE  /\ r.requester \in Accounts /\ r.payee \in Accounts /\ r.token \in Tokens
         /\ r.amount \in PayAmounts /\ r.amount \in Nat /\ r.amount > 0
         /\ r.status \in PaymentStatus /\ r.approver \in Accounts \cup {None}
         /\ r # None
  BY DEF PaymentRequest

\* A request that is rewritten to another request leaves the book of requests
\* well typed.
LEMMA RequestRewritten ==
  ASSUME TreasuryTypeOK, NEW i \in RequestIds, requests[i] # None,
         NEW r \in PaymentRequest, requests' = [requests EXCEPT ![i] = r],
         UNCHANGED nextRequestId
  PROVE  /\ requests' \in [RequestIds -> PaymentRequest \cup {None}]
         /\ nextRequestId' \in 0 .. MaxRequests
         /\ \A j \in RequestIds : requests'[j] # None <=> j < nextRequestId'
  BY DEF TreasuryTypeOK

\* The empty treasury has its type.
LEMMA TreasuryTypeInit == TreasuryInit => TreasuryTypeOK
  BY DEF TreasuryInit, TreasuryTypeOK

\* Every entrypoint of the treasury keeps the type of its storage.
LEMMA TreasuryTypeStep == TreasuryTypeOK /\ [TreasuryNext]_treasuryVars => TreasuryTypeOK'
  <1> SUFFICES ASSUME TreasuryTypeOK, [TreasuryNext]_treasuryVars
               PROVE  TreasuryTypeOK'
    OBVIOUS
  <1> USE DEF TreasuryTypeOK, tokens, paying, seeding
  <1>1. ASSUME NEW b \in Backstops, set_backstop(b)  PROVE TreasuryTypeOK'
    BY <1>1 DEF set_backstop
  <1>2. ASSUME NEW t \in Tokens, NEW amount \in PayAmounts, Deposit(t, amount)
        PROVE  TreasuryTypeOK'
    <2>1. amount \in Nat /\ held[t] + amount \in Nat /\ deposited[t] + amount \in Nat
      BY TreasuryConstants
    <2>2. /\ held' = [held EXCEPT ![t] = held[t] + amount]
          /\ deposited' = [deposited EXCEPT ![t] = deposited[t] + amount]
          /\ UNCHANGED <<backstopHeld, spent, seedsOut, others, paying, seeding, screening>>
      BY <1>2 DEF Deposit
    <2>3. held' \in [Tokens -> Nat] /\ deposited' \in [Tokens -> Nat]
      BY <2>1, <2>2
    <2> QED  BY <2>2, <2>3
  <1>3. ASSUME NEW t \in Tokens, NEW amount \in PayAmounts, NEW to \in Accounts,
               withdraw(t, amount, to)
        PROVE  TreasuryTypeOK'
    <2>1. held[t] - amount \in Nat /\ spent[t] + amount \in Nat
      <3>1. amount <= held[t]
        BY <1>3 DEF withdraw
      <3>2. amount \in Nat /\ held[t] \in Nat /\ spent[t] \in Nat
        BY TreasuryConstants
      <3> QED  BY <3>1, <3>2
    <2>2. /\ held' = [held EXCEPT ![t] = held[t] - amount]
          /\ spent' = [spent EXCEPT ![t] = spent[t] + amount]
          /\ UNCHANGED <<backstopHeld, deposited, seedsOut, others, paying, seeding, screening>>
      BY <1>3 DEF withdraw
    <2>3. held' \in [Tokens -> Nat] /\ spent' \in [Tokens -> Nat]
      BY <2>1, <2>2
    <2> QED  BY <2>2, <2>3
  <1>4. ASSUME NEW t \in Tokens, NEW amount \in PayAmounts, seed_backstop(t, amount)
        PROVE  TreasuryTypeOK'
    <2>1. backstop \in Backstops /\ amount \in Nat /\ held[t] - amount \in Nat
      <3>1. backstop # None /\ amount <= held[t]
        BY <1>4 DEF seed_backstop
      <3>2. amount \in Nat /\ held[t] \in Nat
        BY TreasuryConstants
      <3> QED  BY <3>1, <3>2
    <2>2. held' = [held EXCEPT ![t] = held[t] - amount] /\ seeded' = seeded + amount
      BY <1>4 DEF seed_backstop
    <2>3. backstopHeld' = [backstopHeld EXCEPT ![backstop][t] = backstopHeld[backstop][t] + amount]
      BY <1>4 DEF seed_backstop
    <2>4. backstopHeld' \in [Backstops -> [Tokens -> Nat]]
      BY <2>1, <2>3
    <2>5. held' \in [Tokens -> Nat] /\ seeded' \in Nat
      BY <2>1, <2>2
    <2>6. seedsOut' \in [Tokens -> Int]
      BY <1>4, <2>1 DEF seed_backstop
    <2> QED  BY <1>4, <2>4, <2>5, <2>6 DEF seed_backstop
  <1>5. ASSUME NEW t \in Tokens, NEW amount \in PayAmounts, recall_seed(t, amount)
        PROVE  TreasuryTypeOK'
    <2>1. backstop \in Backstops /\ amount \in Nat /\ amount <= seeded
          /\ amount <= backstopHeld[backstop][t]
      BY <1>5 DEF recall_seed
    <2>2. /\ held' = [held EXCEPT ![t] = held[t] + amount] /\ seeded' = seeded - amount
          /\ seedsOut' = [seedsOut EXCEPT ![t] = seedsOut[t] - amount]
      BY <1>5 DEF recall_seed
    <2>3. backstopHeld' = [backstopHeld EXCEPT ![backstop][t] = backstopHeld[backstop][t] - amount]
      BY <1>5 DEF recall_seed
    <2>4. backstopHeld' \in [Backstops -> [Tokens -> Nat]]
      BY <2>1, <2>3
    <2>5. held' \in [Tokens -> Nat] /\ seeded' \in Nat /\ seedsOut' \in [Tokens -> Int]
      BY <2>1, <2>2
    <2> QED  BY <1>5, <2>4, <2>5 DEF recall_seed
  <1>6. ASSUME NEW t \in Tokens, NEW amount \in PayAmounts, NEW r \in Accounts,
               NEW p \in Accounts, submit_payment_request(r, p, t, amount)
        PROVE  TreasuryTypeOK'
    <2> DEFINE q == [requester |-> r, payee |-> p, token |-> t, amount |-> amount,
                     status |-> "Submitted", approver |-> None]
    <2>1. q \in PaymentRequest /\ q # None
      <3>1. q \in PaymentRequest
        BY DEF PaymentRequest, PaymentStatus
      <3> HIDE DEF q
      <3> QED  BY <3>1, AbsentRequest
    <2>2. /\ nextRequestId \in RequestIds /\ nextRequestId' = nextRequestId + 1
          /\ requests' = [requests EXCEPT ![nextRequestId] = q]
          /\ UNCHANGED <<received, tokens, seeding, screening>>
      BY <1>6 DEF submit_payment_request
    <2> HIDE DEF q
    <2>3. requests' \in [RequestIds -> PaymentRequest \cup {None}]
      BY <2>1, <2>2
    <2>4. nextRequestId' \in 0 .. MaxRequests
      BY <2>2, TreasuryConstants DEF RequestIds
    <2>5. \A i \in RequestIds : requests'[i] # None <=> i < nextRequestId'
      BY <2>1, <2>2 DEF RequestIds
    <2> QED  BY <2>2, <2>3, <2>4, <2>5
  <1>7. ASSUME NEW a \in Accounts, NEW s \in {"Allowed", "Blocked", None},
               screen_recipient(a, s)
        PROVE  TreasuryTypeOK'
    BY <1>7 DEF screen_recipient
  <1>8. ASSUME NEW i \in RequestIds, approve_payment_request(i)  PROVE TreasuryTypeOK'
    <2>1. requests[i] # None /\ requests[i] \in PaymentRequest
      BY <1>8 DEF approve_payment_request, InStatus
    <2> DEFINE r == [requests[i] EXCEPT !.status = "Approved", !.approver = Admin]
    <2>2. r \in PaymentRequest /\ requests' = [requests EXCEPT ![i] = r]
      BY <1>8, <2>1 DEF approve_payment_request, PaymentRequest, PaymentStatus
    <2> HIDE DEF r
    <2>3. UNCHANGED nextRequestId
      BY <1>8 DEF approve_payment_request
    <2> QED  BY <1>8, <2>1, <2>2, <2>3, RequestRewritten DEF approve_payment_request
  <1>9. ASSUME NEW i \in RequestIds, reject_payment_request(i)  PROVE TreasuryTypeOK'
    <2>1. requests[i] # None /\ requests[i] \in PaymentRequest
      BY <1>9 DEF reject_payment_request, InStatus
    <2> DEFINE r == [requests[i] EXCEPT !.status = "Rejected"]
    <2>2. r \in PaymentRequest /\ requests' = [requests EXCEPT ![i] = r]
      BY <1>9, <2>1 DEF reject_payment_request, PaymentRequest, PaymentStatus
    <2> HIDE DEF r
    <2>3. UNCHANGED nextRequestId
      BY <1>9 DEF reject_payment_request
    <2> QED  BY <1>9, <2>1, <2>2, <2>3, RequestRewritten DEF reject_payment_request
  <1>10. ASSUME NEW i \in RequestIds, NEW c \in Accounts, cancel_payment_request(c, i)
         PROVE  TreasuryTypeOK'
    <2>1. requests[i] # None /\ requests[i] \in PaymentRequest
      BY <1>10 DEF cancel_payment_request, InStatus
    <2> DEFINE r == [requests[i] EXCEPT !.status = "Cancelled"]
    <2>2. r \in PaymentRequest /\ requests' = [requests EXCEPT ![i] = r]
      BY <1>10, <2>1 DEF cancel_payment_request, PaymentRequest, PaymentStatus
    <2> HIDE DEF r
    <2>3. UNCHANGED nextRequestId
      BY <1>10 DEF cancel_payment_request
    <2> QED  BY <1>10, <2>1, <2>2, <2>3, RequestRewritten DEF cancel_payment_request
  <1>11. ASSUME NEW i \in RequestIds, execute_payment_request(i)  PROVE TreasuryTypeOK'
    <2>1. requests[i] # None /\ requests[i] \in PaymentRequest
      BY <1>11 DEF execute_payment_request, InStatus
    <2> DEFINE r == [requests[i] EXCEPT !.status = "Executed"]
    <2>2. r \in PaymentRequest /\ requests' = [requests EXCEPT ![i] = r]
      BY <1>11, <2>1 DEF execute_payment_request, PaymentRequest, PaymentStatus
    <2> HIDE DEF r
    <2>3. UNCHANGED nextRequestId
      BY <1>11 DEF execute_payment_request
    <2>4. /\ requests[i].token \in Tokens /\ requests[i].amount \in Nat
          /\ held[requests[i].token] - requests[i].amount \in Nat
      <3>1. requests[i].token \in Tokens /\ requests[i].amount \in Nat
        BY <2>1, RequestFields
      <3>2. requests[i].amount <= held[requests[i].token]
        BY <1>11 DEF execute_payment_request
      <3>3. held[requests[i].token] \in Nat
        BY <3>1
      <3> QED  BY <3>1, <3>2, <3>3
    <2> DEFINE t == requests[i].token
               amount == requests[i].amount
    <2>5. /\ held' = [held EXCEPT ![t] = held[t] - amount]
          /\ spent' = [spent EXCEPT ![t] = spent[t] + amount]
          /\ received' = [received EXCEPT ![i] = received[i] + amount]
          /\ UNCHANGED <<backstopHeld, deposited, seedsOut, others, nextRequestId, seeding, screening>>
      BY <1>11 DEF execute_payment_request
    <2>6. t \in Tokens /\ amount \in Nat /\ held[t] - amount \in Nat
      BY <2>4
    <2> HIDE DEF t, amount
    <2>7. /\ held' \in [Tokens -> Nat] /\ spent' \in [Tokens -> Nat]
          /\ received' \in [RequestIds -> Nat]
      <3>1. held' \in [Tokens -> Nat]
        BY <2>5, <2>6
      <3>2. spent[t] + amount \in Nat /\ received[i] + amount \in Nat
        BY <2>6
      <3>3. spent' \in [Tokens -> Nat]
        BY <2>5, <2>6, <3>2
      <3>4. received' \in [RequestIds -> Nat]
        BY <2>5, <3>2
      <3> QED  BY <3>1, <3>3, <3>4
    <2>8. /\ requests' \in [RequestIds -> PaymentRequest \cup {None}]
          /\ nextRequestId' \in 0 .. MaxRequests
          /\ \A j \in RequestIds : requests'[j] # None <=> j < nextRequestId'
      BY <2>1, <2>2, <2>3, RequestRewritten
    <2> QED  BY <2>5, <2>7, <2>8
  <1>12. CASE UNCHANGED treasuryVars
    BY <1>12 DEF treasuryVars
  <1>13. ASSUME NEW b \in Backstops, NEW t \in Tokens, NEW amount \in PayAmounts,
                BackstopMoves(b, t, amount)
         PROVE  TreasuryTypeOK'
    <2>1. amount \in Nat
      BY TreasuryConstants
    <2>2. backstopHeld' \in [Backstops -> [Tokens -> Nat]] /\ others' \in [Tokens -> Int]
      <3>1. CASE /\ backstopHeld' = [backstopHeld EXCEPT ![b][t] = @ + amount]
                 /\ others' = [others EXCEPT ![t] = @ + amount]
        BY <2>1, <3>1
      <3>2. CASE /\ amount <= backstopHeld[b][t]
                 /\ backstopHeld' = [backstopHeld EXCEPT ![b][t] = @ - amount]
                 /\ others' = [others EXCEPT ![t] = @ - amount]
        BY <2>1, <3>2
      <3> QED  BY <1>13, <3>1, <3>2 DEF BackstopMoves
    <2>3. UNCHANGED <<held, deposited, spent, seedsOut, paying, seeding, screening>>
      BY <1>13 DEF BackstopMoves
    <2> QED  BY <2>2, <2>3
  <1> HIDE DEF TreasuryTypeOK, tokens, paying, seeding
  <1> QED  BY <1>1, <1>2, <1>3, <1>4, <1>5, <1>6, <1>7, <1>8, <1>9, <1>10, <1>11, <1>12, <1>13
              DEF TreasuryNext

-----------------------------------------------------------------------------
\* No request was paid in the initial state.
LEMMA PaidInit == TreasuryInit => PaidAsApproved
  BY DEF TreasuryInit, PaidAsApproved

\* The step for one request i that is rewritten to r, all others left alone.
LEMMA PaidRewritten ==
  ASSUME TreasuryTypeOK, PaidAsApproved, NEW i \in RequestIds, requests[i] # None,
         NEW r \in PaymentRequest, requests' = [requests EXCEPT ![i] = r],
         NEW paid \in Nat, received' = [received EXCEPT ![i] = paid],
         paid = IF r.status = "Executed" THEN r.amount ELSE 0,
         r.status \in {"Approved", "Executed"} <=> r.approver # None,
         r.approver # r.requester
  PROVE  PaidAsApproved'
  BY RequestFields DEF TreasuryTypeOK, PaidAsApproved

\* Only execute_payment_request pays, and it pays a request that somebody else
\* approved.
LEMMA PaidStep ==
  TreasuryTypeOK /\ PaidAsApproved /\ [TreasuryNext]_treasuryVars => PaidAsApproved'
  <1> SUFFICES ASSUME TreasuryTypeOK, PaidAsApproved, [TreasuryNext]_treasuryVars
               PROVE  PaidAsApproved'
    OBVIOUS
  <1>1. ASSUME NEW t \in Tokens, NEW amount \in PayAmounts, NEW r \in Accounts,
               NEW p \in Accounts, submit_payment_request(r, p, t, amount)
        PROVE  PaidAsApproved'
    <2> DEFINE q == [requester |-> r, payee |-> p, token |-> t, amount |-> amount,
                     status |-> "Submitted", approver |-> None]
    <2>1. /\ q \in PaymentRequest /\ q.status = "Submitted" /\ q.approver = None
          /\ q.approver # q.requester
      BY DEF PaymentRequest, PaymentStatus
    <2>2. /\ nextRequestId \in RequestIds /\ requests' = [requests EXCEPT ![nextRequestId] = q]
          /\ UNCHANGED received
      BY <1>1 DEF submit_payment_request
    <2> HIDE DEF q
    <2>3. requests[nextRequestId] = None
      BY <2>2 DEF TreasuryTypeOK
    <2> QED  BY <2>1, <2>2, <2>3 DEF PaidAsApproved, TreasuryTypeOK
  <1>2. ASSUME NEW i \in RequestIds, approve_payment_request(i)  PROVE PaidAsApproved'
    <2>1. requests[i] # None /\ requests[i] \in PaymentRequest /\ requests[i].status = "Submitted"
      BY <1>2 DEF approve_payment_request, InStatus, TreasuryTypeOK
    <2> DEFINE r == [requests[i] EXCEPT !.status = "Approved", !.approver = Admin]
    <2>2. /\ r \in PaymentRequest /\ requests' = [requests EXCEPT ![i] = r]
          /\ r.status = "Approved" /\ r.approver = Admin /\ r.requester # Admin
      BY <1>2, <2>1 DEF approve_payment_request, PaymentRequest, PaymentStatus, TreasuryTypeOK
    <2> HIDE DEF r
    <2>3. received' = [received EXCEPT ![i] = 0]
      BY <1>2, <2>1 DEF approve_payment_request, PaidAsApproved, TreasuryTypeOK
    <2> QED  BY <2>1, <2>2, <2>3, PaidRewritten
  <1>3. ASSUME NEW i \in RequestIds, NEW status \in {"Rejected", "Cancelled"},
               InStatus(i, "Submitted"),
               requests' = [requests EXCEPT ![i].status = status], UNCHANGED received
        PROVE  PaidAsApproved'
    <2>1. requests[i] # None /\ requests[i] \in PaymentRequest /\ requests[i].status = "Submitted"
      BY <1>3 DEF InStatus, TreasuryTypeOK
    <2> DEFINE r == [requests[i] EXCEPT !.status = status]
    <2>2. /\ r \in PaymentRequest /\ requests' = [requests EXCEPT ![i] = r]
          /\ r.status = status /\ r.approver = requests[i].approver
          /\ r.requester = requests[i].requester
      BY <1>3, <2>1 DEF PaymentRequest, PaymentStatus, TreasuryTypeOK
    <2> HIDE DEF r
    <2>3. received' = [received EXCEPT ![i] = 0]
      BY <1>3, <2>1 DEF PaidAsApproved, TreasuryTypeOK
    <2>4. requests[i].approver = None /\ requests[i].approver # requests[i].requester
      BY <2>1 DEF PaidAsApproved
    <2> QED  BY <2>1, <2>2, <2>3, <2>4, PaidRewritten
  <1>4. ASSUME NEW i \in RequestIds, reject_payment_request(i)  PROVE PaidAsApproved'
    BY <1>3, <1>4 DEF reject_payment_request
  <1>5. ASSUME NEW i \in RequestIds, NEW c \in Accounts, cancel_payment_request(c, i)
        PROVE  PaidAsApproved'
    BY <1>3, <1>5 DEF cancel_payment_request
  <1>6. ASSUME NEW i \in RequestIds, execute_payment_request(i)  PROVE PaidAsApproved'
    <2>1. requests[i] # None /\ requests[i] \in PaymentRequest /\ requests[i].status = "Approved"
      BY <1>6 DEF execute_payment_request, InStatus, TreasuryTypeOK
    <2> DEFINE r == [requests[i] EXCEPT !.status = "Executed"]
    <2>2. /\ r \in PaymentRequest /\ requests' = [requests EXCEPT ![i] = r]
          /\ r.status = "Executed" /\ r.approver = requests[i].approver
          /\ r.requester = requests[i].requester /\ r.amount = requests[i].amount
      BY <1>6, <2>1 DEF execute_payment_request, PaymentRequest, PaymentStatus, TreasuryTypeOK
    <2> HIDE DEF r
    <2>3. received[i] = 0 /\ requests[i].amount \in Nat
      BY <2>1, RequestFields DEF PaidAsApproved
    <2>4. received' = [received EXCEPT ![i] = requests[i].amount]
      <3>1. received' = [received EXCEPT ![i] = received[i] + requests[i].amount]
        BY <1>6 DEF execute_payment_request
      <3>2. received[i] + requests[i].amount = requests[i].amount
        BY <2>3
      <3> QED  BY <3>1, <3>2
    <2>5. requests[i].approver # None /\ requests[i].approver # requests[i].requester
      BY <2>1 DEF PaidAsApproved
    <2> QED  BY <2>1, <2>2, <2>3, <2>4, <2>5, PaidRewritten
  <1>7. ASSUME UNCHANGED <<requests, received>>  PROVE PaidAsApproved'
    BY <1>7 DEF PaidAsApproved
  <1>8. ASSUME \/ \E b \in Backstops : set_backstop(b)
               \/ \E t \in Tokens, amount \in PayAmounts :
                    \/ Deposit(t, amount)
                    \/ \E to \in Accounts : withdraw(t, amount, to)
                    \/ seed_backstop(t, amount)
                    \/ recall_seed(t, amount)
                    \/ \E b \in Backstops : BackstopMoves(b, t, amount)
               \/ \E a \in Accounts, s \in {"Allowed", "Blocked", None} : screen_recipient(a, s)
               \/ UNCHANGED treasuryVars
        PROVE  UNCHANGED <<requests, received>>
    BY <1>8 DEF set_backstop, Deposit, withdraw, seed_backstop, recall_seed, BackstopMoves,
                screen_recipient, treasuryVars, paying
  <1> QED  BY <1>1, <1>2, <1>4, <1>5, <1>6, <1>7, <1>8 DEF TreasuryNext

-----------------------------------------------------------------------------
SeedBook == [Backstops -> [Tokens -> Nat]]

\* What lies at the backstops of a token is a number.
LEMMA SeedsAreNat ==
  ASSUME NEW g \in SeedBook, NEW t \in Tokens
  PROVE  AtBackstops(g, t) \in Nat
  <1> DEFINE f == [b \in Backstops |-> g[b][t]]
  <1>1. \A b \in Backstops : f[b] \in Nat
    BY DEF SeedBook
  <1> HIDE DEF f
  <1>2. SumOver(f, Backstops) \in Nat
    BY <1>1, SumNat
  <1> QED  BY <1>2 DEF AtBackstops, f

\* A transfer of d of token u to (or, negative, from) backstop c.
LEMMA SeedsMove ==
  ASSUME NEW g \in SeedBook, NEW h \in SeedBook, NEW c \in Backstops, NEW u \in Tokens,
         NEW d \in Int, h[c][u] = g[c][u] + d,
         \A b \in Backstops, t \in Tokens : b # c \/ t # u => h[b][t] = g[b][t]
  PROVE  /\ AtBackstops(h, u) = AtBackstops(g, u) + d
         /\ \A t \in Tokens \ {u} : AtBackstops(h, t) = AtBackstops(g, t)
  <1>1. AtBackstops(h, u) = AtBackstops(g, u) + d
    <2> DEFINE p == [b \in Backstops |-> g[b][u]]
               q == [b \in Backstops |-> h[b][u]]
    <2>1. /\ \A b \in Backstops : p[b] \in Int
          /\ \A b \in Backstops \ {c} : q[b] = p[b]
          /\ q[c] = p[c] + d
          /\ q[c] \in Int /\ p[c] \in Int
      BY DEF SeedBook
    <2> HIDE DEF p, q
    <2>2. SumOver(q, Backstops) = SumOver(p, Backstops) - p[c] + q[c]
      BY <2>1, SumChange
    <2>3. SumOver(p, Backstops) \in Int
      BY <2>1, SumInt
    <2>4. SumOver(q, Backstops) = SumOver(p, Backstops) + d
      BY <2>1, <2>2, <2>3
    <2> QED  BY <2>4 DEF AtBackstops, p, q
  <1>2. ASSUME NEW t \in Tokens \ {u}  PROVE AtBackstops(h, t) = AtBackstops(g, t)
    <2>1. [b \in Backstops |-> h[b][t]] = [b \in Backstops |-> g[b][t]]
      BY DEF SeedBook
    <2> QED  BY <2>1 DEF AtBackstops
  <1> QED  BY <1>1, <1>2

\* Seeding d of token u adds d to what is seeded in all.
LEMMA SeedsAdd ==
  ASSUME NEW g, NEW h, NEW u \in Tokens, NEW d \in Int, \A t \in Tokens : g[t] \in Int,
         h[u] = g[u] + d, \A t \in Tokens \ {u} : h[t] = g[t]
  PROVE  SumOver(h, Tokens) = SumOver(g, Tokens) + d
  <1>1. h[u] \in Int /\ g[u] \in Int
    OBVIOUS
  <1>2. SumOver(h, Tokens) = SumOver(g, Tokens) - g[u] + h[u]
    BY <1>1, SumChange
  <1>3. SumOver(g, Tokens) \in Int
    BY SumInt
  <1> QED  BY <1>1, <1>2, <1>3

\* The sums of CustodyExact: the treasury's tokens, the backstops', and the counter.
HeldExact == \A t \in Tokens : deposited[t] = held[t] + spent[t] + seedsOut[t]
BackstopsHold(where, out, rest) == \A t \in Tokens : AtBackstops(where, t) = out[t] + rest[t]
BackstopsExact == BackstopsHold(backstopHeld, seedsOut, others)
TokensConserved == HeldExact /\ BackstopsExact /\ seeded = SumOver(seedsOut, Tokens)

\* No token was deposited, spent, seeded or brought to a backstop in the initial state.
LEMMA CustodyInit == TreasuryInit => TokensConserved
  <1> SUFFICES ASSUME TreasuryInit  PROVE TokensConserved
    OBVIOUS
  <1>1. ASSUME NEW t \in Tokens  PROVE AtBackstops(backstopHeld, t) = 0
    <2> DEFINE f == [b \in Backstops |-> backstopHeld[b][t]]
    <2>1. \A b \in Backstops : f[b] = 0
      BY DEF TreasuryInit
    <2> HIDE DEF f
    <2>2. SumOver(f, Backstops) = 0
      BY <2>1, SumZero
    <2> QED  BY <2>2 DEF AtBackstops, f
  <1>2. SumOver(seedsOut, Tokens) = 0
    <2>1. \A t \in Tokens : seedsOut[t] = 0
      BY DEF TreasuryInit
    <2> QED  BY <2>1, SumZero
  <1> QED  BY <1>1, <1>2 DEF TreasuryInit, TokensConserved, HeldExact, BackstopsExact, BackstopsHold

\* Every transfer moves the token balance and the counters by the same amount.
LEMMA CustodyStep ==
  ASSUME TreasuryTypeOK, TokensConserved, [TreasuryNext]_treasuryVars
  PROVE  TokensConserved'
  <1> USE DEF tokens, paying, seeding
  <1>0. /\ backstopHeld \in SeedBook /\ backstopHeld' \in SeedBook
        /\ \A t \in Tokens : AtBackstops(backstopHeld, t) \in Nat
    BY TreasuryTypeStep, SeedsAreNat DEF TreasuryTypeOK, SeedBook
  <1>10. /\ deposited \in [Tokens -> Nat] /\ held \in [Tokens -> Nat] /\ spent \in [Tokens -> Nat]
         /\ seedsOut \in [Tokens -> Int] /\ others \in [Tokens -> Int] /\ seeded \in Nat
    BY DEF TreasuryTypeOK
  <1>11. HeldExact /\ BackstopsExact /\ seeded = SumOver(seedsOut, Tokens)
    BY DEF TokensConserved
  <1>1. ASSUME NEW t \in Tokens, NEW amount \in Nat, UNCHANGED <<backstopHeld, seeded, seedsOut, others>>,
               \/ /\ deposited' = [deposited EXCEPT ![t] = @ + amount]
                  /\ held' = [held EXCEPT ![t] = @ + amount] /\ UNCHANGED spent
               \/ /\ held' = [held EXCEPT ![t] = @ - amount]
                  /\ spent' = [spent EXCEPT ![t] = @ + amount] /\ UNCHANGED deposited
        PROVE  TokensConserved'
    <2>1. HeldExact'
      BY <1>1, <1>10, <1>11 DEF HeldExact
    <2>2. BackstopsExact' /\ (seeded = SumOver(seedsOut, Tokens))'
      BY <1>1, <1>11 DEF BackstopsExact, BackstopsHold
    <2> QED  BY <2>1, <2>2 DEF TokensConserved
  <1>2. ASSUME NEW t \in Tokens, NEW amount \in PayAmounts, Deposit(t, amount)
        PROVE  TokensConserved'
    BY <1>1, <1>2 DEF Deposit
  <1>3. ASSUME NEW t \in Tokens, NEW amount \in PayAmounts, NEW to \in Accounts,
               withdraw(t, amount, to)
        PROVE  TokensConserved'
    BY <1>1, <1>3 DEF withdraw
  <1>4. ASSUME NEW i \in RequestIds, execute_payment_request(i)  PROVE TokensConserved'
    <2>1. requests[i].token \in Tokens /\ requests[i].amount \in Nat
      BY <1>4, RequestFields DEF execute_payment_request, InStatus, TreasuryTypeOK
    <2> QED  BY <1>1, <1>4, <2>1 DEF execute_payment_request
  <1>5. ASSUME NEW b \in Backstops, NEW t \in Tokens, NEW d \in Int,
               backstopHeld' = [backstopHeld EXCEPT ![b][t] = @ + d]
        PROVE  /\ AtBackstops(backstopHeld', t) = AtBackstops(backstopHeld, t) + d
               /\ \A u \in Tokens \ {t} :
                    AtBackstops(backstopHeld', u) = AtBackstops(backstopHeld, u)
    <2>1. PICK g, h : g = backstopHeld /\ h = backstopHeld'
      OBVIOUS
    <2>2. /\ g \in SeedBook /\ h \in SeedBook /\ h[b][t] = g[b][t] + d
          /\ \A c \in Backstops, u \in Tokens : c # b \/ u # t => h[c][u] = g[c][u]
      BY <1>0, <1>5, <2>1 DEF SeedBook
    <2>3. /\ AtBackstops(h, t) = AtBackstops(g, t) + d
          /\ \A u \in Tokens \ {t} : AtBackstops(h, u) = AtBackstops(g, u)
      BY <2>2, SeedsMove
    <2> QED  BY <2>1, <2>3
  <1>6. ASSUME NEW t \in Tokens, NEW d \in Int, backstop \in Backstops,
               backstopHeld' = [backstopHeld EXCEPT ![backstop][t] = @ + d],
               seedsOut' = [seedsOut EXCEPT ![t] = @ + d],
               held' = [held EXCEPT ![t] = @ - d], seeded' = seeded + d,
               UNCHANGED <<deposited, spent, others>>
        PROVE  TokensConserved'
    <2>1. HeldExact'
      BY <1>6, <1>10, <1>11 DEF HeldExact
    <2>2. BackstopsExact'
      <3>1. /\ AtBackstops(backstopHeld', t) = AtBackstops(backstopHeld, t) + d
            /\ \A u \in Tokens \ {t} :
                 AtBackstops(backstopHeld', u) = AtBackstops(backstopHeld, u)
        BY <1>5, <1>6
      <3>2. seedsOut'[t] = seedsOut[t] + d /\ \A u \in Tokens \ {t} : seedsOut'[u] = seedsOut[u]
        BY <1>6, <1>10
      <3>3. \A u \in Tokens : AtBackstops(backstopHeld, u) = seedsOut[u] + others[u]
        BY <1>11 DEF BackstopsExact, BackstopsHold
      <3>4. \A u \in Tokens : AtBackstops(backstopHeld', u) = seedsOut'[u] + others'[u]
        <4>1. ASSUME NEW u \in Tokens
              PROVE  AtBackstops(backstopHeld, u) \in Int /\ seedsOut[u] \in Int /\ others[u] \in Int
          BY <1>0, <1>10
        <4>2. AtBackstops(backstopHeld', t) = seedsOut'[t] + others'[t]
          BY <1>6, <3>1, <3>2, <3>3, <4>1
        <4>3. ASSUME NEW u \in Tokens \ {t}
              PROVE  AtBackstops(backstopHeld', u) = seedsOut'[u] + others'[u]
          BY <1>6, <3>1, <3>2, <3>3
        <4> QED  BY <4>2, <4>3
      <3>5. BackstopsHold(backstopHeld', seedsOut', others')
        BY <3>4 DEF BackstopsHold
      <3> QED  BY <3>5 DEF BackstopsExact
    <2>3. (seeded = SumOver(seedsOut, Tokens))'
      <3>1. /\ \A u \in Tokens : seedsOut[u] \in Int
            /\ seedsOut'[t] = seedsOut[t] + d /\ \A u \in Tokens \ {t} : seedsOut'[u] = seedsOut[u]
        <4>1. \A u \in Tokens : seedsOut[u] \in Int
          BY <1>10
        <4>2. seedsOut' = [seedsOut EXCEPT ![t] = seedsOut[t] + d]
          BY <1>6
        <4>3. seedsOut'[t] = seedsOut[t] + d /\ \A u \in Tokens \ {t} : seedsOut'[u] = seedsOut[u]
          BY <1>10, <4>2
        <4> QED  BY <4>1, <4>3
      <3>2. SumOver(seedsOut', Tokens) = SumOver(seedsOut, Tokens) + d
        <4>1. PICK g, h : g = seedsOut /\ h = seedsOut'
          OBVIOUS
        <4>2. /\ \A u \in Tokens : g[u] \in Int
              /\ h[t] = g[t] + d /\ \A u \in Tokens \ {t} : h[u] = g[u]
          BY <3>1, <4>1
        <4>3. SumOver(h, Tokens) = SumOver(g, Tokens) + d
          BY <1>6, <4>2, SeedsAdd
        <4> QED  BY <4>1, <4>3
      <3> QED  BY <1>6, <1>11, <3>2
    <2> QED  BY <2>1, <2>2, <2>3 DEF TokensConserved
  <1>7. ASSUME NEW t \in Tokens, NEW amount \in PayAmounts, seed_backstop(t, amount)
        PROVE  TokensConserved'
    <2>1. backstop \in Backstops /\ amount \in Int
      BY <1>7 DEF seed_backstop, TreasuryTypeOK
    <2> QED  BY <1>6, <1>7, <2>1 DEF seed_backstop
  <1>8. ASSUME NEW t \in Tokens, NEW amount \in PayAmounts, recall_seed(t, amount)
        PROVE  TokensConserved'
    <2>1. backstop \in Backstops /\ amount \in Int /\ -amount \in Int
      BY <1>8 DEF recall_seed, TreasuryTypeOK
    <2>2. /\ backstopHeld[backstop][t] - amount = backstopHeld[backstop][t] + (-amount)
          /\ seedsOut[t] - amount = seedsOut[t] + (-amount)
          /\ held[t] + amount = held[t] - (-amount)
          /\ seeded - amount = seeded + (-amount)
      <3>1. /\ backstopHeld[backstop][t] \in Int /\ seedsOut[t] \in Int /\ held[t] \in Int
            /\ seeded \in Int
        BY <1>0, <1>10, <2>1 DEF SeedBook
      <3> QED  BY <2>1, <3>1
    <2>3. /\ backstopHeld' = [backstopHeld EXCEPT ![backstop][t] = @ + (-amount)]
          /\ seedsOut' = [seedsOut EXCEPT ![t] = @ + (-amount)]
          /\ held' = [held EXCEPT ![t] = @ - (-amount)]
          /\ seeded' = seeded + (-amount)
          /\ UNCHANGED <<deposited, spent, others>>
      BY <1>8, <2>1, <2>2 DEF recall_seed, TreasuryTypeOK
    <2> QED  BY <1>6, <2>1, <2>3
  <1>9. ASSUME NEW b \in Backstops, NEW t \in Tokens, NEW amount \in PayAmounts,
               BackstopMoves(b, t, amount)
        PROVE  TokensConserved'
    <2>1. PICK d \in Int : /\ backstopHeld' = [backstopHeld EXCEPT ![b][t] = @ + d]
                           /\ others' = [others EXCEPT ![t] = @ + d]
      <3>1. amount \in Int /\ -amount \in Int
        BY TreasuryConstants
      <3>2. /\ backstopHeld[b][t] - amount = backstopHeld[b][t] + (-amount)
            /\ others[t] - amount = others[t] + (-amount)
        BY <1>0, <1>10, <3>1 DEF SeedBook
      <3> QED  BY <1>9, <3>1, <3>2 DEF BackstopMoves
    <2>2. UNCHANGED <<held, deposited, spent, seedsOut, seeded>>
      BY <1>9 DEF BackstopMoves
    <2>3. BackstopsExact'
      <3>1. /\ AtBackstops(backstopHeld', t) = AtBackstops(backstopHeld, t) + d
            /\ \A u \in Tokens \ {t} :
                 AtBackstops(backstopHeld', u) = AtBackstops(backstopHeld, u)
        BY <1>5, <2>1
      <3>2. others'[t] = others[t] + d /\ \A u \in Tokens \ {t} : others'[u] = others[u]
        BY <1>10, <2>1
      <3>3. \A u \in Tokens : AtBackstops(backstopHeld, u) = seedsOut[u] + others[u]
        BY <1>11 DEF BackstopsExact, BackstopsHold
      <3>4. \A u \in Tokens : AtBackstops(backstopHeld', u) = seedsOut'[u] + others'[u]
        <4>1. ASSUME NEW u \in Tokens
              PROVE  AtBackstops(backstopHeld, u) \in Int /\ seedsOut[u] \in Int /\ others[u] \in Int
          BY <1>0, <1>10
        <4>2. AtBackstops(backstopHeld', t) = seedsOut'[t] + others'[t]
          BY <2>2, <3>1, <3>2, <3>3, <4>1
        <4>3. ASSUME NEW u \in Tokens \ {t}
              PROVE  AtBackstops(backstopHeld', u) = seedsOut'[u] + others'[u]
          BY <2>2, <3>1, <3>2, <3>3
        <4> QED  BY <4>2, <4>3
      <3>5. BackstopsHold(backstopHeld', seedsOut', others')
        BY <3>4 DEF BackstopsHold
      <3> QED  BY <3>5 DEF BackstopsExact
    <2>4. HeldExact' /\ (seeded = SumOver(seedsOut, Tokens))'
      BY <1>11, <2>2 DEF HeldExact
    <2> QED  BY <2>3, <2>4 DEF TokensConserved
  <1>12. ASSUME UNCHANGED tokens, UNCHANGED seeded  PROVE TokensConserved'
    BY <1>11, <1>12 DEF TokensConserved, HeldExact, BackstopsExact, BackstopsHold
  <1>13. ASSUME \/ \E b \in Backstops : set_backstop(b)
                \/ \E t \in Tokens, amount \in PayAmounts, r, p \in Accounts :
                     submit_payment_request(r, p, t, amount)
                \/ \E a \in Accounts, s \in {"Allowed", "Blocked", None} : screen_recipient(a, s)
                \/ \E i \in RequestIds : \/ approve_payment_request(i)
                                         \/ reject_payment_request(i)
                                         \/ \E c \in Accounts : cancel_payment_request(c, i)
                \/ UNCHANGED treasuryVars
         PROVE  UNCHANGED tokens /\ UNCHANGED seeded
    BY <1>13 DEF set_backstop, submit_payment_request, screen_recipient, approve_payment_request,
                 reject_payment_request, cancel_payment_request, treasuryVars
  <1> HIDE DEF tokens, paying, seeding
  <1> QED  BY <1>2, <1>3, <1>4, <1>7, <1>8, <1>9, <1>12, <1>13 DEF TreasuryNext

(* Custody for every set of tokens, backstops and accounts and every       *)
(* number of requests, whatever happens to the tokens at the backstops:    *)
(* each token that came in is held, spent or seeded and not recalled;      *)
(* SeededCapital is what was seeded less what was recalled and never       *)
(* negative; and each request was paid its amount once at most, after      *)
(* somebody else approved it.                                              *)
THEOREM CustodyHolds == TreasurySpec => []CustodyExact
  <1>1. TreasuryInit => TreasuryTypeOK /\ PaidAsApproved /\ TokensConserved
    BY TreasuryTypeInit, PaidInit, CustodyInit
  <1>2. TreasuryTypeOK /\ PaidAsApproved /\ TokensConserved /\ [TreasuryNext]_treasuryVars
          => TreasuryTypeOK' /\ PaidAsApproved' /\ TokensConserved'
    BY TreasuryTypeStep, PaidStep, CustodyStep
  <1>3. TreasuryTypeOK /\ PaidAsApproved /\ TokensConserved => CustodyExact
    BY DEF CustodyExact, TokensConserved, HeldExact, BackstopsExact, BackstopsHold
  <1> QED  BY <1>1, <1>2, <1>3, PTL DEF TreasurySpec

-----------------------------------------------------------------------------
\* The promise behind a request, and the requests whose promise is settled.
Amount(r) == IF r = None THEN 0 ELSE r.amount
Settled(r) == r # None /\ r.status \in {"Rejected", "Cancelled", "Executed"}

\* A request that is rewritten without touching its amount keeps its promise.
LEMMA PromiseKept ==
  ASSUME TreasuryTypeOK, NEW i \in RequestIds, requests[i] # None,
         NEW r \in PaymentRequest, requests' = [requests EXCEPT ![i] = r],
         r.amount = requests[i].amount
  PROVE  [j \in RequestIds |-> Amount(requests'[j])] = [j \in RequestIds |-> Amount(requests[j])]
  <1>1. \A j \in RequestIds : Amount(requests'[j]) = Amount(requests[j])
    BY RequestFields DEF TreasuryTypeOK, Amount
  <1> QED  BY <1>1

(* The payment workflow implements Promises, for every instance: the       *)
(* amount of a request is fixed when it is submitted and it is paid in     *)
(* full once at most, never after a rejection or a cancellation.           *)
THEOREM OrdersArePromises == TreasurySpec => ImplementsPromises
  <1> DEFINE P == [j \in RequestIds |-> Amount(requests[j])]
             C == {j \in RequestIds : Settled(requests[j])}
             Given(i) == \E amount \in PayAmounts :
                           /\ P[i] = 0 /\ P' = [P EXCEPT ![i] = amount]
                           /\ received' = received /\ C' = C
             Kept(i) == /\ P[i] > 0 /\ i \notin C
                        /\ received' = [received EXCEPT ![i] = P[i]]
                        /\ C' = C \cup {i} /\ P' = P
             BrokenOff(i) == /\ i \notin C /\ C' = C \cup {i}
                             /\ P' = P /\ received' = received
             Stutter == P' = P /\ received' = received /\ C' = C
  <1>1. TreasuryInit => Orders!Init
    BY DEF TreasuryInit, Orders!Init
  <1>2. TreasuryTypeOK /\ PaidAsApproved /\ [TreasuryNext]_treasuryVars
          => [Orders!Next]_(Orders!vars)
    <2> SUFFICES ASSUME TreasuryTypeOK, PaidAsApproved, [TreasuryNext]_treasuryVars
                 PROVE  (\E i \in RequestIds : Given(i) \/ Kept(i) \/ BrokenOff(i)) \/ Stutter
      BY DEF Orders!Next, Orders!Give, Orders!Keep, Orders!BreakOff, Orders!vars, Amount, Settled
    <2>1. ASSUME NEW t \in Tokens, NEW amount \in PayAmounts, NEW r \in Accounts,
                 NEW p \in Accounts, submit_payment_request(r, p, t, amount)
          PROVE  \E i \in RequestIds : Given(i)
      <3> DEFINE q == [requester |-> r, payee |-> p, token |-> t, amount |-> amount,
                       status |-> "Submitted", approver |-> None]
      <3>1. q \in PaymentRequest /\ q.status = "Submitted" /\ q.amount = amount
        BY DEF PaymentRequest, PaymentStatus
      <3>2. /\ nextRequestId \in RequestIds /\ requests' = [requests EXCEPT ![nextRequestId] = q]
            /\ UNCHANGED received
        BY <2>1 DEF submit_payment_request
      <3> HIDE DEF q
      <3>3. requests[nextRequestId] = None /\ q # None
        BY <3>1, <3>2 DEF TreasuryTypeOK
      <3>4. P[nextRequestId] = 0 /\ P' = [P EXCEPT ![nextRequestId] = amount]
        BY <3>1, <3>2, <3>3 DEF TreasuryTypeOK, Amount
      <3>5. \A j \in RequestIds : Settled(requests'[j]) <=> Settled(requests[j])
        BY <3>1, <3>2, <3>3 DEF TreasuryTypeOK, Settled
      <3>6. C' = C
        BY <3>5
      <3> QED  BY <3>2, <3>4, <3>6
    <2>2. ASSUME NEW i \in RequestIds, requests[i] # None,
                 NEW r \in PaymentRequest, requests' = [requests EXCEPT ![i] = r],
                 r.amount = requests[i].amount, ~Settled(requests[i])
          PROVE  /\ P' = P /\ i \notin C
                 /\ IF Settled(r) THEN C' = C \cup {i} ELSE C' = C
      <3>1. P' = P
        BY <2>2, PromiseKept
      <3>2. /\ Settled(requests'[i]) <=> Settled(r)
            /\ \A j \in RequestIds \ {i} : Settled(requests'[j]) <=> Settled(requests[j])
        BY <2>2 DEF TreasuryTypeOK
      <3> QED  BY <2>2, <3>1, <3>2
    <2>3. ASSUME NEW i \in RequestIds, approve_payment_request(i)  PROVE Stutter
      <3> DEFINE r == [requests[i] EXCEPT !.status = "Approved", !.approver = Admin]
      <3>1. /\ requests[i] # None /\ requests[i] \in PaymentRequest
            /\ requests[i].status = "Submitted" /\ UNCHANGED received
        BY <2>3 DEF approve_payment_request, InStatus, TreasuryTypeOK
      <3>2. /\ r \in PaymentRequest /\ requests' = [requests EXCEPT ![i] = r]
            /\ r.status = "Approved" /\ r.amount = requests[i].amount
        BY <2>3, <3>1 DEF approve_payment_request, PaymentRequest, PaymentStatus, TreasuryTypeOK
      <3> HIDE DEF r
      <3>3. ~Settled(requests[i]) /\ ~Settled(r)
        BY <3>1, <3>2 DEF Settled
      <3> QED  BY <2>2, <3>1, <3>2, <3>3
    <2>4. ASSUME NEW i \in RequestIds, NEW status \in {"Rejected", "Cancelled"},
                 InStatus(i, "Submitted"),
                 requests' = [requests EXCEPT ![i].status = status], UNCHANGED received
          PROVE  BrokenOff(i)
      <3> DEFINE r == [requests[i] EXCEPT !.status = status]
      <3>1. /\ requests[i] # None /\ requests[i] \in PaymentRequest
            /\ requests[i].status = "Submitted"
        BY <2>4 DEF InStatus, TreasuryTypeOK
      <3>2. /\ r \in PaymentRequest /\ requests' = [requests EXCEPT ![i] = r]
            /\ r.status = status /\ r.amount = requests[i].amount
        BY <2>4, <3>1 DEF PaymentRequest, PaymentStatus, TreasuryTypeOK
      <3> HIDE DEF r
      <3>3. ~Settled(requests[i]) /\ Settled(r)
        BY <3>1, <3>2 DEF Settled
      <3> QED  BY <2>2, <2>4, <3>1, <3>2, <3>3
    <2>5. ASSUME NEW i \in RequestIds, execute_payment_request(i)  PROVE Kept(i)
      <3> DEFINE r == [requests[i] EXCEPT !.status = "Executed"]
      <3>1. /\ requests[i] # None /\ requests[i] \in PaymentRequest
            /\ requests[i].status = "Approved"
        BY <2>5 DEF execute_payment_request, InStatus, TreasuryTypeOK
      <3>2. /\ r \in PaymentRequest /\ requests' = [requests EXCEPT ![i] = r]
            /\ r.status = "Executed" /\ r.amount = requests[i].amount
        BY <2>5, <3>1 DEF execute_payment_request, PaymentRequest, PaymentStatus, TreasuryTypeOK
      <3> HIDE DEF r
      <3>3. ~Settled(requests[i]) /\ Settled(r)
        BY <3>1, <3>2 DEF Settled
      <3>4. P[i] = requests[i].amount /\ P[i] \in Nat /\ P[i] > 0
        BY <3>1, RequestFields DEF Amount
      <3>5. received' = [received EXCEPT ![i] = received[i] + requests[i].amount]
        BY <2>5 DEF execute_payment_request
      <3>6. received[i] = 0
        BY <3>1 DEF PaidAsApproved
      <3>7. received[i] + requests[i].amount = P[i]
        BY <3>4, <3>6
      <3>8. received' = [received EXCEPT ![i] = P[i]]
        BY <3>5, <3>7
      <3> QED  BY <2>2, <3>1, <3>2, <3>3, <3>4, <3>8
    <2>6. ASSUME UNCHANGED <<requests, received>>  PROVE Stutter
      BY <2>6
    <2>7. ASSUME NEW i \in RequestIds,
                 reject_payment_request(i) \/ \E c \in Accounts : cancel_payment_request(c, i)
          PROVE  BrokenOff(i)
      BY <2>4, <2>7 DEF reject_payment_request, cancel_payment_request
    <2>8. ASSUME \/ \E b \in Backstops : set_backstop(b)
                 \/ \E t \in Tokens, amount \in PayAmounts :
                      \/ Deposit(t, amount)
                      \/ \E to \in Accounts : withdraw(t, amount, to)
                      \/ seed_backstop(t, amount)
                      \/ recall_seed(t, amount)
                      \/ \E b \in Backstops : BackstopMoves(b, t, amount)
                 \/ \E a \in Accounts, s \in {"Allowed", "Blocked", None} : screen_recipient(a, s)
                 \/ UNCHANGED treasuryVars
          PROVE  UNCHANGED <<requests, received>>
      BY <2>8 DEF set_backstop, Deposit, withdraw, seed_backstop, recall_seed, BackstopMoves,
                  screen_recipient, treasuryVars, paying
    <2> HIDE DEF Given, Kept, BrokenOff, Stutter
    <2> QED  BY <2>1, <2>3, <2>5, <2>6, <2>7, <2>8 DEF TreasuryNext
  <1>3. CustodyExact => TreasuryTypeOK /\ PaidAsApproved
    BY DEF CustodyExact
  <1> QED  BY <1>1, <1>2, <1>3, CustodyHolds, PTL DEF TreasurySpec, ImplementsPromises, Orders!Spec

-----------------------------------------------------------------------------
(* The failed payouts of refract-common. *)
USE FailedPayoutsConstants, AbsentRecord DEF RecordIds
HIDE DEF RequestIds

RecordBook == [RecordIds -> FailedRecord \cup {None}]

\* What is owed on a record, and over a book of records.
Owing(r) == IF r # None /\ r.status = "Failed" THEN r.amount ELSE 0
OwedOver(book) == SumOver([i \in RecordIds |-> Owing(book[i])], RecordIds)

\* The tokens held are what is available and what is owed, and a record was
\* delivered its amount if it is paid and nothing otherwise.
PayoutsCovered ==
  /\ FailedPayoutsTypeOK
  /\ coffer = available + liability
  /\ liability = OwedOver(payoutRecords)
  /\ \A i \in RecordIds : payoutRecords[i] = None => delivered[i] = 0
  /\ \A i \in RecordIds : payoutRecords[i] # None =>
       delivered[i] = IF payoutRecords[i].status = "Paid" THEN payoutRecords[i].amount ELSE 0

\* A failed payout that is recorded has its fields.
LEMMA RecordFields ==
  ASSUME NEW r \in FailedRecord
  PROVE  /\ r.amount \in PaymentAmounts /\ r.amount \in Nat /\ r.amount > 0
         /\ r.status \in {"Failed", "Paid", "Reclaimed"} /\ r.recipient \in Recipients
         /\ r.first_failed_at \in Nat /\ r # None
  <1>1. r # None
    OBVIOUS
  <1>2. /\ r.amount \in PaymentAmounts /\ r.status \in {"Failed", "Paid", "Reclaimed"}
        /\ r.recipient \in Recipients /\ r.first_failed_at \in Nat
    BY DEF FailedRecord
  <1>3. r.amount \in Nat /\ r.amount > 0
    <2>1. r.amount \in Nat \ {0}
      BY <1>2
    <2> QED  BY <2>1
  <1> QED  BY <1>1, <1>2, <1>3

\* What is owed on a record is a number.
LEMMA OwingNat ==
  ASSUME NEW r \in FailedRecord \cup {None}
  PROVE  Owing(r) \in Nat /\ Owing(r) \in Int
  BY RecordFields DEF Owing

\* There are finitely many record ids.
LEMMA RecordIdsFinite == IsFiniteSet(RecordIds)
  <1>1. MaxPayoutRecords - 1 \in Int /\ 0 \in Int
    OBVIOUS
  <1> QED  BY <1>1, FS_Interval

\* Rewriting one record changes what is owed by that record's difference, and
\* no more is owed on a record than over all.
LEMMA OwedMoves ==
  ASSUME NEW g \in RecordBook, NEW h \in RecordBook, NEW i \in RecordIds,
         \A j \in RecordIds \ {i} : h[j] = g[j]
  PROVE  /\ OwedOver(g) \in Nat
         /\ Owing(g[i]) <= OwedOver(g)
         /\ OwedOver(h) = OwedOver(g) - Owing(g[i]) + Owing(h[i])
  <1> DEFINE p == [j \in RecordIds |-> Owing(g[j])]
             q == [j \in RecordIds |-> Owing(h[j])]
  <1>1. /\ \A j \in RecordIds : p[j] \in Nat /\ p[j] \in Int
        /\ q[i] \in Int
        /\ \A j \in RecordIds \ {i} : q[j] = p[j]
    BY OwingNat DEF RecordBook
  <1>2. p[i] = Owing(g[i]) /\ q[i] = Owing(h[i])
    OBVIOUS
  <1>3. OwedOver(g) = SumOver(p, RecordIds) /\ OwedOver(h) = SumOver(q, RecordIds)
    BY DEF OwedOver
  <1> HIDE DEF p, q
  <1>4. SumOver(p, RecordIds) \in Nat
    BY <1>1, RecordIdsFinite, SumNat
  <1>5. p[i] <= SumOver(p, RecordIds)
    BY <1>1, RecordIdsFinite, SumAtLeast
  <1>6. SumOver(q, RecordIds) = SumOver(p, RecordIds) - p[i] + q[i]
    BY <1>1, RecordIdsFinite, SumChange
  <1> QED  BY <1>2, <1>3, <1>4, <1>5, <1>6

\* Nothing is owed in the initial state.
LEMMA PayoutsInit == FailedPayoutsInit /\ LedgerInit => PayoutsCovered
  <1> SUFFICES ASSUME FailedPayoutsInit, LedgerInit  PROVE PayoutsCovered
    OBVIOUS
  <1>1. FailedPayoutsTypeOK
    BY DEF FailedPayoutsInit, LedgerInit, FailedPayoutsTypeOK
  <1>2. OwedOver(payoutRecords) = 0
    <2> DEFINE p == [i \in RecordIds |-> Owing(payoutRecords[i])]
    <2>1. \A i \in RecordIds : p[i] = 0
      BY DEF FailedPayoutsInit, Owing
    <2> HIDE DEF p
    <2>2. SumOver(p, RecordIds) = 0
      BY <2>1, RecordIdsFinite, SumZero
    <2> QED  BY <2>2 DEF OwedOver, p
  <1> QED  BY <1>1, <1>2 DEF PayoutsCovered, FailedPayoutsInit

\* Record i becomes r, all else in the book is left alone.
LEMMA RecordRewritten ==
  ASSUME PayoutsCovered, NEW i \in RecordIds, NEW r \in FailedRecord,
         payoutRecords' = [payoutRecords EXCEPT ![i] = r],
         \/ payoutRecords[i] # None /\ UNCHANGED payoutCount
         \/ i = payoutCount /\ payoutCount' = payoutCount + 1,
         now' \in Nat, coffer' \in Nat, available' \in Nat,
         liability' = liability - Owing(payoutRecords[i]) + Owing(r),
         coffer' = available' + liability',
         delivered' = [delivered EXCEPT ![i] = IF r.status = "Paid" THEN r.amount ELSE 0]
  PROVE  PayoutsCovered'
  <1>1. /\ payoutRecords \in RecordBook /\ payoutRecords' \in RecordBook
        /\ \A j \in RecordIds \ {i} : payoutRecords'[j] = payoutRecords[j]
        /\ payoutRecords'[i] = r
    BY DEF PayoutsCovered, FailedPayoutsTypeOK, RecordBook
  <1>2. /\ OwedOver(payoutRecords') = OwedOver(payoutRecords) - Owing(payoutRecords[i]) + Owing(r)
        /\ Owing(payoutRecords[i]) <= OwedOver(payoutRecords) /\ OwedOver(payoutRecords) \in Nat
        /\ Owing(payoutRecords[i]) \in Nat /\ Owing(r) \in Nat
    BY <1>1, OwedMoves, OwingNat DEF RecordBook
  <1>3. liability' = OwedOver(payoutRecords') /\ liability' \in Nat
    BY <1>2 DEF PayoutsCovered
  <1>4. /\ payoutCount' \in 0 .. MaxPayoutRecords
        /\ \A j \in RecordIds : payoutRecords'[j] # None <=> j < payoutCount'
    <2>1. r # None
      BY RecordFields
    <2>2. /\ payoutCount \in 0 .. MaxPayoutRecords /\ MaxPayoutRecords \in Nat
          /\ \A j \in RecordIds : payoutRecords[j] # None <=> j < payoutCount
      BY FailedPayoutsConstants DEF PayoutsCovered, FailedPayoutsTypeOK
    <2>3. CASE payoutRecords[i] # None /\ UNCHANGED payoutCount
      <3>1. \A j \in RecordIds : payoutRecords'[j] # None <=> payoutRecords[j] # None
        BY <1>1, <2>1, <2>3
      <3> QED  BY <2>2, <2>3, <3>1
    <2>4. CASE i = payoutCount /\ payoutCount' = payoutCount + 1
      <3>1. \A j \in RecordIds : payoutRecords'[j] # None <=> payoutRecords[j] # None \/ j = i
        BY <1>1, <2>1
      <3>2. \A j \in RecordIds : j \in Int /\ j <= MaxPayoutRecords - 1
        BY <2>2 DEF RecordIds
      <3> QED  BY <2>2, <2>4, <3>1, <3>2
    <2> QED  BY <2>3, <2>4
  <1>5. r.amount \in Nat /\ r # None
    BY RecordFields
  <1>6. delivered' \in [RecordIds -> Nat]
    BY <1>5 DEF PayoutsCovered, FailedPayoutsTypeOK
  <1>7. FailedPayoutsTypeOK'
    BY <1>1, <1>3, <1>4, <1>6 DEF FailedPayoutsTypeOK, RecordBook
  <1>8. /\ delivered'[i] = IF r.status = "Paid" THEN r.amount ELSE 0
        /\ \A j \in RecordIds \ {i} : delivered'[j] = delivered[j]
    BY DEF PayoutsCovered, FailedPayoutsTypeOK
  <1>9. (liability = OwedOver(payoutRecords))'
    BY <1>3 DEF OwedOver
  <1>10. ASSUME NEW j \in RecordIds
         PROVE  /\ payoutRecords'[j] = None => delivered'[j] = 0
                /\ payoutRecords'[j] # None => delivered'[j] =
                     IF payoutRecords'[j].status = "Paid" THEN payoutRecords'[j].amount ELSE 0
    <2>1. CASE j = i
      BY <1>1, <1>5, <1>8, <2>1
    <2>2. CASE j # i
      <3>1. payoutRecords'[j] = payoutRecords[j] /\ delivered'[j] = delivered[j]
        BY <1>1, <1>8, <2>2
      <3>2. /\ payoutRecords[j] = None => delivered[j] = 0
            /\ payoutRecords[j] # None => delivered[j] =
                 IF payoutRecords[j].status = "Paid" THEN payoutRecords[j].amount ELSE 0
        BY DEF PayoutsCovered
      <3> QED  BY <3>1, <3>2
    <2> QED  BY <2>1, <2>2
  <1> QED  BY <1>7, <1>9, <1>10 DEF PayoutsCovered

\* Every step of the failed-payout ledger changes the earmark by what it
\* changes of the sum owed.
LEMMA PayoutsStep ==
  ASSUME PayoutsCovered, [FailedPayoutsNext]_failedPayoutVars
  PROVE  PayoutsCovered'
  <1>0. /\ now \in Nat /\ coffer \in Nat /\ available \in Nat /\ liability \in Nat
        /\ coffer = available + liability
        /\ payoutRecords \in [RecordIds -> FailedRecord \cup {None}]
        /\ delivered \in [RecordIds -> Nat]
        /\ liability = OwedOver(payoutRecords)
    BY DEF PayoutsCovered, FailedPayoutsTypeOK
  <1>1. ASSUME now' \in Nat, coffer' \in Nat, available' \in Nat,
               coffer' = available' + liability,
               UNCHANGED <<liability, payoutRecords, payoutCount, delivered>>
        PROVE  PayoutsCovered'
    BY <1>1 DEF PayoutsCovered, FailedPayoutsTypeOK, OwedOver
  <1>2. ASSUME NEW r \in Recipients, NEW amount \in PaymentAmounts, NEW ok \in BOOLEAN,
               pay(r, amount, ok)
        PROVE  PayoutsCovered'
    <2>1. amount \in Nat /\ amount <= available /\ available' = available - amount
      BY <1>2 DEF pay
    <2>2. CASE ok
      <3>1. /\ coffer' = coffer - amount /\ amount <= coffer
            /\ UNCHANGED <<liability, payoutRecords, payoutCount, delivered, now>>
        BY <1>2, <2>2 DEF pay, try_transfer
      <3> QED  BY <1>0, <1>1, <2>1, <3>1
    <2>3. CASE ~ok
      <3> DEFINE q == [recipient |-> r, amount |-> amount, status |-> "Failed",
                       first_failed_at |-> now]
      <3>1. q \in FailedRecord /\ Owing(q) = amount /\ q.status = "Failed"
        BY <1>0 DEF FailedRecord, Owing
      <3>2. /\ payoutCount \in RecordIds /\ coffer' = coffer
            /\ payoutRecords' = [payoutRecords EXCEPT ![payoutCount] = q]
            /\ payoutCount' = payoutCount + 1 /\ liability' = liability + amount
            /\ UNCHANGED <<delivered, now>>
        BY <1>2, <2>3 DEF pay, try_transfer
      <3> HIDE DEF q
      <3>3. payoutRecords[payoutCount] = None
        BY <3>2 DEF PayoutsCovered, FailedPayoutsTypeOK
      <3>4. Owing(payoutRecords[payoutCount]) = 0
        BY <3>3 DEF Owing
      <3>5. delivered' = [delivered EXCEPT ![payoutCount] =
                            IF q.status = "Paid" THEN q.amount ELSE 0]
        BY <1>0, <3>1, <3>2, <3>3 DEF PayoutsCovered
      <3>6. /\ liability' = liability - Owing(payoutRecords[payoutCount]) + Owing(q)
            /\ coffer' = available' + liability' /\ available' \in Nat
        BY <1>0, <2>1, <3>1, <3>2, <3>4
      <3> QED  BY <1>0, <3>1, <3>2, <3>5, <3>6, RecordRewritten
    <2> QED  BY <2>2, <2>3
  <1>3. ASSUME NEW i \in RecordIds, Open(i)
        PROVE  /\ payoutRecords[i] # None /\ payoutRecords[i] \in FailedRecord
               /\ payoutRecords[i].status = "Failed" /\ delivered[i] = 0
               /\ Owing(payoutRecords[i]) = payoutRecords[i].amount
               /\ payoutRecords[i].amount \in Nat /\ payoutRecords[i].amount <= liability
               /\ sub_liability(payoutRecords[i].amount) = liability - payoutRecords[i].amount
    <2>1. /\ payoutRecords[i] # None /\ payoutRecords[i] \in FailedRecord
          /\ payoutRecords[i].status = "Failed"
          /\ Owing(payoutRecords[i]) = payoutRecords[i].amount
      BY <1>0, <1>3 DEF Open, Owing
    <2>2. delivered[i] = 0 /\ payoutRecords[i].amount \in Nat
      BY <2>1, RecordFields DEF PayoutsCovered
    <2>3. Owing(payoutRecords[i]) <= OwedOver(payoutRecords)
      BY <1>0, OwedMoves DEF RecordBook
    <2> QED  BY <1>0, <2>1, <2>2, <2>3 DEF sub_liability
  <1>4. ASSUME NEW i \in RecordIds, NEW ok \in BOOLEAN, retry(i, ok)  PROVE PayoutsCovered'
    <2> DEFINE amount == payoutRecords[i].amount
    <2>1. Open(i)
      BY <1>4 DEF retry
    <2>2. CASE ok
      <3> DEFINE q == [payoutRecords[i] EXCEPT !.status = "Paid"]
      <3>1. /\ q \in FailedRecord /\ q.status = "Paid" /\ q.amount = amount
            /\ payoutRecords' = [payoutRecords EXCEPT ![i] = q]
        BY <1>0, <1>3, <1>4, <2>1, <2>2 DEF retry, FailedRecord
      <3>2. /\ amount <= coffer /\ coffer' = coffer - amount
            /\ liability' = sub_liability(amount)
            /\ delivered' = [delivered EXCEPT ![i] = delivered[i] + amount]
            /\ UNCHANGED <<available, payoutCount, now>>
        BY <1>4, <2>2 DEF retry, try_transfer
      <3> HIDE DEF q
      <3>3. Owing(q) = 0
        BY <3>1 DEF Owing
      <3>4. /\ liability' = liability - Owing(payoutRecords[i]) + Owing(q)
            /\ coffer' = available' + liability' /\ coffer' \in Nat
        <4>1. /\ amount \in Nat /\ Owing(payoutRecords[i]) = amount
              /\ liability' = liability - amount
          BY <1>3, <2>1, <3>2
        <4>2. coffer \in Nat /\ available \in Nat /\ liability \in Nat /\ coffer = available + liability
          BY <1>0
        <4> HIDE DEF amount
        <4>3. liability' = liability - Owing(payoutRecords[i]) + Owing(q)
          BY <3>3, <4>1, <4>2
        <4>4. coffer' = available' + liability' /\ coffer' \in Nat
          BY <3>2, <4>1, <4>2
        <4> QED  BY <4>3, <4>4
      <3>5. delivered[i] + amount = amount
        BY <1>3, <2>1
      <3>6. delivered' = [delivered EXCEPT ![i] = IF q.status = "Paid" THEN q.amount ELSE 0]
        BY <3>1, <3>2, <3>5
      <3>7. payoutRecords[i] # None /\ UNCHANGED payoutCount
        BY <1>3, <2>1, <3>2
      <3>8. now' \in Nat /\ available' \in Nat
        BY <1>0, <3>2
      <3> QED  BY <3>1, <3>4, <3>6, <3>7, <3>8, RecordRewritten
    <2>3. CASE ~ok
      BY <1>0, <1>1, <1>4, <2>3 DEF retry, try_transfer
    <2> QED  BY <2>2, <2>3
  <1>5. ASSUME NEW i \in RecordIds, NEW r \in Recipients, update_recipient(i, r)
        PROVE  PayoutsCovered'
    <2> DEFINE q == [payoutRecords[i] EXCEPT !.recipient = r]
    <2>1. Open(i)
      BY <1>5 DEF update_recipient
    <2>2. /\ q \in FailedRecord /\ q.status = "Failed" /\ q.amount = payoutRecords[i].amount
          /\ payoutRecords' = [payoutRecords EXCEPT ![i] = q]
      BY <1>0, <1>3, <1>5, <2>1 DEF update_recipient, FailedRecord
    <2>3. UNCHANGED <<coffer, available, liability, payoutCount, delivered, now>>
      BY <1>5 DEF update_recipient
    <2> HIDE DEF q
    <2>4. Owing(q) = payoutRecords[i].amount
      BY <2>2, RecordFields DEF Owing
    <2>5. liability' = liability - Owing(payoutRecords[i]) + Owing(q)
      BY <1>0, <1>3, <2>1, <2>3, <2>4
    <2>6. delivered' = [delivered EXCEPT ![i] = IF q.status = "Paid" THEN q.amount ELSE 0]
      BY <1>0, <1>3, <2>1, <2>2, <2>3
    <2>7. payoutRecords[i] # None /\ UNCHANGED payoutCount
      BY <1>3, <2>1, <2>3
    <2>8. /\ now' \in Nat /\ available' \in Nat /\ coffer' \in Nat
          /\ coffer' = available' + liability'
      BY <1>0, <1>3, <2>1, <2>3, <2>5
    <2> QED  BY <2>2, <2>5, <2>6, <2>7, <2>8, RecordRewritten
  <1>6. ASSUME NEW i \in RecordIds, reclaim(i)  PROVE PayoutsCovered'
    <2> DEFINE q == [payoutRecords[i] EXCEPT !.status = "Reclaimed"]
               amount == payoutRecords[i].amount
    <2>1. Open(i)
      BY <1>6 DEF reclaim
    <2>2. /\ q \in FailedRecord /\ q.status = "Reclaimed"
          /\ payoutRecords' = [payoutRecords EXCEPT ![i] = q]
      BY <1>0, <1>3, <1>6, <2>1 DEF reclaim, FailedRecord
    <2>3. /\ liability' = sub_liability(amount) /\ available' = available + amount
          /\ UNCHANGED <<coffer, payoutCount, delivered, now>>
      BY <1>6 DEF reclaim
    <2> HIDE DEF q
    <2>4. Owing(q) = 0
      BY <2>2 DEF Owing
    <2>5. /\ liability' = liability - Owing(payoutRecords[i]) + Owing(q)
          /\ coffer' = available' + liability' /\ available' \in Nat
      <3>1. /\ amount \in Nat /\ Owing(payoutRecords[i]) = amount
            /\ liability' = liability - amount
        BY <1>3, <2>1, <2>3
      <3>2. coffer \in Nat /\ available \in Nat /\ liability \in Nat /\ coffer = available + liability
        BY <1>0
      <3> HIDE DEF amount
      <3> QED  BY <2>3, <2>4, <3>1, <3>2
    <2>6. delivered' = [delivered EXCEPT ![i] = IF q.status = "Paid" THEN q.amount ELSE 0]
      BY <1>0, <1>3, <2>1, <2>2, <2>3
    <2>7. payoutRecords[i] # None /\ UNCHANGED payoutCount
      BY <1>3, <2>1, <2>3
    <2>8. /\ now' \in Nat /\ available' \in Nat /\ coffer' \in Nat
          /\ coffer' = available' + liability'
      BY <1>0, <1>3, <2>1, <2>3, <2>5
    <2> QED  BY <2>2, <2>5, <2>6, <2>7, <2>8, RecordRewritten
  <1>7. ASSUME FailedPayoutsTick  PROVE PayoutsCovered'
    BY <1>0, <1>1, <1>7 DEF FailedPayoutsTick, LedgerTick
  <1>8. ASSUME UNCHANGED failedPayoutVars  PROVE PayoutsCovered'
    BY <1>0, <1>1, <1>8 DEF failedPayoutVars
  <1> QED  BY <1>2, <1>4, <1>5, <1>6, <1>7, <1>8 DEF FailedPayoutsNext

\* The inductive invariant of the failed payouts.
LEMMA PayoutsCoveredHolds == FailedPayoutsSpec => []PayoutsCovered
  <1>1. PayoutsCovered /\ [FailedPayoutsNext]_failedPayoutVars => PayoutsCovered'
    BY PayoutsStep
  <1> QED  BY <1>1, PayoutsInit, PTL DEF FailedPayoutsSpec

(* Failed payouts stay covered for every number of records and every       *)
(* endowment: the tokens held are what is available plus the earmark, and  *)
(* the earmark is the sum of the payouts still owed.                       *)
THEOREM EarmarkHolds == FailedPayoutsSpec => []EarmarkExact
  <1>1. PayoutsCovered => EarmarkExact
    BY DEF PayoutsCovered, EarmarkExact, OwedOver, Owing, StillOwed, Open
  <1> QED  BY <1>1, PayoutsCoveredHolds, PTL

\* A record is closed once it is paid or reclaimed.
Closed(r) == r # None /\ r.status # "Failed"

(* The failed-payout ledger implements Promises, for every instance: what  *)
(* failed is delivered in full once at most, and never after a reclaim,    *)
(* however often transfers fail and recipients are redirected in between.  *)
THEOREM OwedArePromises == FailedPayoutsSpec => OwedImplementsPromises
  <1> DEFINE P == [j \in RecordIds |-> IF payoutRecords[j] = None THEN 0 ELSE payoutRecords[j].amount]
             C == {j \in RecordIds : Closed(payoutRecords[j])}
             Given(i) == \E amount \in PaymentAmounts :
                           /\ P[i] = 0 /\ P' = [P EXCEPT ![i] = amount]
                           /\ delivered' = delivered /\ C' = C
             Kept(i) == /\ P[i] > 0 /\ i \notin C
                        /\ delivered' = [delivered EXCEPT ![i] = P[i]]
                        /\ C' = C \cup {i} /\ P' = P
             BrokenOff(i) == /\ i \notin C /\ C' = C \cup {i}
                             /\ P' = P /\ delivered' = delivered
             Stutter == P' = P /\ delivered' = delivered /\ C' = C
  <1>1. FailedPayoutsInit => Owed!Init
    BY DEF FailedPayoutsInit, Owed!Init
  <1>2. PayoutsCovered /\ [FailedPayoutsNext]_failedPayoutVars => [Owed!Next]_(Owed!vars)
    <2> SUFFICES ASSUME PayoutsCovered, [FailedPayoutsNext]_failedPayoutVars
                 PROVE  (\E i \in RecordIds : Given(i) \/ Kept(i) \/ BrokenOff(i)) \/ Stutter
      BY DEF Owed!Next, Owed!Give, Owed!Keep, Owed!BreakOff, Owed!vars, Closed
    <2>0. /\ now \in Nat /\ payoutRecords \in [RecordIds -> FailedRecord \cup {None}]
          /\ delivered \in [RecordIds -> Nat]
      BY DEF PayoutsCovered, FailedPayoutsTypeOK
    <2>1. ASSUME UNCHANGED <<payoutRecords, delivered>>  PROVE Stutter
      BY <2>1
    <2>2. ASSUME NEW r \in Recipients, NEW amount \in PaymentAmounts, NEW ok \in BOOLEAN,
                 pay(r, amount, ok)
          PROVE  Stutter \/ \E i \in RecordIds : Given(i)
      <3>1. CASE ok
        BY <2>1, <2>2, <3>1 DEF pay
      <3>2. CASE ~ok
        <4> DEFINE q == [recipient |-> r, amount |-> amount, status |-> "Failed",
                         first_failed_at |-> now]
        <4>1. q \in FailedRecord /\ q.status = "Failed" /\ q.amount = amount
          BY <2>0 DEF FailedRecord
        <4>2. /\ payoutCount \in RecordIds /\ UNCHANGED delivered
              /\ payoutRecords' = [payoutRecords EXCEPT ![payoutCount] = q]
          BY <2>2, <3>2 DEF pay
        <4> HIDE DEF q
        <4>3. payoutRecords[payoutCount] = None /\ q # None
          BY <4>1, <4>2 DEF PayoutsCovered, FailedPayoutsTypeOK
        <4>4. P[payoutCount] = 0 /\ P' = [P EXCEPT ![payoutCount] = amount]
          BY <2>0, <4>1, <4>2, <4>3
        <4>5. \A j \in RecordIds : Closed(payoutRecords'[j]) <=> Closed(payoutRecords[j])
          BY <2>0, <4>1, <4>2, <4>3 DEF Closed
        <4>6. C' = C
          BY <4>5
        <4> QED  BY <4>2, <4>4, <4>6
      <3> QED  BY <3>1, <3>2
    <2>3. ASSUME NEW i \in RecordIds, Open(i), NEW q \in FailedRecord,
                 payoutRecords' = [payoutRecords EXCEPT ![i] = q],
                 q.amount = payoutRecords[i].amount
          PROVE  /\ P' = P /\ i \notin C
                 /\ IF q.status = "Failed" THEN C' = C ELSE C' = C \cup {i}
      <3>1. payoutRecords[i] # None /\ payoutRecords[i].status = "Failed" /\ q # None
        BY <2>3 DEF Open
      <3>2. \A j \in RecordIds \ {i} : payoutRecords'[j] = payoutRecords[j]
        BY <2>0, <2>3
      <3>3. payoutRecords'[i] = q
        BY <2>0, <2>3
      <3>4. \A j \in RecordIds : P'[j] = P[j]
        BY <2>3, <3>1, <3>2, <3>3
      <3>5. P' = P
        BY <3>4
      <3>6. /\ Closed(payoutRecords'[i]) <=> q.status # "Failed"
            /\ ~Closed(payoutRecords[i])
        BY <3>1, <3>3 DEF Closed
      <3> QED  BY <3>2, <3>5, <3>6
    <2>4. ASSUME NEW i \in RecordIds, NEW ok \in BOOLEAN, retry(i, ok)
          PROVE  Stutter \/ Kept(i)
      <3>1. CASE ~ok
        BY <2>1, <2>4, <3>1 DEF retry
      <3>2. CASE ok
        <4> DEFINE q == [payoutRecords[i] EXCEPT !.status = "Paid"]
        <4>1. /\ Open(i) /\ payoutRecords[i] # None /\ payoutRecords[i] \in FailedRecord
              /\ payoutRecords[i].status = "Failed"
          BY <2>0, <2>4 DEF retry, Open
        <4>2. /\ q \in FailedRecord /\ q.status = "Paid" /\ q.amount = payoutRecords[i].amount
              /\ payoutRecords' = [payoutRecords EXCEPT ![i] = q]
          BY <2>0, <2>4, <3>2, <4>1 DEF retry, FailedRecord
        <4> HIDE DEF q
        <4>3. P[i] = payoutRecords[i].amount /\ P[i] \in Nat /\ P[i] > 0
          BY <4>1, RecordFields
        <4>4. delivered' = [delivered EXCEPT ![i] = delivered[i] + payoutRecords[i].amount]
          BY <2>4, <3>2 DEF retry
        <4>5. delivered[i] + payoutRecords[i].amount = P[i]
          BY <4>1, <4>3 DEF PayoutsCovered
        <4> HIDE DEF P
        <4>6. delivered' = [delivered EXCEPT ![i] = P[i]]
          BY <4>4, <4>5
        <4> QED  BY <2>3, <4>1, <4>2, <4>3, <4>6
      <3> QED  BY <3>1, <3>2
    <2>5. ASSUME NEW i \in RecordIds, NEW r \in Recipients, update_recipient(i, r)  PROVE Stutter
      <3> DEFINE q == [payoutRecords[i] EXCEPT !.recipient = r]
      <3>1. /\ Open(i) /\ payoutRecords[i] # None /\ payoutRecords[i] \in FailedRecord
            /\ payoutRecords[i].status = "Failed" /\ UNCHANGED delivered
        BY <2>0, <2>5 DEF update_recipient, Open
      <3>2. /\ q \in FailedRecord /\ q.status = "Failed" /\ q.amount = payoutRecords[i].amount
            /\ payoutRecords' = [payoutRecords EXCEPT ![i] = q]
        BY <2>0, <2>5, <3>1 DEF update_recipient, FailedRecord
      <3> HIDE DEF q
      <3> QED  BY <2>3, <3>1, <3>2
    <2>6. ASSUME NEW i \in RecordIds, reclaim(i)  PROVE BrokenOff(i)
      <3> DEFINE q == [payoutRecords[i] EXCEPT !.status = "Reclaimed"]
      <3>1. /\ Open(i) /\ payoutRecords[i] # None /\ payoutRecords[i] \in FailedRecord
            /\ payoutRecords[i].status = "Failed" /\ UNCHANGED delivered
        BY <2>0, <2>6 DEF reclaim, Open
      <3>2. /\ q \in FailedRecord /\ q.status = "Reclaimed" /\ q.amount = payoutRecords[i].amount
            /\ payoutRecords' = [payoutRecords EXCEPT ![i] = q]
        BY <2>0, <2>6, <3>1 DEF reclaim, FailedRecord
      <3> HIDE DEF q
      <3> QED  BY <2>3, <3>1, <3>2
    <2>7. ASSUME FailedPayoutsTick \/ UNCHANGED failedPayoutVars  PROVE Stutter
      BY <2>1, <2>7 DEF FailedPayoutsTick, failedPayoutVars
    <2> HIDE DEF Given, Kept, BrokenOff, Stutter
    <2> QED  BY <2>2, <2>4, <2>5, <2>6, <2>7 DEF FailedPayoutsNext
  <1> QED  BY <1>1, <1>2, PayoutsCoveredHolds, PTL
              DEF FailedPayoutsSpec, OwedImplementsPromises, Owed!Spec

-----------------------------------------------------------------------------
(* Challenged withdrawals of the treasury. *)
USE ChallengesConstants, AbsentWithdrawal DEF WithdrawalIds
HIDE DEF RecordIds

\* The window was fixed when the withdrawal was approved, what governance turned
\* down is cancelled, and what is final is not cancelled and its window is over.
WithdrawalKept(w, at, down, time) ==
  /\ w.window_ends_at = at + WindowOf(w.amount)
  /\ down => w.cancelled
  /\ w.finalized => ~w.cancelled /\ w.challenged_by = None /\ time >= w.window_ends_at

WindowsKept ==
  /\ ChallengesTypeOK
  /\ \A i \in WithdrawalIds : withdrawals[i] = None => i \notin turnedDown
  /\ \A i \in WithdrawalIds : withdrawals[i] # None =>
       WithdrawalKept(withdrawals[i], approvedAt[i], i \in turnedDown, now)

\* A withdrawal that is stored has its fields.
LEMMA WithdrawalFields ==
  ASSUME NEW w \in Withdrawal
  PROVE  /\ w.amount \in Nat /\ w.window_ends_at \in Nat
         /\ w.challenged_by \in Stakeholders \cup {None}
         /\ w.cancelled \in BOOLEAN /\ w.finalized \in BOOLEAN
  BY DEF Withdrawal

\* No withdrawal is approved in the initial state.
LEMMA WindowsInit == ChallengesInit /\ LedgerInit => WindowsKept
  BY DEF ChallengesInit, LedgerInit, WindowsKept, ChallengesTypeOK

\* Withdrawal i becomes w, the others are left alone.
LEMMA WithdrawalRewritten ==
  ASSUME WindowsKept, NEW i \in WithdrawalIds, NEW w \in Withdrawal,
         withdrawals' = [withdrawals EXCEPT ![i] = w],
         \/ withdrawals[i] # None /\ UNCHANGED nextWithdrawalId
         \/ i = nextWithdrawalId /\ nextWithdrawalId' = nextWithdrawalId + 1,
         NEW at \in Nat, approvedAt' = [approvedAt EXCEPT ![i] = at],
         turnedDown' \subseteq WithdrawalIds,
         \A j \in WithdrawalIds \ {i} : j \in turnedDown' => j \in turnedDown,
         UNCHANGED <<stakeholders, now>>,
         WithdrawalKept(w, at, i \in turnedDown', now)
  PROVE  WindowsKept'
  <1>1. /\ withdrawals' \in [WithdrawalIds -> Withdrawal \cup {None}]
        /\ withdrawals'[i] = w /\ w # None
        /\ \A j \in WithdrawalIds \ {i} : withdrawals'[j] = withdrawals[j]
    BY DEF WindowsKept, ChallengesTypeOK
  <1>2. /\ nextWithdrawalId' \in 0 .. MaxWithdrawals
        /\ \A j \in WithdrawalIds : withdrawals'[j] # None <=> j < nextWithdrawalId'
    BY <1>1 DEF WindowsKept, ChallengesTypeOK
  <1>3. /\ approvedAt' \in [WithdrawalIds -> Nat] /\ approvedAt'[i] = at
        /\ \A j \in WithdrawalIds \ {i} : approvedAt'[j] = approvedAt[j]
    BY DEF WindowsKept, ChallengesTypeOK
  <1>4. ChallengesTypeOK'
    BY <1>1, <1>2, <1>3 DEF WindowsKept, ChallengesTypeOK
  <1>5. ASSUME NEW j \in WithdrawalIds, withdrawals'[j] # None
        PROVE  WithdrawalKept(withdrawals'[j], approvedAt'[j], j \in turnedDown', now')
    <2>1. CASE j = i
      BY <1>1, <1>3, <2>1
    <2>2. CASE j # i
      BY <1>1, <1>3, <1>5, <2>2 DEF WindowsKept, WithdrawalKept
    <2> QED  BY <2>1, <2>2
  <1>6. ASSUME NEW j \in WithdrawalIds, withdrawals'[j] = None  PROVE j \notin turnedDown'
    BY <1>1, <1>6 DEF WindowsKept
  <1> QED  BY <1>4, <1>5, <1>6 DEF WindowsKept, WithdrawalKept

\* Approving, challenging, resolving and finalizing keep every withdrawal
\* within its window's rules.
LEMMA WindowsStep ==
  ASSUME WindowsKept, [ChallengesNext]_challengeVars
  PROVE  WindowsKept'
  <1>0. /\ now \in Nat /\ stakeholders \subseteq Stakeholders
        /\ withdrawals \in [WithdrawalIds -> Withdrawal \cup {None}]
        /\ approvedAt \in [WithdrawalIds -> Nat] /\ turnedDown \subseteq WithdrawalIds
    BY DEF WindowsKept, ChallengesTypeOK
  <1>1. ASSUME NEW s \in Stakeholders, add_stakeholder(s)  PROVE WindowsKept'
    BY <1>1 DEF add_stakeholder, WindowsKept, ChallengesTypeOK, WithdrawalKept
  <1>2. ASSUME NEW amount \in WithdrawalAmounts, approve(amount)  PROVE WindowsKept'
    <2> DEFINE w == [amount |-> amount, window_ends_at |-> now + WindowOf(amount),
                     challenged_by |-> None, cancelled |-> FALSE, finalized |-> FALSE]
    <2>1. /\ nextWithdrawalId \in WithdrawalIds
          /\ withdrawals' = [withdrawals EXCEPT ![nextWithdrawalId] = w]
          /\ nextWithdrawalId' = nextWithdrawalId + 1
          /\ approvedAt' = [approvedAt EXCEPT ![nextWithdrawalId] = now]
          /\ UNCHANGED <<stakeholders, turnedDown, now>>
      BY <1>2 DEF approve
    <2>2. now + WindowOf(amount) \in Nat
      BY <1>0 DEF WindowOf
    <2>3. w \in Withdrawal
      BY <2>2 DEF Withdrawal
    <2>4. nextWithdrawalId \notin turnedDown
      BY <2>1 DEF WindowsKept, ChallengesTypeOK
    <2>5. WithdrawalKept(w, now, nextWithdrawalId \in turnedDown', now)
      BY <2>1, <2>4 DEF WithdrawalKept
    <2> HIDE DEF w
    <2> QED  BY <1>0, <2>1, <2>3, <2>5, WithdrawalRewritten
  <1>3. ASSUME NEW i \in WithdrawalIds, withdrawals[i] # None
        PROVE  /\ withdrawals[i] \in Withdrawal
               /\ WithdrawalKept(withdrawals[i], approvedAt[i], i \in turnedDown, now)
               /\ approvedAt = [approvedAt EXCEPT ![i] = approvedAt[i]] /\ approvedAt[i] \in Nat
    BY <1>0, <1>3 DEF WindowsKept
  <1>4. ASSUME NEW i \in WithdrawalIds, NEW s \in Stakeholders, challenge(s, i)
        PROVE  WindowsKept'
    <2> DEFINE w == [withdrawals[i] EXCEPT !.challenged_by = s]
    <2>1. /\ withdrawals[i] # None /\ ~withdrawals[i].finalized
          /\ withdrawals' = [withdrawals EXCEPT ![i] = w]
          /\ UNCHANGED <<stakeholders, nextWithdrawalId, approvedAt, turnedDown, now>>
      BY <1>0, <1>4 DEF challenge, Unsettled
    <2>2. w \in Withdrawal
      BY <1>3, <2>1 DEF Withdrawal
    <2>3. WithdrawalKept(w, approvedAt[i], i \in turnedDown', now)
      BY <1>3, <2>1 DEF WithdrawalKept, Withdrawal
    <2> HIDE DEF w
    <2> QED  BY <1>0, <1>3, <2>1, <2>2, <2>3, WithdrawalRewritten
  <1>5. ASSUME NEW i \in WithdrawalIds, NEW uphold \in BOOLEAN, resolve(i, uphold)
        PROVE  WindowsKept'
    <2> DEFINE w == IF uphold THEN [withdrawals[i] EXCEPT !.challenged_by = None]
                    ELSE [withdrawals[i] EXCEPT !.cancelled = TRUE]
    <2>1. /\ withdrawals[i] # None /\ withdrawals[i].challenged_by # None
          /\ withdrawals' = [withdrawals EXCEPT ![i] = w]
          /\ turnedDown' = IF uphold THEN turnedDown ELSE turnedDown \cup {i}
          /\ UNCHANGED <<stakeholders, nextWithdrawalId, approvedAt, now>>
      BY <1>0, <1>5 DEF resolve
    <2>2. w \in Withdrawal
      BY <1>3, <2>1 DEF Withdrawal
    <2>3. WithdrawalKept(w, approvedAt[i], i \in turnedDown', now)
      BY <1>3, <2>1 DEF WithdrawalKept, Withdrawal
    <2> HIDE DEF w
    <2>4. /\ approvedAt[i] \in Nat /\ approvedAt' = [approvedAt EXCEPT ![i] = approvedAt[i]]
          /\ turnedDown' \subseteq WithdrawalIds
          /\ \A j \in WithdrawalIds \ {i} : j \in turnedDown' => j \in turnedDown
          /\ UNCHANGED <<stakeholders, now>>
      <3>1. approvedAt[i] \in Nat /\ approvedAt' = [approvedAt EXCEPT ![i] = approvedAt[i]]
        BY <1>3, <2>1
      <3>2. turnedDown' = turnedDown \/ turnedDown' = turnedDown \cup {i}
        BY <2>1
      <3>3. /\ turnedDown' \subseteq WithdrawalIds
            /\ \A j \in WithdrawalIds \ {i} : j \in turnedDown' => j \in turnedDown
        BY <1>0, <3>2
      <3> QED  BY <2>1, <3>1, <3>3
    <2> QED  BY <2>1, <2>2, <2>3, <2>4, WithdrawalRewritten
  <1>6. ASSUME NEW i \in WithdrawalIds, finalize(i)  PROVE WindowsKept'
    <2> DEFINE w == [withdrawals[i] EXCEPT !.finalized = TRUE]
    <2>1. /\ withdrawals[i] # None /\ ~withdrawals[i].cancelled
          /\ withdrawals[i].challenged_by = None /\ now >= withdrawals[i].window_ends_at
          /\ withdrawals' = [withdrawals EXCEPT ![i] = w]
          /\ UNCHANGED <<stakeholders, nextWithdrawalId, approvedAt, turnedDown, now>>
      BY <1>0, <1>6 DEF finalize, Unsettled
    <2>2. w \in Withdrawal
      BY <1>3, <2>1 DEF Withdrawal
    <2>3. WithdrawalKept(w, approvedAt[i], i \in turnedDown', now)
      BY <1>3, <2>1 DEF WithdrawalKept, Withdrawal
    <2> HIDE DEF w
    <2> QED  BY <1>0, <1>3, <2>1, <2>2, <2>3, WithdrawalRewritten
  <1>7. ASSUME ChallengesTick \/ UNCHANGED challengeVars  PROVE WindowsKept'
    <2>1. /\ now' \in Nat /\ now' >= now
          /\ UNCHANGED <<stakeholders, withdrawals, nextWithdrawalId, approvedAt, turnedDown>>
      BY <1>0, <1>7 DEF ChallengesTick, challengeVars, LedgerTick
    <2>2. ChallengesTypeOK'
      BY <2>1 DEF WindowsKept, ChallengesTypeOK
    <2>3. ASSUME NEW i \in WithdrawalIds, withdrawals[i] # None
          PROVE  WithdrawalKept(withdrawals[i], approvedAt[i], i \in turnedDown, now')
      <3>1. /\ withdrawals[i] \in Withdrawal
            /\ WithdrawalKept(withdrawals[i], approvedAt[i], i \in turnedDown, now)
        BY <1>3, <2>3
      <3>2. PICK w : w = withdrawals[i]
        OBVIOUS
      <3>3. w.window_ends_at \in Nat
        BY <3>1, <3>2, WithdrawalFields
      <3>4. now >= w.window_ends_at => now' >= w.window_ends_at
        BY <1>0, <2>1, <3>3
      <3> QED  BY <3>1, <3>2, <3>4 DEF WithdrawalKept
    <2> QED  BY <2>1, <2>2, <2>3 DEF WindowsKept, WithdrawalKept
  <1> QED  BY <1>1, <1>2, <1>4, <1>5, <1>6, <1>7 DEF ChallengesNext

(* A withdrawal becomes final only after the whole window it was approved  *)
(* with, never while a challenge holds it and never once governance turned *)
(* it down, for every threshold, window and number of withdrawals.         *)
THEOREM ChallengesKeepHold == ChallengesSpec => []ChallengesHold
  <1>1. WindowsKept /\ [ChallengesNext]_challengeVars => WindowsKept'
    BY WindowsStep
  <1>2. WindowsKept => ChallengesHold
    BY DEF WindowsKept, WithdrawalKept, ChallengesHold
  <1> QED  BY <1>1, <1>2, WindowsInit, PTL DEF ChallengesSpec

-----------------------------------------------------------------------------
(* The net asset value. *)

\* The feeds and the list of tracked assets have their types and agree.
NavBooked ==
  /\ assetFeed \in [Assets -> Feeds \cup {None}]
  /\ holding \in [Assets -> Holdings]
  /\ tracked \in Seq(Assets)
  /\ NavComplete

\* Without feeds, assets or a snapshot the two agree.
LEMMA NavBookedInit == NavInit => NavBooked
  BY DEF NavInit, NavBooked, NavComplete, IsInjective, Range

\* An asset appended to a list that lacks it is listed once.
LEMMA AppendedOnce ==
  ASSUME NEW S, NEW seq \in Seq(S), NEW e \in S, IsInjective(seq), e \notin Range(seq)
  PROVE  /\ Append(seq, e) \in Seq(S)
         /\ IsInjective(Append(seq, e))
         /\ Range(Append(seq, e)) = Range(seq) \cup {e}
  <1> DEFINE n == Len(seq)
             longer == Append(seq, e)
  <1>1. /\ n \in Nat /\ DOMAIN seq = 1 .. n /\ longer \in Seq(S) /\ DOMAIN longer = 1 .. n + 1
        /\ longer[n + 1] = e /\ \A k \in 1 .. n : longer[k] = seq[k]
    OBVIOUS
  <1> HIDE DEF longer, n
  <1>2. IsInjective(longer)
    <2> SUFFICES ASSUME NEW j \in 1 .. n + 1, NEW k \in 1 .. n + 1, longer[j] = longer[k]
                 PROVE  j = k
      BY <1>1 DEF IsInjective
    <2>1. \A i \in 1 .. n : seq[i] # e
      BY <1>1 DEF Range
    <2> QED  BY <1>1, <2>1 DEF IsInjective
  <1>3. Range(longer) = Range(seq) \cup {e}
    <2>1. ASSUME NEW x \in Range(longer)  PROVE x \in Range(seq) \cup {e}
      <3>1. PICK k \in 1 .. n + 1 : x = longer[k]
        BY <1>1 DEF Range
      <3>2. k = n + 1 \/ k \in 1 .. n
        BY <1>1
      <3> QED  BY <1>1, <3>1, <3>2 DEF Range
    <2>2. ASSUME NEW x \in Range(seq) \cup {e}  PROVE x \in Range(longer)
      <3>1. 1 .. n \subseteq 1 .. n + 1 /\ n + 1 \in 1 .. n + 1
        BY <1>1
      <3> QED  BY <1>1, <3>1 DEF Range
    <2> QED  BY <2>1, <2>2
  <1> QED  BY <1>1, <1>2, <1>3 DEF longer

\* A snapshot lists the tracked assets and values none above balance at price.
LEMMA SnapshotTaken ==
  ASSUME NavBooked, NEW price \in [Feeds -> Prices], take_nav_snapshot(price)
  PROVE  NavBooked'
  <1> DEFINE t(i) == tracked[i]
             bal(i) == holding[tracked[i]]
             cost(i) == price[assetFeed[tracked[i]]]
             assets == latest'.assets
             nav == [i \in DOMAIN assets |-> assets[i].nav]
  <1>1. /\ UNCHANGED <<assetFeed, tracked, holding>>
        /\ \A i \in DOMAIN tracked : assetFeed[tracked[i]] # None
        /\ assets = [i \in DOMAIN tracked |->
                       [token |-> t(i), balance |-> bal(i), price |-> cost(i),
                        nav |-> (bal(i) * cost(i)) \div PRICE_SCALE]]
        /\ latest'.total_nav = SumOver(nav, DOMAIN assets)
    BY DEF take_nav_snapshot
  <1>2. /\ DOMAIN assets = DOMAIN tracked /\ IsFiniteSet(DOMAIN tracked)
        /\ \A i \in DOMAIN tracked : assets[i].token = tracked[i]
    <2>1. DOMAIN tracked = 1 .. Len(tracked) /\ Len(tracked) \in Nat
      BY DEF NavBooked
    <2>2. IsFiniteSet(DOMAIN tracked)
      <3>1. 1 \in Int /\ Len(tracked) \in Int
        BY <2>1
      <3> HIDE DEF assets
      <3> QED  BY <2>1, <3>1, FS_Interval
    <2> HIDE DEF assets, bal, cost
    <2>3. /\ DOMAIN assets = DOMAIN tracked
          /\ \A i \in DOMAIN tracked : assets[i].token = tracked[i]
      BY <1>1
    <2> QED  BY <2>2, <2>3
  <1>3. ASSUME NEW i \in DOMAIN tracked
        PROVE  /\ assets[i].nav \in Nat /\ assets[i].balance * assets[i].price \in Nat
               /\ assets[i].nav * PRICE_SCALE \in Nat
               /\ assets[i].nav * PRICE_SCALE <= assets[i].balance * assets[i].price
    <2>1. tracked[i] \in Assets
      BY DEF NavBooked
    <2>2. assetFeed[tracked[i]] \in Feeds
      <3>1. assetFeed[tracked[i]] # None
        BY <1>1, Zenon
      <3>2. assetFeed \in [Assets -> Feeds \cup {None}]
        BY DEF NavBooked
      <3> HIDE DEF assets, t, bal, cost
      <3> QED  BY <2>1, <3>1, <3>2
    <2>3. bal(i) \in Nat /\ cost(i) \in Nat
      BY <2>1, <2>2, NavConstants DEF NavBooked
    <2>4. bal(i) * cost(i) \in Nat /\ PRICE_SCALE \in Nat \ {0}
      BY <2>3, NavConstants
    <2>5. /\ assets[i].nav = (bal(i) * cost(i)) \div PRICE_SCALE
          /\ assets[i].balance * assets[i].price = bal(i) * cost(i)
      <3> HIDE DEF t, bal, cost, assets
      <3>1. assets[i] = [token |-> t(i), balance |-> bal(i), price |-> cost(i),
                         nav |-> (bal(i) * cost(i)) \div PRICE_SCALE]
        BY <1>1, Zenon
      <3> QED  BY <3>1
    <2> HIDE DEF bal, cost, assets
    <2>6. /\ assets[i].nav \in Nat /\ assets[i].nav * PRICE_SCALE <= bal(i) * cost(i)
      BY <2>4, <2>5, RoundedDown
    <2>7. assets[i].nav * PRICE_SCALE \in Nat
      BY <2>4, <2>6
    <2> QED  BY <2>4, <2>5, <2>6, <2>7
  <1> HIDE DEF assets
  <1>6. \A i \in DOMAIN assets : assets[i].nav * PRICE_SCALE <= assets[i].balance * assets[i].price
    BY <1>2, <1>3
  <1>7. IsInjective([i \in DOMAIN assets |-> assets[i].token])
    BY <1>2 DEF NavBooked, NavComplete, IsInjective
  <1> QED  BY <1>1, <1>6, <1>7 DEF NavBooked, NavComplete, assets

\* Registering, removing and taking snapshots keep the list and the feeds in step.
LEMMA NavBookedStep == NavBooked /\ [NavNext]_navVars => NavBooked'
  <1> SUFFICES ASSUME NavBooked, [NavNext]_navVars  PROVE NavBooked'
    OBVIOUS
  <1>0. /\ tracked \in Seq(Assets) /\ IsInjective(tracked) /\ None \notin Feeds
        /\ assetFeed \in [Assets -> Feeds \cup {None}]
        /\ Range(tracked) = {t \in Assets : assetFeed[t] # None}
    BY NavConstants DEF NavBooked, NavComplete
  <1>1. CASE set_oracle
    BY <1>1 DEF set_oracle, NavBooked, NavComplete
  <1>2. ASSUME NEW t \in Assets, NEW amount \in Holdings, BalanceMoves(t, amount)
        PROVE  NavBooked'
    BY <1>2 DEF BalanceMoves, NavBooked, NavComplete
  <1>3. ASSUME NEW t \in Assets, NEW feed \in Feeds, register_asset_feed(t, feed)
        PROVE  NavBooked'
    <2>1. t \notin Range(tracked)
      BY <1>0, <1>3 DEF register_asset_feed
    <2>2. /\ tracked' = Append(tracked, t) /\ assetFeed' = [assetFeed EXCEPT ![t] = feed]
          /\ UNCHANGED <<holding, latest>>
      BY <1>3, <2>1 DEF register_asset_feed
    <2>3. /\ tracked' \in Seq(Assets) /\ IsInjective(tracked')
          /\ Range(tracked') = Range(tracked) \cup {t}
      BY <1>0, <2>1, <2>2, AppendedOnce
    <2>4. Range(tracked') = {u \in Assets : assetFeed'[u] # None}
      BY <1>0, <2>2, <2>3
    <2> QED  BY <1>0, <2>2, <2>3, <2>4 DEF NavBooked, NavComplete
  <1>4. ASSUME NEW t \in Assets, deregister_asset_feed(t)
        PROVE  NavBooked'
    <2>2. /\ tracked' = Without(tracked, t) /\ assetFeed' = [assetFeed EXCEPT ![t] = None]
          /\ UNCHANGED <<holding, latest>>
      BY <1>4 DEF deregister_asset_feed
    <2>3. /\ tracked' \in Seq(Assets) /\ IsInjective(tracked')
          /\ Range(tracked') = Range(tracked) \ {t}
      BY <1>0, <2>2, WithoutFacts
    <2>4. Range(tracked') = {u \in Assets : assetFeed'[u] # None}
      BY <1>0, <2>2, <2>3
    <2> QED  BY <1>0, <2>2, <2>3, <2>4 DEF NavBooked, NavComplete
  <1>5. ASSUME NEW price \in [Feeds -> Prices], take_nav_snapshot(price)
        PROVE  NavBooked'
    BY <1>5, SnapshotTaken
  <1>6. CASE UNCHANGED navVars
    BY <1>6 DEF navVars, NavBooked, NavComplete
  <1> QED  BY <1>1, <1>2, <1>3, <1>4, <1>5, <1>6 DEF NavNext

-----------------------------------------------------------------------------
(* The reserve. *)

\* The books of the reserve are amounts, and keep the share.
ReserveBooked ==
  /\ reserve \in Nat /\ routed \in Nat /\ operating \in Nat /\ drawn \in Nat
  /\ reported \in Obligations \cup {0}
  /\ ReserveKeepsShare

\* The target of reported obligations is an amount.
LEMMA TargetNat ==
  ASSUME NEW o \in Obligations \cup {0}
  PROVE  target(o) \in Nat
  <1>1. o * target_bps \in Nat /\ FULL_BPS \in Nat \ {0}
    BY ReserveConstants
  <1> QED  BY <1>1, RoundedDown DEF target

\* Larger obligations have no smaller target.
LEMMA TargetGrows ==
  ASSUME NEW o \in Obligations \cup {0}, NEW larger \in Obligations \cup {0}, o <= larger
  PROVE  target(o) <= target(larger)
  <1>1. /\ o \in Nat /\ larger \in Nat /\ target_bps \in Nat /\ FULL_BPS \in Nat \ {0}
    BY ReserveConstants
  <1>2. o * target_bps <= larger * target_bps
    BY <1>1
  <1>3. ASSUME NEW x \in Nat, NEW y \in Nat, NEW d \in Nat \ {0}, x <= y
        PROVE  x \div d <= y \div d
    BY <1>3
  <1> QED  BY <1>1, <1>2, <1>3 DEF target

\* An empty reserve keeps the share of no obligations.
LEMMA ReserveBookedInit == ReserveInit => ReserveBooked
  BY TargetNat DEF ReserveInit, ReserveBooked, ReserveKeepsShare

\* Inflows stop at the target and draws only lower the reserve.
LEMMA ReserveBookedStep == ReserveBooked /\ [ReserveNext]_reserveVars => ReserveBooked'
  <1> SUFFICES ASSUME ReserveBooked, [ReserveNext]_reserveVars  PROVE ReserveBooked'
    OBVIOUS
  <1>0. reported \in Obligations \cup {0} /\ reserve <= target(reported)
    BY DEF ReserveBooked, ReserveKeepsShare
  <1>1. ASSUME NEW amount \in Inflows, NEW obligations \in Obligations,
               route_inflow(amount, obligations)
        PROVE  ReserveBooked'
    <2> DEFINE short == Shortfall(obligations)
               toReserve == IF amount < short THEN amount ELSE short
    <2>1. /\ target(obligations) \in Nat /\ target(reported) \in Nat /\ amount \in Nat
          /\ reserve \in Nat /\ operating \in Nat /\ routed \in Nat /\ drawn \in Nat
          /\ routed = reserve + operating + drawn
      BY <1>0, TargetNat, ReserveConstants DEF ReserveBooked, ReserveKeepsShare
    <2>2. /\ reserve' = reserve + toReserve /\ operating' = operating + (amount - toReserve)
          /\ routed' = routed + amount /\ drawn' = drawn
      BY <1>1 DEF route_inflow
    <2>3. /\ toReserve \in Nat /\ toReserve <= amount
          /\ reserve + toReserve <= target(obligations) \/ toReserve = 0
      BY <2>1 DEF Shortfall
    <2> HIDE DEF toReserve
    <2>4. reserve' <= target(obligations) \/ reserve' <= target(reported)
      BY <1>0, <2>1, <2>2, <2>3
    <2>5. /\ reserve' \in Nat /\ routed' \in Nat /\ operating' \in Nat /\ drawn' \in Nat
          /\ routed' = reserve' + operating' + drawn'
      BY <2>1, <2>2, <2>3
    <2>6. reported' \in Obligations \cup {0} /\ reserve' <= target(reported')
      <3>1. /\ reported' \in Obligations \cup {0} /\ obligations <= reported' /\ reported <= reported'
        BY <1>0, <1>1, ReserveConstants DEF route_inflow
      <3>2. target(obligations) <= target(reported') /\ target(reported) <= target(reported')
        BY <1>0, <3>1, TargetGrows
      <3>3. target(reported') \in Nat
        BY <3>1, TargetNat
      <3> QED  BY <2>1, <2>2, <2>3, <2>4, <3>1, <3>2, <3>3
    <2> QED  BY <2>5, <2>6 DEF ReserveBooked, ReserveKeepsShare, target
  <1>2. ASSUME NEW amount \in Inflows, draw(amount)
        PROVE  ReserveBooked'
    <2>1. /\ target(reported) \in Nat /\ amount \in Nat
          /\ reserve \in Nat /\ operating \in Nat /\ routed \in Nat /\ drawn \in Nat
          /\ routed = reserve + operating + drawn
      BY <1>0, TargetNat, ReserveConstants DEF ReserveBooked, ReserveKeepsShare
    <2>2. /\ amount <= reserve /\ reserve' = reserve - amount /\ drawn' = drawn + amount
          /\ routed' = routed /\ operating' = operating /\ reported' = reported
      BY <1>2 DEF draw
    <2>3. reserve' <= target(reported)
      BY <1>0, <2>1, <2>2
    <2>4. /\ reserve' \in Nat /\ routed' \in Nat /\ operating' \in Nat /\ drawn' \in Nat
          /\ routed' = reserve' + operating' + drawn'
      BY <2>1, <2>2
    <2> QED  BY <1>0, <2>2, <2>3, <2>4 DEF ReserveBooked, ReserveKeepsShare, target
  <1>3. CASE UNCHANGED reserveVars
    BY <1>3 DEF reserveVars, ReserveBooked, ReserveKeepsShare, target
  <1> QED  BY <1>1, <1>2, <1>3 DEF ReserveNext

-----------------------------------------------------------------------------
(* The three safeguards keep what they promise whatever the order in which *)
(* they are called: the windows, the completeness and caution of every     *)
(* snapshot, asset by asset, and the reserve's share of the obligations    *)
(* reported so far, for every set of assets, feeds, prices, amounts and    *)
(* obligations.                                                            *)
THEOREM SafeguardsAlwaysHold == SafeguardsSpec => []SafeguardsHold
  <1> DEFINE Inv == WindowsKept /\ NavBooked /\ ReserveBooked
  <1>1. SafeguardsInit => Inv
    BY WindowsInit, NavBookedInit, ReserveBookedInit DEF SafeguardsInit
  <1>2. Inv /\ [SafeguardsNext]_safeguardVars => Inv'
    <2>1. [SafeguardsNext]_safeguardVars =>
             [ChallengesNext]_challengeVars /\ [NavNext]_navVars /\ [ReserveNext]_reserveVars
      BY DEF SafeguardsNext, safeguardVars
    <2> QED  BY <2>1, WindowsStep, NavBookedStep, ReserveBookedStep
  <1>3. Inv => SafeguardsHold
    BY DEF WindowsKept, WithdrawalKept, ChallengesHold, NavBooked, ReserveBooked, SafeguardsHold
  <1> QED  BY <1>1, <1>2, <1>3, PTL DEF SafeguardsSpec
-----------------------------------------------------------------------------
\* The bounty escrow.  The invariant: the ids are handed out in order, a contract
\* without governance has nothing on its books, and every disclosed commitment is
\* marked used.
Booked ==
  /\ \A p \in PayoutIds : p >= nextPayoutId => payouts[p] = None
  /\ governance = None => /\ escrow = 0 /\ reserved = 0
                          /\ \A p \in PayoutIds : payouts[p] = None
                          /\ \A c \in Commitments : cawards[c] = None
  /\ reserved <= escrow /\ escrow <= tokenBalance

Disclosed ==
  /\ OneCommitmentPerReport
  /\ \A r \in Reports : disclosures[r] # None => disclosures[r] \in used

BountyInv == BountyTypeOK /\ Booked /\ reserved = PendingPayouts + AwardedCommitments

\* A payout record that is stored has its fields.
LEMMA PayoutFields ==
  ASSUME NEW r \in PayoutRecord
  PROVE  /\ r.recipient \in Addresses /\ r.amount \in Amounts /\ r.amount \in Nat
         /\ r.deadline \in Nat /\ r.status \in {"Pending", "Claimed", "Swept"} /\ r # None
  BY BountyConstants, AbsentPayout DEF PayoutRecord

\* So has the record of a reward by commitment.
LEMMA CommitmentFields ==
  ASSUME NEW r \in CommitmentAwardRecord
  PROVE  /\ r.report_hash \in Reports /\ r.amount \in Amounts /\ r.amount \in Nat
         /\ r.status \in {"Awarded", "Claimed"} /\ r # None
  BY BountyConstants, AbsentPayout DEF CommitmentAwardRecord

\* What is promised is a number, and what one promise takes is part of it.
LEMMA PromisedType ==
  ASSUME BountyTypeOK
  PROVE  /\ IsFiniteSet(PayoutIds) /\ IsFiniteSet(Commitments)
         /\ \A p \in PayoutIds : PendingAmount(p) \in Nat /\ PendingAmount(p) <= PendingPayouts
         /\ \A c \in Commitments : AwardedAmount(c) \in Nat /\ AwardedAmount(c) <= AwardedCommitments
         /\ PendingPayouts \in Nat /\ AwardedCommitments \in Nat
  <1> DEFINE f == [p \in PayoutIds |-> PendingAmount(p)]
             g == [c \in Commitments |-> AwardedAmount(c)]
  <1>1. IsFiniteSet(PayoutIds) /\ IsFiniteSet(Commitments)
    BY BountyConstants, FS_Interval DEF PayoutIds
  <1>2. \A p \in PayoutIds : PendingAmount(p) \in Nat
    BY PayoutFields DEF BountyTypeOK, PendingAmount
  <1>3. \A c \in Commitments : AwardedAmount(c) \in Nat
    BY CommitmentFields DEF BountyTypeOK, AwardedAmount
  <1>4. /\ \A p \in PayoutIds : f[p] \in Nat /\ f[p] = PendingAmount(p)
        /\ \A c \in Commitments : g[c] \in Nat /\ g[c] = AwardedAmount(c)
    BY <1>2, <1>3
  <1> HIDE DEF f, g
  <1>5. SumOver(f, PayoutIds) \in Nat /\ \A p \in PayoutIds : f[p] <= SumOver(f, PayoutIds)
    BY <1>1, <1>4, SumNat, SumAtLeast
  <1>6. SumOver(g, Commitments) \in Nat /\ \A c \in Commitments : g[c] <= SumOver(g, Commitments)
    BY <1>1, <1>4, SumNat, SumAtLeast
  <1> QED  BY <1>1, <1>2, <1>3, <1>4, <1>5, <1>6 DEF PendingPayouts, AwardedCommitments, f, g

\* A step that changes one payout changes the pending sum by as much.
LEMMA PendingChange ==
  ASSUME BountyTypeOK, BountyTypeOK', NEW id \in PayoutIds,
         \A p \in PayoutIds : p # id => payouts'[p] = payouts[p]
  PROVE  PendingPayouts' = PendingPayouts - PendingAmount(id) + PendingAmount(id)'
  <1> DEFINE f == [p \in PayoutIds |-> PendingAmount(p)]
             g == [p \in PayoutIds |-> PendingAmount(p)']
  <1>1. IsFiniteSet(PayoutIds) /\ \A p \in PayoutIds : PendingAmount(p) \in Int
    BY PromisedType
  <1>2. PendingAmount(id)' \in Int
    BY PayoutFields DEF BountyTypeOK, PendingAmount
  <1>3. \A p \in PayoutIds : p # id => PendingAmount(p)' = PendingAmount(p)
    BY DEF PendingAmount
  <1>4. /\ \A p \in PayoutIds : f[p] \in Int /\ f[p] = PendingAmount(p)
        /\ g[id] \in Int /\ g[id] = PendingAmount(id)'
        /\ \A p \in PayoutIds \ {id} : g[p] = f[p]
    BY <1>1, <1>2, <1>3
  <1> HIDE DEF f, g
  <1>5. SumOver(g, PayoutIds) = SumOver(f, PayoutIds) - f[id] + g[id]
    BY <1>1, <1>4, SumChange
  <1>6. SumOver(f, PayoutIds) = PendingPayouts /\ SumOver(g, PayoutIds) = PendingPayouts'
    BY DEF PendingPayouts, f, g
  <1> QED  BY <1>4, <1>5, <1>6

\* So does one that changes one reward by commitment.
LEMMA AwardedChange ==
  ASSUME BountyTypeOK, BountyTypeOK', NEW id \in Commitments,
         \A c \in Commitments : c # id => cawards'[c] = cawards[c]
  PROVE  AwardedCommitments' = AwardedCommitments - AwardedAmount(id) + AwardedAmount(id)'
  <1> DEFINE f == [c \in Commitments |-> AwardedAmount(c)]
             g == [c \in Commitments |-> AwardedAmount(c)']
  <1>1. IsFiniteSet(Commitments) /\ \A c \in Commitments : AwardedAmount(c) \in Int
    BY PromisedType
  <1>2. AwardedAmount(id)' \in Int
    BY CommitmentFields DEF BountyTypeOK, AwardedAmount
  <1>3. \A c \in Commitments : c # id => AwardedAmount(c)' = AwardedAmount(c)
    BY DEF AwardedAmount
  <1>4. /\ \A c \in Commitments : f[c] \in Int /\ f[c] = AwardedAmount(c)
        /\ g[id] \in Int /\ g[id] = AwardedAmount(id)'
        /\ \A c \in Commitments \ {id} : g[c] = f[c]
    BY <1>1, <1>2, <1>3
  <1> HIDE DEF f, g
  <1>5. SumOver(g, Commitments) = SumOver(f, Commitments) - f[id] + g[id]
    BY <1>1, <1>4, SumChange
  <1>6. SumOver(f, Commitments) = AwardedCommitments /\ SumOver(g, Commitments) = AwardedCommitments'
    BY DEF AwardedCommitments, f, g
  <1> QED  BY <1>4, <1>5, <1>6

\* The sums depend on the records alone.
LEMMA PromisesKept ==
  /\ payouts' = payouts => PendingPayouts' = PendingPayouts
  /\ cawards' = cawards => AwardedCommitments' = AwardedCommitments
  BY DEF PendingPayouts, PendingAmount, AwardedCommitments, AwardedAmount
\* The empty escrow has its type.
LEMMA BountyTypeInit == BountyInit => BountyTypeOK
  <1> SUFFICES ASSUME BountyInit  PROVE BountyTypeOK
    OBVIOUS
  <1>1. 0 \in 0 .. MaxTime /\ 0 \in 0 .. MaxPayouts
    BY LedgerConstants, BountyConstants
  <1> QED  BY <1>1 DEF BountyInit, LedgerInit, BountyTypeOK

\* Every entrypoint keeps the type, where it may take out what it takes.
LEMMA BountyTypeStep ==
  ASSUME BountyTypeOK, Booked, reserved = PendingPayouts + AwardedCommitments, BountyNext
  PROVE  BountyTypeOK'
  <1> USE BountyConstants, LedgerConstants DEF pool, records, disclosed
  <1>1. CASE BountyTick
    BY <1>1 DEF BountyTypeOK, BountyTick, LedgerTick
  <1>2. ASSUME NEW a \in Addresses, initialize(a)  PROVE BountyTypeOK'
    BY <1>2 DEF BountyTypeOK, initialize
  <1>3. ASSUME NEW a \in Addresses, set_governance(a)  PROVE BountyTypeOK'
    BY <1>3 DEF BountyTypeOK, set_governance
  <1>4. ASSUME NEW a \in Addresses, Screen(a)  PROVE BountyTypeOK'
    BY <1>4 DEF BountyTypeOK, Screen
  <1>5. ASSUME NEW a \in Addresses, freeze_payout_address(a)  PROVE BountyTypeOK'
    BY <1>5 DEF BountyTypeOK, freeze_payout_address
  <1>6. ASSUME NEW amount \in Fundings, fund(amount)  PROVE BountyTypeOK'
    BY <1>6 DEF BountyTypeOK, fund
  <1>7. ASSUME NEW a \in Addresses, NEW amount \in Amounts, NEW r \in Reports, award(a, amount, r)
        PROVE  BountyTypeOK'
    <2>1. escrow' \in Nat /\ reserved' \in Nat /\ tokenBalance' \in Nat
      BY <1>7 DEF BountyTypeOK, Booked, award, PayOut, available_balance
    <2>2. [researcher |-> a, amount |-> amount] \in AwardRecord
      BY DEF AwardRecord
    <2> QED  BY <1>7, <2>1, <2>2 DEF BountyTypeOK, award, PayOut
  <1>8. ASSUME NEW a \in Addresses, NEW amount \in Amounts, NEW d \in 1 .. MaxTime,
               create_payout(a, amount, d)
        PROVE  BountyTypeOK'
    <2>1. [recipient |-> a, amount |-> amount, deadline |-> d, status |-> "Pending"] \in PayoutRecord
      BY DEF PayoutRecord
    <2>2. reserved' \in Nat
      BY <1>8 DEF BountyTypeOK, create_payout, Reserve
    <2>3. nextPayoutId' \in 0 .. MaxPayouts
      <3>1. nextPayoutId \in 0 .. MaxPayouts - 1 /\ nextPayoutId' = nextPayoutId + 1
        BY <1>8 DEF create_payout, PayoutIds
      <3> QED  BY <3>1
    <2> QED  BY <1>8, <2>1, <2>2, <2>3 DEF BountyTypeOK, create_payout, Reserve
  <1>9. ASSUME NEW id \in PayoutIds, payouts[id] # None, payouts[id].status = "Pending",
               NEW status \in {"Claimed", "Swept"}, Settle(id, status)
        PROVE  BountyTypeOK'
    <2>1. payouts[id] \in PayoutRecord
      BY <1>9 DEF BountyTypeOK
    <2>2. PendingAmount(id) = payouts[id].amount
      BY <1>9 DEF PendingAmount
    <2>3. payouts[id].amount \in Nat /\ payouts[id].amount <= PendingPayouts
          /\ PendingPayouts \in Nat /\ AwardedCommitments \in Nat
      BY <2>2, PromisedType
    <2>4. payouts[id].amount <= reserved /\ payouts[id].amount <= escrow
      BY <2>3 DEF Booked, BountyTypeOK
    <2>5. escrow' \in Nat /\ reserved' \in Nat /\ tokenBalance' \in Nat
      BY <1>9, <2>3, <2>4 DEF BountyTypeOK, Settle, PayOut
    <2>6. [payouts[id] EXCEPT !.status = status] \in PayoutRecord
      BY <1>9, <2>1 DEF PayoutRecord
    <2>7. payouts' = [payouts EXCEPT ![id] = [payouts[id] EXCEPT !.status = status]]
      BY <1>9 DEF Settle
    <2>8. payouts' \in [PayoutIds -> PayoutRecord \cup {None}]
      BY <2>6, <2>7 DEF BountyTypeOK
    <2> QED  BY <1>9, <2>5, <2>8 DEF BountyTypeOK, Settle, PayOut
  <1>10. ASSUME NEW r \in Reports, NEW c \in Commitments, submit_disclosure(r, c)
         PROVE  BountyTypeOK'
    BY <1>10 DEF BountyTypeOK, submit_disclosure
  <1>11. ASSUME NEW c \in Commitments, NEW o \in Addresses, NEW a \in Addresses, Bind(c, o, a)
         PROVE  BountyTypeOK'
    <2>1. now + BINDING_TTL \in Nat
      BY DEF BountyTypeOK
    <2>2. [owner |-> o, payout_address |-> a, expires_at |-> now + BINDING_TTL]
            \in PayoutBindingRecord
      BY <2>1 DEF PayoutBindingRecord
    <2> QED  BY <1>11, <2>2 DEF BountyTypeOK, Bind
  <1>12. ASSUME NEW a \in Addresses, NEW c \in Commitments, rotate_payout_address(c, a)
         PROVE  BountyTypeOK'
    <2>1. bindings[c].owner \in Addresses
      BY <1>12 DEF rotate_payout_address, BountyTypeOK, PayoutBindingRecord
    <2> QED  BY <1>11, <1>12, <2>1 DEF rotate_payout_address
  <1>13. ASSUME NEW r \in Reports, NEW c \in Commitments, NEW amount \in Amounts,
                award_commitment(r, c, amount)
         PROVE  BountyTypeOK'
    <2>1. [report_hash |-> r, amount |-> amount, status |-> "Awarded"] \in CommitmentAwardRecord
      BY DEF CommitmentAwardRecord
    <2>2. reserved' \in Nat
      BY <1>13 DEF BountyTypeOK, award_commitment, Reserve
    <2>3. disclosures' \in [Reports -> Commitments \cup {None}]
      BY <1>13 DEF BountyTypeOK, award_commitment
    <2> QED  BY <1>13, <2>1, <2>2, <2>3 DEF BountyTypeOK, award_commitment, Reserve
  <1>14. ASSUME NEW c \in Commitments, claim_by_commitment(c)  PROVE BountyTypeOK'
    <2> DEFINE r == cawards[c]
    <2>1. r \in CommitmentAwardRecord /\ bindings[c] \in PayoutBindingRecord
      BY <1>14 DEF BountyTypeOK, claim_by_commitment
    <2>2. AwardedAmount(c) = r.amount
      BY <1>14 DEF claim_by_commitment, AwardedAmount
    <2>3. r.amount \in Nat /\ r.amount <= AwardedCommitments
          /\ PendingPayouts \in Nat /\ AwardedCommitments \in Nat
      BY <2>2, PromisedType
    <2>4. r.amount <= reserved /\ r.amount <= escrow
      BY <2>3 DEF Booked, BountyTypeOK
    <2>5. escrow' \in Nat /\ reserved' \in Nat /\ tokenBalance' \in Nat
      BY <1>14, <2>3, <2>4 DEF BountyTypeOK, claim_by_commitment, PayOut
    <2>6. [r EXCEPT !.status = "Claimed"] \in CommitmentAwardRecord
      BY <2>1 DEF CommitmentAwardRecord
    <2>7. cawards' = [cawards EXCEPT ![c] = [r EXCEPT !.status = "Claimed"]]
      BY <1>14 DEF claim_by_commitment
    <2>8. cawards' \in [Commitments -> CommitmentAwardRecord \cup {None}]
      BY <2>6, <2>7 DEF BountyTypeOK
    <2>9. /\ r.report_hash \in Reports
          /\ [researcher |-> bindings[c].payout_address, amount |-> r.amount] \in AwardRecord
      BY <2>1 DEF CommitmentAwardRecord, PayoutBindingRecord, AwardRecord
    <2>10. awards' \in [Reports -> AwardRecord \cup {None}]
      BY <1>14, <2>9 DEF BountyTypeOK, claim_by_commitment
    <2> QED  BY <1>14, <2>5, <2>8, <2>10 DEF BountyTypeOK, claim_by_commitment, PayOut
  <1> QED  BY <1>1, <1>2, <1>3, <1>4, <1>5, <1>6, <1>7, <1>8, <1>9, <1>10, <1>11, <1>12, <1>13, <1>14
           DEF BountyNext, claim, sweep_expired, register_payout_address
\* Nothing is promised to begin with.
LEMMA BountyInvInit == BountyInit => BountyInv /\ Disclosed
  <1> SUFFICES ASSUME BountyInit  PROVE BountyInv /\ Disclosed
    OBVIOUS
  <1>1. BountyTypeOK
    BY BountyTypeInit
  <1>2. Booked /\ Disclosed
    BY DEF BountyInit, Booked, Disclosed, OneCommitmentPerReport
  <1>3. PendingPayouts = 0 /\ AwardedCommitments = 0
    <2> DEFINE f == [p \in PayoutIds |-> PendingAmount(p)]
               g == [c \in Commitments |-> AwardedAmount(c)]
    <2>1. (\A p \in PayoutIds : f[p] = 0) /\ (\A c \in Commitments : g[c] = 0)
      BY DEF BountyInit, PendingAmount, AwardedAmount
    <2> HIDE DEF f, g
    <2>2. SumOver(f, PayoutIds) = 0 /\ SumOver(g, Commitments) = 0
      BY <1>1, <2>1, PromisedType, SumZero
    <2> QED  BY <2>2 DEF PendingPayouts, AwardedCommitments, f, g
  <1> QED  BY <1>1, <1>2, <1>3 DEF BountyInv, BountyInit

\* Every entrypoint changes what is reserved by what it promises or settles.
LEMMA BountyInvStep ==
  ASSUME BountyInv, BountyNext
  PROVE  BountyInv'
  <1> USE DEF pool, records, disclosed
  <1>0. BountyTypeOK /\ Booked /\ reserved = PendingPayouts + AwardedCommitments
    BY DEF BountyInv
  <1>t. BountyTypeOK'
    BY <1>0, BountyTypeStep
  <1>p. /\ PendingPayouts \in Nat /\ AwardedCommitments \in Nat
        /\ escrow \in Nat /\ reserved \in Nat /\ tokenBalance \in Nat
        /\ nextPayoutId \in Nat /\ \A p \in PayoutIds : p \in Nat
    BY <1>0, PromisedType DEF BountyTypeOK, PayoutIds
  \* Steps that touch no promise.
  <1>1. ASSUME UNCHANGED <<payouts, cawards, reserved, nextPayoutId, governance>>,
               escrow' >= reserved, tokenBalance' - escrow' = tokenBalance - escrow,
               governance # None \/ escrow' = escrow
        PROVE  BountyInv'
    <2>1. Booked'
      <3>1. escrow' \in Nat /\ tokenBalance' \in Nat
        BY <1>t DEF BountyTypeOK
      <3>2. escrow' <= tokenBalance' /\ reserved' <= escrow'
        <4>1. escrow <= tokenBalance /\ escrow' >= reserved /\ reserved' = reserved
              /\ tokenBalance' - escrow' = tokenBalance - escrow
          BY <1>0, <1>1 DEF Booked
        <4>2. \A x, y, u, v \in Nat : (u - v = x - y /\ y <= x) => v <= u
          OBVIOUS
        <4> QED  BY <1>p, <3>1, <4>1, <4>2
      <3> QED  BY <1>0, <1>1, <3>2 DEF Booked
    <2> QED  BY <1>0, <1>1, <1>t, <2>1, PromisesKept DEF BountyInv
  <1>2. ASSUME UNCHANGED <<payouts, cawards, reserved, nextPayoutId, governance, escrow, tokenBalance>>
        PROVE  BountyInv'
    BY <1>0, <1>1, <1>2, <1>p DEF Booked
  <1>3. ASSUME NEW a \in Addresses, initialize(a)  PROVE BountyInv'
    <2>1. UNCHANGED <<payouts, cawards, reserved, escrow, tokenBalance>> /\ governance' # None
          /\ nextPayoutId' = 0
      BY <1>0, <1>3, BountyConstants DEF initialize, Booked
    <2>2. Booked'
      BY <1>0, <1>3, <1>p, <2>1 DEF Booked, initialize
    <2> QED  BY <1>0, <1>t, <2>1, <2>2, PromisesKept DEF BountyInv
  <1>4. ASSUME NEW a \in Addresses, set_governance(a)  PROVE BountyInv'
    <2>1. UNCHANGED <<payouts, cawards, reserved, nextPayoutId, escrow, tokenBalance>>
          /\ governance' # None
      BY <1>4, BountyConstants DEF set_governance
    <2> QED  BY <1>0, <1>t, <2>1, PromisesKept DEF BountyInv, Booked
  <1>5. ASSUME NEW amount \in Fundings, fund(amount)  PROVE BountyInv'
    <2>1. amount \in Nat
      BY BountyConstants
    <2>2. /\ UNCHANGED <<payouts, cawards, reserved, nextPayoutId, governance>>
          /\ governance # None /\ escrow' = escrow + amount /\ tokenBalance' = tokenBalance + amount
      BY <1>5 DEF fund
    <2> QED  BY <1>0, <1>1, <1>p, <2>1, <2>2 DEF Booked
  <1>6. ASSUME NEW a \in Addresses, NEW amount \in Amounts, NEW r \in Reports, award(a, amount, r)
        PROVE  BountyInv'
    <2>1. amount \in Nat
      BY BountyConstants
    <2>2. /\ UNCHANGED <<payouts, cawards, nextPayoutId, governance>>
          /\ governance # None /\ escrow' = escrow - amount /\ tokenBalance' = tokenBalance - amount
          /\ reserved' = reserved - 0 /\ amount <= escrow - reserved
      BY <1>6 DEF award, PayOut, available_balance
    <2> QED  BY <1>0, <1>1, <1>p, <2>1, <2>2 DEF Booked
  <1>7. ASSUME NEW a \in Addresses, NEW amount \in Amounts, NEW d \in 1 .. MaxTime,
               create_payout(a, amount, d)
        PROVE  BountyInv'
    <2> DEFINE r == [recipient |-> a, amount |-> amount, deadline |-> d, status |-> "Pending"]
    <2>0. PICK n \in PayoutIds : n = nextPayoutId
      BY <1>7 DEF create_payout
    <2>1. /\ payouts[n] = None /\ governance # None
          /\ amount \in Nat /\ amount <= escrow - reserved
      BY <1>0, <1>7, <1>p, <2>0, BountyConstants DEF create_payout, Reserve, available_balance, Booked
    <2>2. /\ payouts' = [payouts EXCEPT ![n] = r] /\ reserved' = reserved + amount
          /\ UNCHANGED <<cawards, governance, escrow, tokenBalance>> /\ nextPayoutId' = n + 1
      BY <1>7, <2>0 DEF create_payout, Reserve
    <2>3. r \in PayoutRecord
      BY <1>7, LedgerConstants DEF PayoutRecord
    <2>4. payouts'[n] = r /\ (\A p \in PayoutIds : p # n => payouts'[p] = payouts[p])
      BY <1>0, <2>1, <2>2 DEF BountyTypeOK
    <2>5. PendingAmount(n) = 0 /\ PendingAmount(n)' = amount
      BY <2>1, <2>3, <2>4, PayoutFields DEF PendingAmount
    <2>6. PendingPayouts' = PendingPayouts + amount /\ AwardedCommitments' = AwardedCommitments
      BY <1>0, <1>p, <1>t, <2>1, <2>2, <2>4, <2>5, PendingChange, PromisesKept
    <2>7. Booked'
      <3> HIDE DEF r
      <3> QED  BY <1>0, <1>p, <2>0, <2>1, <2>2, <2>4 DEF Booked
    <2> QED  BY <1>0, <1>p, <1>t, <2>1, <2>2, <2>6, <2>7 DEF BountyInv
  <1>8. ASSUME NEW id \in PayoutIds, payouts[id] # None, payouts[id].status = "Pending",
               NEW status \in {"Claimed", "Swept"}, Settle(id, status)
        PROVE  BountyInv'
    <2> DEFINE a == payouts[id].amount
               r == [payouts[id] EXCEPT !.status = status]
    <2>1. payouts[id] \in PayoutRecord /\ r \in PayoutRecord /\ r.status = status /\ a \in Nat
      BY <1>0, <1>8, PayoutFields DEF BountyTypeOK, PayoutRecord
    <2>2. /\ payouts' = [payouts EXCEPT ![id] = r] /\ reserved' = reserved - a
          /\ escrow' = escrow - a /\ tokenBalance' = tokenBalance - a
          /\ UNCHANGED <<cawards, governance, nextPayoutId>>
      BY <1>8 DEF Settle, PayOut
    <2>3. payouts'[id] = r /\ (\A p \in PayoutIds : p # id => payouts'[p] = payouts[p])
      BY <1>0, <2>2 DEF BountyTypeOK
    <2> HIDE DEF r
    <2>4. PendingAmount(id) = a /\ PendingAmount(id)' = 0
      BY <1>8, <2>1, <2>3, PayoutFields DEF PendingAmount
    <2>5. PendingPayouts' = PendingPayouts - a /\ AwardedCommitments' = AwardedCommitments
      BY <1>0, <1>p, <1>t, <2>1, <2>2, <2>3, <2>4, PendingChange, PromisesKept
    <2>6. Booked'
      BY <1>0, <1>8, <1>p, <2>1, <2>2, <2>3 DEF Booked
    <2> QED  BY <1>0, <1>p, <1>t, <2>1, <2>2, <2>5, <2>6 DEF BountyInv
  <1>9. ASSUME NEW r \in Reports, NEW c \in Commitments, NEW amount \in Amounts,
               award_commitment(r, c, amount)
        PROVE  BountyInv'
    <2> DEFINE w == [report_hash |-> r, amount |-> amount, status |-> "Awarded"]
    <2>1. /\ cawards[c] = None /\ governance # None
          /\ amount \in Nat /\ amount <= escrow - reserved
      BY <1>9, BountyConstants DEF award_commitment, Reserve, available_balance
    <2>2. /\ cawards' = [cawards EXCEPT ![c] = w] /\ reserved' = reserved + amount
          /\ UNCHANGED <<payouts, nextPayoutId, governance, escrow, tokenBalance>>
      BY <1>9 DEF award_commitment, Reserve
    <2>3. w \in CommitmentAwardRecord
      BY DEF CommitmentAwardRecord
    <2>4. cawards'[c] = w /\ (\A x \in Commitments : x # c => cawards'[x] = cawards[x])
      BY <1>0, <2>2 DEF BountyTypeOK
    <2>5. AwardedAmount(c) = 0 /\ AwardedAmount(c)' = amount
      BY <2>1, <2>3, <2>4, CommitmentFields DEF AwardedAmount
    <2>6. AwardedCommitments' = AwardedCommitments + amount /\ PendingPayouts' = PendingPayouts
      BY <1>0, <1>p, <1>t, <2>1, <2>2, <2>4, <2>5, AwardedChange, PromisesKept
    <2>7. Booked'
      <3> HIDE DEF w
      <3> QED  BY <1>0, <1>p, <2>1, <2>2, <2>4 DEF Booked
    <2> QED  BY <1>0, <1>p, <1>t, <2>1, <2>2, <2>6, <2>7 DEF BountyInv
  <1>10. ASSUME NEW c \in Commitments, claim_by_commitment(c)  PROVE BountyInv'
    <2> DEFINE a == cawards[c].amount
               w == [cawards[c] EXCEPT !.status = "Claimed"]
    <2>1. cawards[c] # None /\ cawards[c].status = "Awarded"
      BY <1>10 DEF claim_by_commitment
    <2>2. cawards[c] \in CommitmentAwardRecord /\ w \in CommitmentAwardRecord /\ w.status = "Claimed"
          /\ a \in Nat
      BY <1>0, <2>1, CommitmentFields DEF BountyTypeOK, CommitmentAwardRecord
    <2>3. /\ cawards' = [cawards EXCEPT ![c] = w] /\ reserved' = reserved - a
          /\ escrow' = escrow - a /\ tokenBalance' = tokenBalance - a
          /\ UNCHANGED <<payouts, governance, nextPayoutId>>
      BY <1>10 DEF claim_by_commitment, PayOut
    <2>4. cawards'[c] = w /\ (\A x \in Commitments : x # c => cawards'[x] = cawards[x])
      BY <1>0, <2>3 DEF BountyTypeOK
    <2> HIDE DEF w
    <2>5. AwardedAmount(c) = a /\ AwardedAmount(c)' = 0
      BY <2>1, <2>2, <2>4, CommitmentFields DEF AwardedAmount
    <2>6. AwardedCommitments' = AwardedCommitments - a /\ PendingPayouts' = PendingPayouts
      BY <1>0, <1>p, <1>t, <2>2, <2>3, <2>4, <2>5, AwardedChange, PromisesKept
    <2>7. Booked'
      BY <1>0, <1>p, <2>1, <2>2, <2>3, <2>4 DEF Booked
    <2> QED  BY <1>0, <1>p, <1>t, <2>2, <2>3, <2>6, <2>7 DEF BountyInv
  <1> QED  BY <1>2, <1>3, <1>4, <1>5, <1>6, <1>7, <1>8, <1>9, <1>10
           DEF BountyNext, BountyTick, Screen, freeze_payout_address, claim, sweep_expired,
               submit_disclosure, register_payout_address, rotate_payout_address, Bind

\* A commitment is disclosed for one report and marked used.
LEMMA DisclosedStep ==
  ASSUME BountyTypeOK, Disclosed, BountyNext
  PROVE  Disclosed'
  <1> USE BountyConstants DEF pool, records, disclosed, Disclosed, OneCommitmentPerReport
  <1>1. ASSUME UNCHANGED <<disclosures, used, cawards>>  PROVE Disclosed'
    BY <1>1
  <1>2. ASSUME NEW r \in Reports, NEW c \in Commitments, submit_disclosure(r, c)
        PROVE  Disclosed'
    BY <1>2, CommitmentFields DEF submit_disclosure, BountyTypeOK
  <1>3. ASSUME NEW r \in Reports, NEW c \in Commitments, NEW amount \in Amounts,
               award_commitment(r, c, amount)
        PROVE  Disclosed'
    <2>1. /\ cawards'[c].report_hash = r /\ \A x \in Commitments : x # c => cawards'[x] = cawards[x]
          /\ used' = used \cup {c}
      BY <1>3 DEF award_commitment, BountyTypeOK
    <2>2. disclosures'[r] = c /\ \A q \in Reports : q # r => disclosures'[q] = disclosures[q]
      BY <1>3 DEF award_commitment, BountyTypeOK, Matches
    <2>3. disclosures[r] = c \/ (disclosures[r] = None /\ c \notin used)
      BY <1>3 DEF award_commitment, Matches
    <2>4. \A x \in Commitments : cawards[x] # None => cawards[x].report_hash \in Reports
      BY CommitmentFields DEF BountyTypeOK
    <2> QED  BY <2>1, <2>2, <2>3, <2>4
  <1>4. ASSUME NEW c \in Commitments, claim_by_commitment(c)  PROVE Disclosed'
    <2>1. cawards[c] \in CommitmentAwardRecord
      BY <1>4 DEF claim_by_commitment, BountyTypeOK
    <2>2. /\ \A x \in Commitments : cawards'[x].report_hash = cawards[x].report_hash
          /\ \A x \in Commitments : x # c => cawards'[x] = cawards[x]
          /\ cawards[c] # None /\ UNCHANGED <<disclosures, used>>
      BY <1>4, <2>1 DEF claim_by_commitment, BountyTypeOK, CommitmentAwardRecord
    <2> QED  BY <2>2
  <1> QED  BY <1>1, <1>2, <1>3, <1>4
           DEF BountyNext, BountyTick, initialize, set_governance, Screen, fund, award, create_payout,
               freeze_payout_address, claim, sweep_expired, Settle, register_payout_address,
               rotate_payout_address, Bind
\* The invariants hold of every behaviour of the escrow.
LEMMA BountyInvHolds == BountySpec => [](BountyInv /\ Disclosed)
  <1>1. BountyInv /\ Disclosed /\ [BountyNext]_bountyVars => (BountyInv /\ Disclosed)'
    <2> SUFFICES ASSUME BountyInv, Disclosed, [BountyNext]_bountyVars
                 PROVE  (BountyInv /\ Disclosed)'
      OBVIOUS
    <2>1. CASE BountyNext
      BY <2>1, BountyInvStep, DisclosedStep DEF BountyInv
    <2>2. CASE UNCHANGED bountyVars
      BY <2>2, PromisesKept
      DEF bountyVars, pool, records, disclosed, BountyInv, BountyTypeOK, Booked, Disclosed,
          OneCommitmentPerReport
    <2> QED  BY <2>1, <2>2
  <1> QED  BY <1>1, BountyInvInit, PTL DEF BountySpec

(* Whatever is awarded, claimed and swept in whatever order, what the      *)
(* escrow reserves is exactly what may still be claimed, and its tokens    *)
(* cover all of it at once.                                                *)
THEOREM OutstandingAlwaysCovered == BountySpec => []OutstandingCovered
  <1>1. BountyInv => OutstandingCovered
    BY DEF BountyInv, Booked, OutstandingCovered, ReservedExact
  <1> QED  BY <1>1, BountyInvHolds, PTL

(* A report is rewarded under one commitment and a commitment for one      *)
(* report, whichever of submit_disclosure and award_commitment tied them.  *)
THEOREM AlwaysOneCommitment == BountySpec => []OneCommitmentPerReport
  <1>1. Disclosed => OneCommitmentPerReport
    BY DEF Disclosed
  <1> QED  BY <1>1, BountyInvHolds, PTL

(* What was claimed or swept once is never settled again: create_payout    *)
(* and award_commitment overwrite no record.                               *)
THEOREM SettlementsAlwaysFinal == BountySpec => SettlementsFinal
  <1> DEFINE Kept == /\ \A p \in PayoutIds : payouts[p] # None /\ payouts[p].status # "Pending" =>
                          payouts'[p] = payouts[p]
                     /\ \A c \in Commitments : cawards[c] # None /\ cawards[c].status = "Claimed" =>
                          cawards'[c] = cawards[c]
  <1>1. BountyInv /\ [BountyNext]_bountyVars => Kept
    <2> SUFFICES ASSUME BountyInv, [BountyNext]_bountyVars  PROVE Kept
      OBVIOUS
    <2> USE DEF pool, records, disclosed
    <2>0. BountyTypeOK /\ Booked
      BY DEF BountyInv
    <2>1. ASSUME UNCHANGED <<payouts, cawards>>  PROVE Kept
      BY <2>1
    <2>2. ASSUME NEW a, NEW amount, NEW d, create_payout(a, amount, d)  PROVE Kept
      <3>1. nextPayoutId \in PayoutIds /\ payouts[nextPayoutId] = None
        BY <2>0, <2>2 DEF create_payout, Booked, BountyTypeOK, PayoutIds
      <3> QED  BY <2>0, <2>2, <3>1 DEF create_payout, BountyTypeOK
    <2>3. ASSUME NEW id \in PayoutIds, payouts[id].status = "Pending", NEW status, Settle(id, status)
          PROVE  Kept
      BY <2>0, <2>3 DEF Settle, BountyTypeOK
    <2>4. ASSUME NEW r, NEW c \in Commitments, NEW amount, award_commitment(r, c, amount)  PROVE Kept
      BY <2>0, <2>4 DEF award_commitment, BountyTypeOK
    <2>5. ASSUME NEW c \in Commitments, claim_by_commitment(c)  PROVE Kept
      BY <2>0, <2>5 DEF claim_by_commitment, BountyTypeOK
    <2> QED  BY <2>1, <2>2, <2>3, <2>4, <2>5
             DEF BountyNext, BountyTick, initialize, set_governance, Screen, fund, award,
                 freeze_payout_address, claim, sweep_expired, submit_disclosure,
                 register_payout_address, rotate_payout_address, Bind, bountyVars
  <1> QED  BY <1>1, BountyInvHolds, PTL DEF BountySpec, SettlementsFinal

-----------------------------------------------------------------------------
(* The payout registry. *)

\* What the records of a recipient add to the total of an asset.
AssetAt(entries, a) ==
  [k \in DOMAIN entries |-> IF entries[k].asset = a THEN entries[k].amount ELSE 0]

\* The numbers of records by recipient.
Lengths(h) == [p \in Payees |-> Len(h[p])]

\* The reference index and the records point at each other, and the totals add up.
IndexInv ==
  /\ PayoutRegistryTypeOK
  /\ history \in [Payees -> Seq(PayoutEntry)]
  /\ reference \in [References -> (Payees \X Nat) \cup {NoOne}]
  /\ \A ref \in References :
       reference[ref] # NoOne =>
         /\ reference[ref][2] < Len(history[reference[ref][1]])
         /\ history[reference[ref][1]][reference[ref][2] + 1].reference_id = ref
  /\ \A p \in Payees : \A k \in 1 .. Len(history[p]) :
       reference[history[p][k].reference_id] = <<p, k - 1>>
  /\ totalPayouts = SumOver(Lengths(history), Payees)
  /\ \A p \in Payees : \A a \in PaidAssets :
       assetTotal[p][a] = SumOver(AssetAt(history[p], a), DOMAIN history[p])

\* An empty registry adds up.
LEMMA IndexInvInit == PayoutRegistryInit => IndexInv
  <1> SUFFICES ASSUME PayoutRegistryInit  PROVE IndexInv
    OBVIOUS
  <1>1. /\ registryAdmin = NoOne /\ pendingAdmin = NoOne /\ writers = {} /\ totalPayouts = 0
        /\ history = [p \in Payees |-> <<>>] /\ reference = [r \in References |-> NoOne]
        /\ assetTotal = [p \in Payees |-> [a \in PaidAssets |-> 0]]
    BY DEF PayoutRegistryInit
  <1>2. \A p \in Payees : history[p] = <<>> /\ Len(history[p]) = 0 /\ DOMAIN history[p] = {}
    BY <1>1
  <1>3. PayoutRegistryTypeOK
    BY <1>1, <1>2 DEF PayoutRegistryTypeOK
  <1>4. history \in [Payees -> Seq(PayoutEntry)] /\ reference \in [References -> (Payees \X Nat) \cup {NoOne}]
    BY <1>1
  <1>5. SumOver(Lengths(history), Payees) = 0
    <2>1. IsFiniteSet(Payees) /\ \A p \in Payees : Lengths(history)[p] = 0
      BY <1>2, PayoutRegistryConstants DEF Lengths
    <2> QED  BY <2>1, SumZero
  <1>6. \A p \in Payees : \A a \in PaidAssets :
          assetTotal[p][a] = SumOver(AssetAt(history[p], a), DOMAIN history[p])
    <2>1. \A p \in Payees : \A a \in PaidAssets : assetTotal[p][a] = 0
      BY <1>1
    <2>2. \A p \in Payees : \A a \in PaidAssets : SumOver(AssetAt(history[p], a), DOMAIN history[p]) = 0
      BY <1>2, SumEmpty
    <2> QED  BY <2>1, <2>2
  <1> QED  BY <1>1, <1>2, <1>3, <1>4, <1>5, <1>6 DEF IndexInv

\* A payout that is recorded becomes the last record of its recipient, which its reference
\* points to from then on.
LEMMA RecordKeeps ==
  ASSUME IndexInv, NEW w, NEW p \in Payees, NEW asset \in PaidAssets, NEW amount \in PaidAmounts,
         NEW ref \in References, record_payout(w, p, asset, amount, ref)
  PROVE  IndexInv'
  <1> DEFINE entry == [reference_id |-> ref, asset |-> asset, amount |-> amount]
             n == Len(history[p])
  <1>1. /\ reference[ref] = NoOne /\ reference' = [reference EXCEPT ![ref] = <<p, n>>]
        /\ history' = [history EXCEPT ![p] = Append(@, entry)]
        /\ assetTotal' = [assetTotal EXCEPT ![p][asset] = @ + amount]
        /\ totalPayouts' = totalPayouts + 1
        /\ UNCHANGED <<registryAdmin, pendingAdmin, writers>>
    BY DEF record_payout
  <1>2. /\ entry \in PayoutEntry /\ amount \in Nat /\ entry.reference_id = ref
        /\ entry.asset = asset /\ entry.amount = amount
    BY PayoutRegistryConstants DEF PayoutEntry
  <1> HIDE DEF entry
  <1>3. /\ history \in [Payees -> Seq(PayoutEntry)]
        /\ reference \in [References -> (Payees \X Nat) \cup {NoOne}]
        /\ assetTotal \in [Payees -> [PaidAssets -> Nat]] /\ totalPayouts \in Nat
    BY DEF IndexInv, PayoutRegistryTypeOK
  <1>4. /\ history[p] \in Seq(PayoutEntry) /\ n \in Nat /\ DOMAIN history[p] = 1 .. n
        /\ history'[p] = Append(history[p], entry)
        /\ \A q \in Payees \ {p} : history'[q] = history[q]
    BY <1>1, <1>3
  <1>5. /\ history'[p] \in Seq(PayoutEntry) /\ Len(history'[p]) = n + 1
        /\ DOMAIN history'[p] = 1 .. n + 1
        /\ \A k \in 1 .. n : history'[p][k] = history[p][k]
        /\ history'[p][n + 1] = entry
    BY <1>2, <1>4
  <1>6. history' \in [Payees -> Seq(PayoutEntry)]
    BY <1>1, <1>2, <1>3, <1>4, <1>5
  <1>7. /\ reference' \in [References -> (Payees \X Nat) \cup {NoOne}] /\ reference'[ref] = <<p, n>>
        /\ \A r \in References \ {ref} : reference'[r] = reference[r]
    BY <1>1, <1>3, <1>4
  <1>8. /\ assetTotal' \in [Payees -> [PaidAssets -> Nat]]
        /\ assetTotal'[p][asset] = assetTotal[p][asset] + amount /\ assetTotal[p][asset] \in Nat
        /\ \A q \in Payees : \A a \in PaidAssets :
             (q # p \/ a # asset) => assetTotal'[q][a] = assetTotal[q][a]
    <2>1. assetTotal[p][asset] \in Nat /\ assetTotal[p][asset] + amount \in Nat
      BY <1>2, <1>3
    <2> QED  BY <1>1, <1>3, <2>1
  <1>9. PayoutRegistryTypeOK'
    <2>1. \A q \in Payees : \A k \in DOMAIN history'[q] : history'[q][k] \in PayoutEntry
      BY <1>6
    <2>2. totalPayouts' \in Nat
      BY <1>1, <1>3
    <2>3. /\ {registryAdmin, pendingAdmin} \subseteq Principals \cup {NoOne}
          /\ writers \subseteq Principals
      BY DEF IndexInv, PayoutRegistryTypeOK
    <2> QED  BY <1>1, <1>8, <2>1, <2>2, <2>3 DEF PayoutRegistryTypeOK
  <1>10. ASSUME NEW r \in References, reference'[r] # NoOne
         PROVE  /\ reference'[r][2] < Len(history'[reference'[r][1]])
                /\ history'[reference'[r][1]][reference'[r][2] + 1].reference_id = r
    <2>1. CASE r = ref
      BY <1>2, <1>4, <1>5, <1>7, <2>1
    <2>2. CASE r # ref
      <3>1. PICK q, k : q = reference[r][1] /\ k = reference[r][2]
        OBVIOUS
      <3>2. /\ reference[r] # NoOne /\ q \in Payees /\ k \in Nat
            /\ reference'[r][1] = q /\ reference'[r][2] = k
        <4>1. reference[r] # NoOne /\ reference'[r] = reference[r]
          BY <1>7, <1>10, <2>2
        <4>2. reference[r] \in Payees \X Nat
          BY <1>3, <4>1
        <4> QED  BY <3>1, <4>1, <4>2
      <3>3. k < Len(history[q]) /\ history[q][k + 1].reference_id = r
        BY <3>1, <3>2 DEF IndexInv
      <3>4. CASE q = p
        <4>1. k + 1 \in 1 .. n /\ k < n + 1
          BY <1>4, <3>2, <3>3, <3>4
        <4> QED  BY <1>5, <3>2, <3>3, <3>4, <4>1
      <3>5. CASE q # p
        BY <1>4, <3>2, <3>3, <3>5
      <3> QED  BY <3>4, <3>5
    <2> QED  BY <2>1, <2>2
  <1>11. ASSUME NEW q \in Payees, NEW k \in 1 .. Len(history'[q])
         PROVE  reference'[history'[q][k].reference_id] = <<q, k - 1>>
    <2>1. CASE q = p /\ k = n + 1
      <3>1. history'[q][k].reference_id = ref /\ k - 1 = n
        BY <1>2, <1>4, <1>5, <2>1
      <3> QED  BY <1>7, <2>1, <3>1
    <2>2. CASE ~ (q = p /\ k = n + 1)
      <3>1. k \in 1 .. Len(history[q]) /\ history'[q][k] = history[q][k]
        <4>1. CASE q = p
          <5>1. k \in 1 .. n
            <6>1. k \in 1 .. n + 1 /\ k # n + 1
              BY <1>5, <2>2, <4>1
            <6>2. n \in Nat
              BY <1>4
            <6> HIDE DEF n
            <6> QED  BY <6>1, <6>2
          <5>2. history'[p][k] = history[p][k]
            BY <1>5, <5>1
          <5> QED  BY <4>1, <5>1, <5>2
        <4>2. CASE q # p
          BY <1>4, <4>2
        <4> QED  BY <4>1, <4>2
      <3>2. reference[history[q][k].reference_id] = <<q, k - 1>>
        BY <3>1 DEF IndexInv
      <3>3. history[q][k].reference_id \in References
        <4>1. history[q][k] \in PayoutEntry
          BY <1>3, <3>1
        <4> QED  BY <4>1 DEF PayoutEntry
      <3>4. <<q, k - 1>> # NoOne
        <4>1. k - 1 \in Nat
          BY <3>1, <1>3
        <4> QED  BY <4>1, PayoutRegistryConstants
      <3>5. history[q][k].reference_id # ref
        BY <1>1, <3>2, <3>4
      <3> QED  BY <1>7, <3>1, <3>2, <3>3, <3>5
    <2> QED  BY <2>1, <2>2
  <1>12. totalPayouts' = SumOver(Lengths(history'), Payees)
    <2> DEFINE f == Lengths(history)
               g == Lengths(history')
    <2>1. /\ \A q \in Payees : f[q] \in Int
          /\ \A q \in Payees \ {p} : g[q] = f[q]
          /\ f[p] = n /\ g[p] = n + 1 /\ g[p] \in Int /\ IsFiniteSet(Payees)
      <3>1. f = [q \in Payees |-> Len(history[q])] /\ g = [q \in Payees |-> Len(history'[q])]
        BY DEF Lengths
      <3> HIDE DEF f, g
      <3>2. \A q \in Payees : f[q] \in Int
        <4>1. \A q \in Payees : Len(history[q]) \in Nat
          BY <1>3
        <4> QED  BY <3>1, <4>1
      <3>3. \A q \in Payees \ {p} : g[q] = f[q]
        BY <1>4, <3>1
      <3>4. f[p] = n /\ g[p] = n + 1 /\ n \in Nat
        BY <1>4, <1>5, <3>1
      <3>5. g[p] \in Int
        BY <3>4
      <3> QED  BY <3>2, <3>3, <3>4, <3>5, PayoutRegistryConstants
    <2>2. totalPayouts = SumOver(f, Payees) /\ SumOver(f, Payees) \in Int
      BY <1>3 DEF IndexInv
    <2> HIDE DEF f, g
    <2>3. SumOver(g, Payees) = SumOver(f, Payees) - f[p] + g[p]
      BY <2>1, SumChange
    <2>4. SumOver(g, Payees) = totalPayouts + 1
      BY <1>4, <2>1, <2>2, <2>3
    <2> QED  BY <1>1, <2>4 DEF g
  <1>13. ASSUME NEW q \in Payees, NEW a \in PaidAssets
         PROVE  assetTotal'[q][a] = SumOver(AssetAt(history'[q], a), DOMAIN history'[q])
    <2>1. assetTotal[q][a] = SumOver(AssetAt(history[q], a), DOMAIN history[q])
      BY DEF IndexInv
    <2>2. CASE q # p
      BY <1>4, <1>8, <2>1, <2>2
    <2>3. CASE q = p
      <3> DEFINE f == AssetAt(history[p], a)
                 g == AssetAt(history'[p], a)
      <3>1. /\ \A k \in 1 .. n : g[k] = f[k]
            /\ g[n + 1] = IF asset = a THEN amount ELSE 0
        BY <1>2, <1>4, <1>5 DEF AssetAt
      <3>2. \A k \in 1 .. n + 1 : g[k] \in Int
        <4> SUFFICES ASSUME NEW k \in 1 .. n + 1  PROVE g[k] \in Int
          OBVIOUS
        <4>1. history'[p][k] \in PayoutEntry
          BY <1>5
        <4>2. history'[p][k].amount \in Int
          BY <4>1, PayoutRegistryConstants DEF PayoutEntry
        <4> QED  BY <1>5, <4>2 DEF AssetAt
      <3> HIDE DEF f, g
      <3>3. SumOver(g, 1 .. n + 1) = SumOver(f, 1 .. n) + g[n + 1]
        BY <1>4, <3>1, <3>2, SumNext
      <3>4. assetTotal[p][a] = SumOver(f, 1 .. n) /\ assetTotal[p][a] \in Nat
        BY <1>3, <1>4, <2>1, <2>3 DEF f
      <3>5. assetTotal'[p][a] = SumOver(g, 1 .. n + 1)
        BY <1>2, <1>8, <3>1, <3>3, <3>4
      <3> QED  BY <1>5, <2>3, <3>5 DEF g
    <2> QED  BY <2>2, <2>3
  <1> QED  BY <1>6, <1>7, <1>9, <1>10, <1>11, <1>12, <1>13 DEF IndexInv

\* Every call keeps the registry exact: a replayed reference is no step, and the administration
\* does not touch the index.
LEMMA IndexInvStep == IndexInv /\ [PayoutRegistryNext]_payoutRegistryVars => IndexInv'
  <1> SUFFICES ASSUME IndexInv, [PayoutRegistryNext]_payoutRegistryVars  PROVE IndexInv'
    OBVIOUS
  <1>1. ASSUME UNCHANGED index, {registryAdmin', pendingAdmin'} \subseteq Principals \cup {NoOne},
               writers' \subseteq Principals
        PROVE  IndexInv'
    BY <1>1 DEF IndexInv, PayoutRegistryTypeOK, index
  <1>2. /\ {registryAdmin, pendingAdmin} \subseteq Principals \cup {NoOne}
        /\ writers \subseteq Principals
    BY DEF IndexInv, PayoutRegistryTypeOK
  <1>3. ASSUME NEW a \in Principals, NEW b \in Principals,
               \/ registry_initialize(a) \/ propose_admin(a, b) \/ accept_admin(a)
               \/ register_writer(a, b) \/ deregister_writer(a, b)
        PROVE  IndexInv'
    <2>1. /\ UNCHANGED index /\ {registryAdmin', pendingAdmin'} \subseteq Principals \cup {NoOne}
          /\ writers' \subseteq Principals
      BY <1>2, <1>3
         DEF registry_initialize, propose_admin, accept_admin, register_writer, deregister_writer
    <2> QED  BY <1>1, <2>1
  <1>4. CASE UNCHANGED payoutRegistryVars
    BY <1>1, <1>2, <1>4 DEF payoutRegistryVars
  <1> QED  BY <1>3, <1>4, RecordKeeps DEF PayoutRegistryNext

\* A page is what follows its start, cut at the page size, and is empty only at the end.
LEMMA PageFacts ==
  ASSUME NEW S, NEW h \in Seq(S), NEW start \in 0 .. Len(h), NEW size \in Nat \ {0}
  PROVE  LET end == IF start + size < Len(h) THEN start + size ELSE Len(h)
             page == SubSeq(h, start + 1, end)
         IN /\ page = <<>> => start = Len(h)
            /\ IsPrefix(page, SubSeq(h, start + 1, Len(h)))
            /\ Len(page) <= size
  <1> DEFINE end == IF start + size < Len(h) THEN start + size ELSE Len(h)
             page == SubSeq(h, start + 1, end)
             all == SubSeq(h, start + 1, Len(h))
  <1>1. /\ Len(h) \in Nat /\ end \in Nat /\ start <= end /\ end <= Len(h) /\ end <= start + size
        /\ end = start => start = Len(h)
    BY LenProperties
  <1> HIDE DEF end
  <1>2. \A i \in start + 1 .. Len(h) : h[i] \in S
    BY <1>1
  <1>3. /\ page \in Seq(S) /\ Len(page) = end - start
        /\ \A i \in 1 .. end - start : page[i] = h[start + i]
    <2>1. /\ page \in Seq(S) /\ Len(page) = IF start + 1 <= end THEN end - (start + 1) + 1 ELSE 0
          /\ \A i \in 1 .. end - (start + 1) + 1 : page[i] = h[start + 1 + i - 1]
      BY <1>1, <1>2, SubSeqProperties
    <2> QED  BY <1>1, <2>1
  <1>4. /\ all \in Seq(S) /\ Len(all) = Len(h) - start
        /\ \A i \in 1 .. Len(h) - start : all[i] = h[start + i]
    <2>1. /\ all \in Seq(S) /\ Len(all) = IF start + 1 <= Len(h) THEN Len(h) - (start + 1) + 1 ELSE 0
          /\ \A i \in 1 .. Len(h) - (start + 1) + 1 : all[i] = h[start + 1 + i - 1]
      BY <1>1, <1>2, SubSeqProperties
    <2> QED  BY <1>1, <2>1
  <1> HIDE DEF page, all
  <1>5. SubSeq(page, 1, Len(page)) = page
    BY <1>3, SubSeqFull
  <1>6. page = SubSeq(all, 1, Len(page))
    <2> DEFINE cut == SubSeq(all, 1, Len(page))
    <2>1. /\ cut \in Seq(S) /\ Len(cut) = Len(page) /\ \A i \in 1 .. Len(page) : cut[i] = all[i]
      <3>1. Len(page) \in Nat /\ \A i \in 1 .. Len(page) : all[i] \in S
        BY <1>1, <1>3, <1>4
      <3> QED  BY <3>1, SubSeqProperties
    <2> HIDE DEF cut
    <2>2. \A i \in 1 .. Len(page) : cut[i] = page[i]
      BY <1>1, <1>3, <1>4, <2>1
    <2>3. cut = page
      BY <1>3, <2>1, <2>2, SeqEqual
    <2> QED  BY <2>3 DEF cut
  <1>7. IsPrefix(page, all)
    BY <1>1, <1>3, <1>4, <1>5, <1>6 DEF IsPrefix
  <1>8. page = <<>> => start = Len(h)
    BY <1>1, <1>3
  <1>9. Len(page) <= size
    BY <1>1, <1>3
  <1> QED  BY <1>7, <1>8, <1>9 DEF page, all, end

\* For every instance: however calls are retried and writers and administrators change, a reference
\* has one record, found where its index points, the totals are what the records add up to, and the
\* pages of a history list every record once (payout_registry/src/lib.rs).
THEOREM IndexAlwaysExact == PayoutRegistrySpec => []IndexExact
  <1>1. IndexInv => IndexExact
    <2> SUFFICES ASSUME IndexInv  PROVE IndexExact
      OBVIOUS
    <2>0. /\ history \in [Payees -> Seq(PayoutEntry)]
          /\ reference \in [References -> (Payees \X Nat) \cup {NoOne}]
          /\ \A p \in Payees : history[p] \in Seq(PayoutEntry) /\ Len(history[p]) \in Nat
      BY DEF IndexInv
    <2>1. \A p \in Payees : Len(history[p]) <= totalPayouts
      <3>1. \A p \in Payees : Lengths(history)[p] = Len(history[p]) /\ Lengths(history)[p] \in Nat
        BY <2>0 DEF Lengths
      <3>2. IsFiniteSet(Payees) /\ totalPayouts = SumOver(Lengths(history), Payees)
        BY PayoutRegistryConstants DEF IndexInv
      <3> QED  BY <3>1, <3>2, SumAtLeast
    <2>2. ASSUME NEW ref \in References
          PROVE  {at \in Payees \X (0 .. totalPayouts) :
                    at[2] < Len(history[at[1]]) /\ history[at[1]][at[2] + 1].reference_id = ref}
                   = IF reference[ref] = NoOne THEN {} ELSE {reference[ref]}
      <3> DEFINE found == {at \in Payees \X (0 .. totalPayouts) :
                             at[2] < Len(history[at[1]]) /\ history[at[1]][at[2] + 1].reference_id = ref}
      <3>1. ASSUME NEW p \in Payees, NEW k \in 0 .. totalPayouts,
                   k < Len(history[p]), history[p][k + 1].reference_id = ref
            PROVE  reference[ref] = <<p, k>> /\ reference[ref] # NoOne
        <4>1. k + 1 \in 1 .. Len(history[p]) /\ k \in Nat /\ (k + 1) - 1 = k
          BY <2>0, <3>1
        <4>2. reference[ref] = <<p, k>>
          BY <3>1, <4>1 DEF IndexInv
        <4> QED  BY <4>1, <4>2, PayoutRegistryConstants
      <3>2. CASE reference[ref] = NoOne
        <4>1. found = {}
          BY <3>1, <3>2
        <4> QED  BY <3>2, <4>1
      <3>3. CASE reference[ref] # NoOne
        <4>1. PICK p, k : p = reference[ref][1] /\ k = reference[ref][2]
          OBVIOUS
        <4>2. p \in Payees /\ k \in Nat /\ reference[ref] = <<p, k>>
          <5>1. reference[ref] \in Payees \X Nat
            BY <2>0, <3>3
          <5> QED  BY <4>1, <5>1
        <4>3. k < Len(history[p]) /\ history[p][k + 1].reference_id = ref /\ k \in 0 .. totalPayouts
          <5>1. k < Len(history[p]) /\ history[p][k + 1].reference_id = ref
            BY <3>3, <4>1 DEF IndexInv
          <5>2. totalPayouts \in Nat
            BY DEF IndexInv, PayoutRegistryTypeOK
          <5> QED  BY <2>0, <2>1, <4>2, <5>1, <5>2
        <4>4. <<p, k>> \in found
          BY <4>2, <4>3
        <4>5. \A x \in found : x = <<p, k>>
          BY <3>1, <4>2
        <4>6. found = {<<p, k>>}
          <5> HIDE DEF found
          <5> QED  BY <4>4, <4>5
        <4> QED  BY <3>3, <4>2, <4>6
      <3> QED  BY <3>2, <3>3
    <2>3. PagesComplete
      <3> SUFFICES ASSUME NEW p \in Payees, NEW start \in 0 .. Len(history[p]),
                          NEW limit \in 1 .. MAX_PAGE_SIZE + 1
                   PROVE  LET page == get_payout_history(p, start, limit) IN
                          /\ page = <<>> => start = Len(history[p])
                          /\ IsPrefix(page, SubSeq(history[p], start + 1, Len(history[p])))
                          /\ Len(page) <= MAX_PAGE_SIZE
        BY DEF PagesComplete
      <3> DEFINE size == IF limit < MAX_PAGE_SIZE THEN limit ELSE MAX_PAGE_SIZE
                 page == get_payout_history(p, start, limit)
      <3>1. size \in Nat \ {0} /\ size <= MAX_PAGE_SIZE /\ MAX_PAGE_SIZE \in Nat
        BY PayoutRegistryConstants
      <3>2. page = LET end == IF start + size < Len(history[p]) THEN start + size ELSE Len(history[p])
                   IN SubSeq(history[p], start + 1, end)
        BY DEF get_payout_history
      <3> HIDE DEF size, page
      <3>3. /\ page = <<>> => start = Len(history[p])
            /\ IsPrefix(page, SubSeq(history[p], start + 1, Len(history[p])))
            /\ Len(page) <= size
        BY <2>0, <3>1, <3>2, PageFacts
      <3>4. Len(page) <= MAX_PAGE_SIZE
        <4>1. Len(page) \in Int
          <5>1. IsPrefix(page, SubSeq(history[p], start + 1, Len(history[p])))
            BY <3>3
          <5>2. page \in Seq(PayoutEntry)
            <6>1. \A i \in start + 1 .. Len(history[p]) : history[p][i] \in PayoutEntry
              BY <2>0
            <6> QED  BY <2>0, <3>1, <3>2, <6>1, SubSeqProperties
          <5> QED  BY <5>2, LenProperties
        <4> QED  BY <3>1, <3>3, <4>1
      <3> QED  BY <3>3, <3>4 DEF page
    <2>4. /\ totalPayouts = SumOver([p \in Payees |-> Len(history[p])], Payees)
          /\ \A p \in Payees, a \in PaidAssets :
               assetTotal[p][a] =
                 SumOver([k \in DOMAIN history[p] |->
                            IF history[p][k].asset = a THEN history[p][k].amount ELSE 0],
                         DOMAIN history[p])
      BY DEF IndexInv, Lengths, AssetAt
    <2> QED  BY <2>2, <2>3, <2>4 DEF IndexExact, IndexInv
  <1> QED  BY <1>1, IndexInvInit, IndexInvStep, PTL DEF PayoutRegistrySpec

=============================================================================
