--------------------------- MODULE WithdrawalQueue ---------------------------
(***************************************************************************)
(* The withdrawal queue under capital lockdown                             *)
(* (shared/src/withdrawal_queue.rs): requests in the order they were made, *)
(* filled in rounds by their share of the capital available.  The time of  *)
(* a request is recorded and read by nothing; the product                  *)
(* shares * available is taken to fit an i128.                             *)
(***************************************************************************)
EXTENDS SequencesExt, Collections

CONSTANTS
    QueueStakers,
    QueueShares,     \* shares asked for
    QueueCapital,    \* capital available in a round
    MaxQueued        \* bound: requests ever made

ASSUME WithdrawalQueueConstants ==
    QueueShares \subseteq Nat \ {0} /\ QueueCapital \subseteq Nat /\ MaxQueued \in Nat

VARIABLES
    requests,   \* WithdrawalQueue::requests, oldest first
    \* history: by id, who asked for how much, what was filled, what was cancelled
    asked, filled,
    round       \* the last round: what was available, what was filled, what was waiting

queueVars == <<requests, asked, filled, round>>

QueueInit ==
    /\ requests = <<>> /\ asked = <<>> /\ filled = <<>>
    /\ round = [available |-> 0, paid |-> 0, waiting |-> 0]

\* next_id counts the requests ever made.
request(staker, shares) ==
    LET id == Len(asked) + 1 IN
    /\ id <= MaxQueued
    /\ requests' = Append(requests, [id |-> id, staker |-> staker, shares |-> shares])
    /\ asked' = Append(asked, [staker |-> staker, shares |-> shares, cancelled |-> 0])
    /\ filled' = Append(filled, 0)
    /\ UNCHANGED round

total_requested == SumOver([k \in DOMAIN requests |-> requests[k].shares], DOMAIN requests)

\* Only the staker who made the request may cancel what is left of it.
cancel(staker, k) ==
    /\ requests[k].staker = staker
    /\ requests' = RemoveAt(requests, k)
    /\ asked' = [asked EXCEPT ![requests[k].id].cancelled = requests[k].shares]
    /\ UNCHANGED <<filled, round>>

\* What one request gets out of a round.
Fill(r, available) ==
    IF available >= total_requested THEN r.shares
    ELSE (r.shares * available) \div total_requested

fill_pro_rata(available) ==
    LET fill == [k \in DOMAIN requests |-> Fill(requests[k], available)]
        Filled(id) == SumOver([k \in DOMAIN requests |-> IF requests[k].id = id THEN fill[k] ELSE 0],
                              DOMAIN requests)
    IN /\ available > 0 /\ total_requested # 0
       /\ requests' = IF available >= total_requested THEN <<>>
                      ELSE [k \in DOMAIN requests |->
                              [requests[k] EXCEPT !.shares = @ - fill[k]]]
       /\ filled' = [id \in DOMAIN filled |-> filled[id] + Filled(id)]
       /\ round' = [available |-> available, waiting |-> total_requested,
                    paid |-> SumOver(fill, DOMAIN requests)]
       /\ UNCHANGED asked

QueueNext ==
    \/ \E s \in QueueStakers, shares \in QueueShares : request(s, shares)
    \/ \E s \in QueueStakers : \E k \in DOMAIN requests : cancel(s, k)
    \/ \E available \in QueueCapital : fill_pro_rata(available)

-----------------------------------------------------------------------------
Waiting(id) ==
    SumOver([k \in DOMAIN requests |-> IF requests[k].id = id THEN requests[k].shares ELSE 0],
            DOMAIN requests)

\* "The fills never add up to more than the capital available. The unfilled part stays queued"
\* (withdrawal_queue.rs): over any rounds and cancellations nothing asked for is lost or paid twice, a
\* round pays no more than it had and fails to pay less than one share per request waiting, no
\* request with nothing left stays in the queue, and the queue keeps the order of the requests.
QueueExact ==
    /\ \A id \in DOMAIN asked :
         filled[id] + Waiting(id) + asked[id].cancelled = asked[id].shares
    /\ \A k \in DOMAIN requests :
         /\ requests[k].shares > 0
         /\ \A j \in 1 .. k - 1 : requests[j].id < requests[k].id
    /\ round.paid <= round.available
    /\ round.waiting > 0 => round.paid + MaxQueued > Min({round.available, round.waiting})
=============================================================================
