------------------------------ MODULE Treasury ------------------------------
(***************************************************************************)
(* RefractTreasury (treasury/src/lib.rs, treasury/src/payments.rs): token  *)
(* custody with a recipient allowlist, payment requests that the admin     *)
(* approves and executes, and capital seeded to the backstop and recalled. *)
(* The NAV snapshots of the same contract are in NavSnapshots.             *)
(*                                                                         *)
(* The admin never changes.  A token transfer fails without enough balance *)
(* and a failed call leaves no trace.  recall_seed moves tokens out of the *)
(* backstop's address, which the token contract permits only when that     *)
(* address authorises the call; a refused transfer is no step.  What else  *)
(* happens at a backstop is external: it holds the tokens of others, and   *)
(* loses tokens to drawdowns.                                              *)
(***************************************************************************)
EXTENDS LedgerClock, Collections

CONSTANTS
    Accounts,      \* requesters, payees and recipients
    Admin,         \* DataKey::Admin, one of the accounts
    Tokens,        \* token contracts
    PayAmounts,    \* arguments of the entrypoints
    Backstops,     \* values of DataKey::Backstop
    MaxRequests, MaxDeposit,   \* bounds of the model: requests, tokens deposited,
    MaxOthers                  \* tokens of others at the backstops

ASSUME TreasuryConstants ==
    /\ Admin \in Accounts
    /\ PayAmounts \subseteq Nat \ {0}
    /\ MaxRequests \in Nat /\ MaxDeposit \in Nat /\ MaxOthers \in Nat
    /\ IsFiniteSet(Tokens) /\ IsFiniteSet(Backstops)
    /\ None \notin Accounts \cup Backstops

VARIABLES
    held,          \* tokens the token contracts hold for the treasury
    backstopHeld,  \* tokens they hold for the addresses in Backstops
    backstop,      \* DataKey::Backstop
    seeded,        \* DataKey::SeededCapital
    screening,     \* DataKey::RecipientStatus(recipient)
    requests,      \* DataKey::Request(id)
    nextRequestId, \* DataKey::NextRequestId
    deposited,     \* history: tokens that came in from outside
    spent,         \* history: tokens paid out by withdraw and by requests
    seedsOut,      \* history: tokens seeded to backstops less tokens recalled from them
    others,        \* history: tokens others brought to the backstops less what left them
                   \* for anywhere but the treasury
    received       \* history: amount paid under a request id

tokens == <<held, backstopHeld, deposited, spent, seedsOut, others>>
paying == <<requests, nextRequestId, received>>
seeding == <<backstop, seeded>>
treasuryVars == <<tokens, paying, seeding, screening>>

RequestIds == 0 .. MaxRequests - 1
PaymentStatus == {"Submitted", "Approved", "Rejected", "Cancelled", "Executed"}
PaymentRequest == [requester : Accounts, payee : Accounts, token : Tokens, amount : PayAmounts,
                   status : PaymentStatus, approver : Accounts \cup {None}]

ASSUME AbsentRequest == None \notin PaymentRequest

TreasuryInit ==
    /\ held = [t \in Tokens |-> 0]
    /\ backstopHeld = [b \in Backstops |-> [t \in Tokens |-> 0]]
    /\ backstop = None
    /\ seeded = 0
    /\ screening = [a \in Accounts |-> None]
    /\ requests = [i \in RequestIds |-> None]
    /\ nextRequestId = 0
    /\ deposited = [t \in Tokens |-> 0]
    /\ spent = [t \in Tokens |-> 0]
    /\ seedsOut = [t \in Tokens |-> 0]
    /\ others = [t \in Tokens |-> 0]
    /\ received = [i \in RequestIds |-> 0]

set_backstop(b) ==
    /\ backstop' = b
    /\ UNCHANGED <<tokens, paying, seeded, screening>>

\* A plain token transfer to the contract: there is no deposit entrypoint.
Deposit(t, amount) ==
    /\ deposited[t] + amount <= MaxDeposit
    /\ held' = [held EXCEPT ![t] = @ + amount]
    /\ deposited' = [deposited EXCEPT ![t] = @ + amount]
    /\ UNCHANGED <<backstopHeld, spent, seedsOut, others, paying, seeding, screening>>

is_allowed_inner(to) == screening[to] = "Allowed"

withdraw(t, amount, to) ==
    /\ is_allowed_inner(to)
    /\ amount <= held[t]
    /\ held' = [held EXCEPT ![t] = @ - amount]
    /\ spent' = [spent EXCEPT ![t] = @ + amount]
    /\ UNCHANGED <<backstopHeld, deposited, seedsOut, others, paying, seeding, screening>>

\* allow_recipient, block_recipient and remove_recipient.
screen_recipient(a, status) ==
    /\ screening' = [screening EXCEPT ![a] = status]
    /\ UNCHANGED <<tokens, paying, seeding>>

\* Mutant: the seed is booked over the earlier one.
seed_backstopOverwrite(t, amount) ==
    /\ backstop # None
    /\ amount <= held[t]
    /\ held' = [held EXCEPT ![t] = @ - amount]
    /\ backstopHeld' = [backstopHeld EXCEPT ![backstop][t] = @ + amount]
    /\ seedsOut' = [seedsOut EXCEPT ![t] = @ + amount]
    /\ seeded' = amount
    /\ UNCHANGED <<deposited, spent, others, paying, backstop, screening>>

seed_backstop(t, amount) ==
    /\ backstop # None
    /\ amount <= held[t]
    /\ held' = [held EXCEPT ![t] = @ - amount]
    /\ backstopHeld' = [backstopHeld EXCEPT ![backstop][t] = @ + amount]
    /\ seedsOut' = [seedsOut EXCEPT ![t] = @ + amount]
    /\ seeded' = seeded + amount
    /\ UNCHANGED <<deposited, spent, others, paying, backstop, screening>>

\* One counter limits the recalls of every token, from whichever backstop is set.
recall_seed(t, amount) ==
    /\ amount <= seeded
    /\ backstop # None
    /\ amount <= backstopHeld[backstop][t]
    /\ backstopHeld' = [backstopHeld EXCEPT ![backstop][t] = @ - amount]
    /\ seedsOut' = [seedsOut EXCEPT ![t] = @ - amount]
    /\ held' = [held EXCEPT ![t] = @ + amount]
    /\ seeded' = seeded - amount
    /\ UNCHANGED <<deposited, spent, others, paying, backstop, screening>>

\* External: tokens come to a backstop, or leave it for the pool or for stakers.
BackstopMoves(b, t, amount) ==
    /\ \/ /\ others[t] + amount <= MaxOthers
          /\ backstopHeld' = [backstopHeld EXCEPT ![b][t] = @ + amount]
          /\ others' = [others EXCEPT ![t] = @ + amount]
       \/ /\ amount <= backstopHeld[b][t]
          /\ backstopHeld' = [backstopHeld EXCEPT ![b][t] = @ - amount]
          /\ others' = [others EXCEPT ![t] = @ - amount]
    /\ UNCHANGED <<held, deposited, spent, seedsOut, paying, seeding, screening>>

submit_payment_request(requester, payee, t, amount) ==
    /\ nextRequestId \in RequestIds
    /\ requests' = [requests EXCEPT ![nextRequestId] =
          [requester |-> requester, payee |-> payee, token |-> t, amount |-> amount,
           status |-> "Submitted", approver |-> None]]
    /\ nextRequestId' = nextRequestId + 1
    /\ UNCHANGED <<received, tokens, seeding, screening>>

InStatus(i, status) == requests[i] # None /\ requests[i].status = status

approve_payment_request(i) ==
    /\ InStatus(i, "Submitted")
    /\ requests[i].requester # Admin
    /\ requests' = [requests EXCEPT ![i].status = "Approved", ![i].approver = Admin]
    /\ UNCHANGED <<nextRequestId, received, tokens, seeding, screening>>

reject_payment_request(i) ==
    /\ InStatus(i, "Submitted")
    /\ requests' = [requests EXCEPT ![i].status = "Rejected"]
    /\ UNCHANGED <<nextRequestId, received, tokens, seeding, screening>>

cancel_payment_request(caller, i) ==
    /\ InStatus(i, "Submitted")
    /\ requests[i].requester = caller
    /\ requests' = [requests EXCEPT ![i].status = "Cancelled"]
    /\ UNCHANGED <<nextRequestId, received, tokens, seeding, screening>>

\* Mutant: the request is paid and its status left as it is.
execute_payment_requestUnmarked(i) ==
    /\ InStatus(i, "Approved")
    /\ LET r == requests[i] IN
         /\ r.amount <= held[r.token]
         /\ held' = [held EXCEPT ![r.token] = @ - r.amount]
         /\ spent' = [spent EXCEPT ![r.token] = @ + r.amount]
         /\ received' = [received EXCEPT ![i] = @ + r.amount]
    /\ UNCHANGED <<requests, backstopHeld, deposited, seedsOut, others, nextRequestId, seeding, screening>>

\* The status is stored before the transfer; a transfer that fails undoes it.
\* No call re-enters, so the reentrancy lock is free whenever a call starts.
execute_payment_request(i) ==
    /\ InStatus(i, "Approved")
    /\ requests[i].requester # Admin
    /\ LET r == requests[i] IN
         /\ r.amount <= held[r.token]
         /\ requests' = [requests EXCEPT ![i].status = "Executed"]
         /\ held' = [held EXCEPT ![r.token] = @ - r.amount]
         /\ spent' = [spent EXCEPT ![r.token] = @ + r.amount]
         /\ received' = [received EXCEPT ![i] = @ + r.amount]
    /\ UNCHANGED <<backstopHeld, deposited, seedsOut, others, nextRequestId, seeding, screening>>

TreasuryNext ==
    \/ \E b \in Backstops : set_backstop(b)
    \/ \E t \in Tokens, amount \in PayAmounts :
         \/ Deposit(t, amount)
         \/ \E to \in Accounts : withdraw(t, amount, to)
         \/ seed_backstop(t, amount)
         \/ recall_seed(t, amount)
         \/ \E b \in Backstops : BackstopMoves(b, t, amount)
         \/ \E r, p \in Accounts : submit_payment_request(r, p, t, amount)
    \/ \E a \in Accounts, s \in {"Allowed", "Blocked", None} : screen_recipient(a, s)
    \/ \E i \in RequestIds :
         \/ approve_payment_request(i)
         \/ reject_payment_request(i)
         \/ \E c \in Accounts : cancel_payment_request(c, i)
         \/ execute_payment_request(i)

TreasurySpec == TreasuryInit /\ [][TreasuryNext]_treasuryVars

-----------------------------------------------------------------------------
TreasuryTypeOK ==
    /\ held \in [Tokens -> Nat]
    /\ backstopHeld \in [Backstops -> [Tokens -> Nat]]
    /\ backstop \in Backstops \cup {None}
    /\ seeded \in Nat
    /\ screening \in [Accounts -> {"Allowed", "Blocked", None}]
    /\ requests \in [RequestIds -> PaymentRequest \cup {None}]
    /\ nextRequestId \in 0 .. MaxRequests
    /\ \A i \in RequestIds : requests[i] # None <=> i < nextRequestId
    /\ deposited \in [Tokens -> Nat]
    /\ spent \in [Tokens -> Nat]
    /\ seedsOut \in [Tokens -> Int]
    /\ others \in [Tokens -> Int]
    /\ received \in [RequestIds -> Nat]

(* Four eyes (payments.rs:3-6): what was paid under a request is its       *)
(* amount, once, and somebody other than its requester had approved it;    *)
(* requests that were rejected or cancelled are never paid.                *)
PaidAsApproved ==
    \A i \in RequestIds :
      \/ requests[i] = None /\ received[i] = 0
      \/ /\ requests[i] # None
         /\ received[i] = IF requests[i].status = "Executed" THEN requests[i].amount ELSE 0
         /\ requests[i].status \in {"Approved", "Executed"} <=> requests[i].approver # None
         /\ requests[i].approver # requests[i].requester

\* The tokens of one kind that lie at the backstops.
AtBackstops(where, t) == SumOver([b \in Backstops |-> where[b][t]], Backstops)

(* Custody (lib.rs:558-653, 777-811): through every order of deposits,     *)
(* withdrawals, seeds, recalls and payments, across tokens, changes of the *)
(* backstop, and whatever others bring there and drawdowns take, each      *)
(* token is held, spent or seeded and not recalled; the backstops hold     *)
(* what was seeded and what others brought, less what left; and            *)
(* SeededCapital is what was seeded less what was recalled, over all       *)
(* tokens, and not negative: "the treasury never recalls more than it      *)
(* originally seeded" (lib.rs:631).  Token by token it may.  With it, the  *)
(* four eyes on every payment.                                             *)
CustodyExact ==
    /\ TreasuryTypeOK /\ PaidAsApproved
    /\ \A t \in Tokens :
         /\ deposited[t] = held[t] + spent[t] + seedsOut[t]
         /\ AtBackstops(backstopHeld, t) = seedsOut[t] + others[t]
    /\ seeded = SumOver(seedsOut, Tokens)

\* The treasury's requests as promises.
Orders == INSTANCE Promises WITH
    Ids <- RequestIds, Amounts <- PayAmounts,
    promised <- [i \in RequestIds |-> IF requests[i] = None THEN 0 ELSE requests[i].amount],
    closed <- {i \in RequestIds :
                 requests[i] # None /\ requests[i].status \in {"Rejected", "Cancelled", "Executed"}}

(* The payment workflow implements Promises: a request's amount is fixed   *)
(* when it is submitted and it is paid in full at most once.               *)
ImplementsPromises == Orders!Spec
=============================================================================
