------------------------------ MODULE Backstop ------------------------------
(***************************************************************************)
(* RefractBackstop (backstop/src/lib.rs): second-loss capital in a junior  *)
(* and a senior tranche.  A deposit becomes a lot that is not exposed to   *)
(* losses until it matures; premiums are credited to matured capital, and  *)
(* losses eat matured junior capital before matured senior capital.        *)
(*                                                                         *)
(* The source file ends inside shares_of.  The helpers after that point    *)
(* (_sync_matured, _apply_loss, _credit_mature_premium, calc_shares,       *)
(* quote_withdrawal) are modelled from how the entrypoints use them and    *)
(* from what the crate's tests and Kani proofs state of them.  The seed,   *)
(* exposure and health operations after it, and the unstake positions,     *)
(* which no operation before it fills, are left out.  Admin and pool are   *)
(* fixed; an operation of theirs is taken by them only.                    *)
(***************************************************************************)
EXTENDS LedgerClock, Collections

CONSTANTS
    Stakers,
    StakeAmounts,      \* amounts deposited
    FlowAmounts,       \* amounts paid as premium, drawn or lost
    Lockups,           \* values of DataKey::LockupLedgers
    SplitBps,          \* values of DataKey::JuniorPremiumBps
    BpsDenom,          \* BPS_DENOM
    PremiumShareBps,   \* config.premium_share_bps
    MaxLots, MaxShares, MaxReserve, MaxFlow   \* bounds: lots still to mature, shares,
                                              \* tokens held, premiums and drawdowns

ASSUME BackstopConstants ==
    /\ IsFiniteSet(Stakers)
    /\ StakeAmounts \cup FlowAmounts \subseteq Nat \ {0} /\ Lockups \subseteq Nat
    /\ BpsDenom \in Nat \ {0} /\ PremiumShareBps \in 0 .. BpsDenom
    /\ SplitBps \subseteq 0 .. BpsDenom
    /\ {MaxLots, MaxShares, MaxReserve, MaxFlow} \subseteq Nat

VARIABLES
    book,         \* tranche states, shares and the deposit lots still to mature
    total,        \* DataKey::State: the contract-wide totals
    pendingLoss,  \* DataKey::PendingLoss
    lockup,       \* DataKey::LockupLedgers
    juniorBps,    \* DataKey::JuniorPremiumBps
    reserve       \* tokens the token contract holds for the backstop

settings == <<lockup, juniorBps>>
backstopVars == <<now, book, total, pendingLoss, settings, reserve>>

Tranches == {"Junior", "Senior"}
Ages == {"mature", "immature"}   \* the shares of a staker in a tranche are kept by age
NoCapital == [total_shares |-> 0, total_assets |-> 0, mature_shares |-> 0, mature_assets |-> 0]

\* The lots still to mature are told apart by an id; the id of a matured one is free again.
LotIds == 1 .. MaxLots
DepositLot == [staker : Stakers, tranche : Tranches, shares : Nat \ {0}, principal : StakeAmounts,
               matures_at : Nat]

ASSUME AbsentLot == None \notin DepositLot

BackstopInit ==
    /\ LedgerInit
    /\ book = [tranche |-> [t \in Tranches |-> NoCapital],
               shares |-> [s \in Stakers |-> [t \in Tranches |-> [a \in Ages |-> 0]]],
               lots |-> [i \in LotIds |-> None]]
    /\ total = [shares |-> 0, capital |-> 0, drawdowns |-> 0, premiums |-> 0]
    /\ pendingLoss = FALSE
    /\ lockup = 0 /\ juniorBps = BpsDenom \div 2
    /\ reserve = 0

\* What the lots of a tranche are worth, in principal and in shares, and one staker's part.
LotPrincipal(lots, t) ==
    SumOver([i \in LotIds |-> IF lots[i] # None /\ lots[i].tranche = t THEN lots[i].principal ELSE 0],
            LotIds)
LotShares(lots, t) ==
    SumOver([i \in LotIds |-> IF lots[i] # None /\ lots[i].tranche = t THEN lots[i].shares ELSE 0],
            LotIds)
LotSharesOf(lots, s, t) ==
    SumOver([i \in LotIds |-> IF lots[i] # None /\ lots[i].tranche = t /\ lots[i].staker = s
                              THEN lots[i].shares ELSE 0],
            LotIds)

IsDue(lot) == lot # None /\ lot.matures_at <= now

\* The shares and the principal of the lots whose ledger has come move from
\* immature to mature.  A matured lot is not looked at again.
_sync_matured(b) ==
    LET due == [i \in LotIds |-> IF IsDue(b.lots[i]) THEN b.lots[i] ELSE None]
    IN [tranche |-> [t \in Tranches |->
          [b.tranche[t] EXCEPT !.mature_shares = @ + LotShares(due, t),
                               !.mature_assets = @ + LotPrincipal(due, t)]],
        shares |-> [s \in Stakers |-> [t \in Tranches |-> [a \in Ages |->
          IF a = "mature" THEN b.shares[s][t][a] + LotSharesOf(due, s, t)
                          ELSE b.shares[s][t][a] - LotSharesOf(due, s, t)]]],
        lots |-> [i \in LotIds |-> IF IsDue(b.lots[i]) THEN None ELSE b.lots[i]]]

\* Shares for a deposit: at par in an empty tranche, else at the tranche's price.
calc_shares(amount, shares, assets) ==
    IF shares = 0 \/ assets = 0 THEN amount ELSE (amount * shares) \div assets

quote_withdrawal(shares, all, assets) == (shares * assets) \div all

FreeLots(lots) == {i \in LotIds : lots[i] = None}
NewLot(lots) == CHOOSE i \in FreeLots(lots) : TRUE

\* Mutant: the deposit is priced on matured capital only.
deposit_trancheMaturePrice(s, t, amount) ==
    LET b == _sync_matured(book)
        minted == calc_shares(amount, b.tranche[t].mature_shares, b.tranche[t].mature_assets)
    IN
    /\ ~pendingLoss
    /\ minted > 0
    /\ FreeLots(b.lots) # {} /\ total.shares + minted <= MaxShares /\ reserve + amount <= MaxReserve
    /\ book' = [b EXCEPT !.shares[s][t]["immature"] = @ + minted,
                         !.tranche[t].total_shares = @ + minted,
                         !.tranche[t].total_assets = @ + amount,
                         !.lots[NewLot(b.lots)] =
                            [staker |-> s, tranche |-> t, shares |-> minted,
                             principal |-> amount, matures_at |-> now + lockup]]
    /\ total' = [total EXCEPT !.capital = @ + amount, !.shares = @ + minted]
    /\ reserve' = reserve + amount
    /\ UNCHANGED <<now, pendingLoss, settings>>

\* deposit and deposit_tranche.
deposit_tranche(s, t, amount) ==
    LET b == _sync_matured(book)
        minted == calc_shares(amount, b.tranche[t].total_shares, b.tranche[t].total_assets)
    IN
    /\ ~pendingLoss
    /\ minted > 0
    /\ FreeLots(b.lots) # {} /\ total.shares + minted <= MaxShares /\ reserve + amount <= MaxReserve
    /\ book' = [b EXCEPT !.shares[s][t]["immature"] = @ + minted,
                         !.tranche[t].total_shares = @ + minted,
                         !.tranche[t].total_assets = @ + amount,
                         !.lots[NewLot(b.lots)] =
                            [staker |-> s, tranche |-> t, shares |-> minted,
                             principal |-> amount, matures_at |-> now + lockup]]
    /\ total' = [total EXCEPT !.capital = @ + amount, !.shares = @ + minted]
    /\ reserve' = reserve + amount
    /\ UNCHANGED <<now, pendingLoss, settings>>

\* withdraw and withdraw_tranche: matured shares at the matured price.  Neither
\* a pending loss nor an unstake position is consulted.
withdraw_tranche(s, t, shares) ==
    LET b == _sync_matured(book)
        amount == quote_withdrawal(shares, b.tranche[t].mature_shares, b.tranche[t].mature_assets)
    IN
    /\ shares <= b.shares[s][t]["mature"]
    /\ amount <= total.capital
    /\ book' = [b EXCEPT !.shares[s][t]["mature"] = @ - shares,
                         !.tranche[t] = [total_shares |-> @.total_shares - shares,
                                         total_assets |-> @.total_assets - amount,
                                         mature_shares |-> @.mature_shares - shares,
                                         mature_assets |-> @.mature_assets - amount]]
    /\ total' = [total EXCEPT !.capital = @ - amount, !.shares = @ - shares]
    /\ reserve' = reserve - amount
    /\ UNCHANGED <<now, pendingLoss, settings>>

\* Pays the pool out of the totals; the tranche states keep what they had.
draw_down(amount) ==
    /\ amount <= total.capital
    /\ total.drawdowns + amount <= MaxFlow
    /\ total' = [total EXCEPT !.capital = @ - amount, !.drawdowns = @ + amount]
    /\ reserve' = reserve - amount
    /\ UNCHANGED <<now, book, pendingLoss, settings>>

\* The junior-first waterfall over matured capital; of less than nothing it takes nothing.
_apply_loss(b, amount) ==
    LET asked == IF amount > 0 THEN amount ELSE 0
        junior == Min({asked, b.tranche["Junior"].mature_assets})
        senior == Min({asked - junior, b.tranche["Senior"].mature_assets})
        taken == [t \in Tranches |-> IF t = "Junior" THEN junior ELSE senior]
    IN [covered |-> junior + senior,
        book |-> [b EXCEPT !.tranche = [t \in Tranches |->
                    [b.tranche[t] EXCEPT !.total_assets = @ - taken[t], !.mature_assets = @ - taken[t]]]]]

\* Mutant: the loss is taken from the tranches only.
cover_shortfallTotalsKept(amount) ==
    LET loss == _apply_loss(_sync_matured(book), Min({amount, total.capital})) IN
    /\ book' = loss.book
    /\ reserve' = reserve - loss.covered
    /\ pendingLoss' = (pendingLoss /\ loss.covered > 0)
    /\ UNCHANGED <<now, total, settings>>

\* At most the total capital is covered; a freeze ends only when nothing was.
cover_shortfall(amount) ==
    LET loss == _apply_loss(_sync_matured(book), Min({amount, total.capital})) IN
    /\ book' = loss.book
    /\ total' = [total EXCEPT !.capital = @ - loss.covered]
    /\ reserve' = reserve - loss.covered
    /\ pendingLoss' = (pendingLoss /\ loss.covered > 0)
    /\ UNCHANGED <<now, settings>>

\* The whole amount goes down the waterfall, whatever draw_down took from the total
\* capital before: the tokens are the only limit, and the total may fall below zero.
absorb_loss(amount) ==
    LET loss == _apply_loss(_sync_matured(book), amount) IN
    /\ loss.covered <= reserve
    /\ book' = loss.book
    /\ total' = [total EXCEPT !.capital = @ - loss.covered]
    /\ reserve' = reserve - loss.covered
    /\ pendingLoss' = FALSE
    /\ UNCHANGED <<now, settings>>

set_pending_loss(pending) ==
    /\ pendingLoss' = pending
    /\ UNCHANGED <<now, book, total, settings, reserve>>

set_parameters(ledgers, bps) ==
    /\ lockup' = ledgers
    /\ juniorBps' = bps
    /\ UNCHANGED <<now, book, total, pendingLoss, reserve>>

sync_matured ==
    /\ book' = _sync_matured(book)
    /\ UNCHANGED <<now, total, pendingLoss, settings, reserve>>

\* A tranche without matured shares has nobody to credit.
_credit_mature_premium(b, t, amount) == IF b.tranche[t].mature_shares = 0 THEN 0 ELSE amount

split_bps(amount, bps) == (amount * bps) \div BpsDenom

receive_premium(amount) ==
    LET cut == split_bps(amount, PremiumShareBps)
        junior == _credit_mature_premium(book, "Junior", split_bps(cut, juniorBps))
        senior == _credit_mature_premium(book, "Senior", cut - split_bps(cut, juniorBps))
        credit == [t \in Tranches |-> IF t = "Junior" THEN junior ELSE senior]
    IN
    /\ reserve + cut <= MaxReserve /\ total.premiums + cut <= MaxFlow
    /\ book' = [book EXCEPT !.tranche = [t \in Tranches |->
          [book.tranche[t] EXCEPT !.total_assets = @ + credit[t], !.mature_assets = @ + credit[t]]]]
    /\ total' = [total EXCEPT !.premiums = @ + junior + senior, !.capital = @ + junior + senior]
    /\ reserve' = reserve + cut
    /\ UNCHANGED <<now, pendingLoss, settings>>

Tick == LedgerTick /\ UNCHANGED <<book, total, pendingLoss, settings, reserve>>

BackstopNext ==
    \/ \E s \in Stakers, t \in Tranches :
         \/ \E amount \in StakeAmounts : deposit_tranche(s, t, amount)
         \/ \E shares \in 1 .. book.tranche[t].total_shares : withdraw_tranche(s, t, shares)
    \/ \E amount \in FlowAmounts :
         draw_down(amount) \/ cover_shortfall(amount) \/ absorb_loss(amount) \/ receive_premium(amount)
    \/ \E pending \in BOOLEAN : set_pending_loss(pending)
    \/ \E ledgers \in Lockups, bps \in SplitBps : set_parameters(ledgers, bps)
    \/ sync_matured
    \/ Tick

BackstopSpec == BackstopInit /\ [][BackstopNext]_backstopVars

-----------------------------------------------------------------------------
SharesOf(t, age) == SumOver([s \in Stakers |-> book.shares[s][t][age]], Stakers)

(* Shares are conserved and capital is in custody (docs/INVARIANTS.md,     *)
(* INV-BACK-01 and 02), through every interleaving of deposits, maturities,*)
(* premiums, losses and withdrawals: each total is the sum of its parts,   *)
(* immature capital is exactly the principal of the lots still to mature,  *)
(* the tranches exceed the total capital by what was drawn past them, and  *)
(* the contract holds the total capital.  The total falls below zero only  *)
(* by what draw_down took from it and absorb_loss took again.              *)
BackstopExact ==
    /\ \A t \in Tranches :
         LET tr == book.tranche[t] IN
         /\ tr.mature_shares = SharesOf(t, "mature")
         /\ tr.total_shares = tr.mature_shares + SharesOf(t, "immature")
         /\ tr.mature_assets \in Nat
         /\ tr.total_assets = tr.mature_assets + LotPrincipal(book.lots, t)
    /\ total.shares = book.tranche["Junior"].total_shares + book.tranche["Senior"].total_shares
    /\ total.capital + total.drawdowns
         = book.tranche["Junior"].total_assets + book.tranche["Senior"].total_assets
    /\ reserve \in Nat
    /\ -total.drawdowns <= total.capital /\ total.capital <= reserve

(* Apart from losses, no operation takes value from the shares of others:  *)
(* a deposit never lowers its tranche's price, and while no lot matures a  *)
(* withdrawal or a premium never lowers the price of matured shares        *)
(* (deposit_tranche, withdraw_tranche, receive_premium: every division is  *)
(* rounded against the caller).                                            *)
StakersNotDiluted ==
    [][\A t \in Tranches :
         LET a == book.tranche[t]
             z == book'.tranche[t]
         IN /\ z.total_shares > a.total_shares =>
                 z.total_assets * a.total_shares >= a.total_assets * z.total_shares
            /\ (/\ z.mature_shares < a.mature_shares \/ total'.premiums > total.premiums
                /\ book'.lots = book.lots) =>
                 z.mature_assets * a.mature_shares >= a.mature_assets * z.mature_shares]_backstopVars
=============================================================================
