--------------------------- MODULE PayoutRegistry ---------------------------
(***************************************************************************)
(* RefractPayoutRegistry (payout_registry/src/lib.rs): an index of payouts *)
(* by recipient that writers fill after they paid.  Calls are retried: the *)
(* reference id makes a repetition harmless, whatever its other arguments. *)
(* Storage lifetimes are left out.                                         *)
(***************************************************************************)
EXTENDS Naturals, Sequences, SequencesExt, Collections

CONSTANTS
    Principals,     \* administrators and writers
    Payees,         \* recipients
    References,     \* reference ids
    PaidAssets,     \* token contracts
    PaidAmounts,    \* amounts
    MAX_PAGE_SIZE,
    NoOne           \* an absent address or reference

ASSUME PayoutRegistryConstants ==
    /\ IsFiniteSet(Payees) /\ PaidAmounts \subseteq Nat \ {0} /\ MAX_PAGE_SIZE \in Nat \ {0}
    /\ NoOne \notin Principals \cup Payees /\ NoOne \notin Payees \X Nat

VARIABLES
    registryAdmin,  \* DataKey::Admin
    pendingAdmin,   \* DataKey::PendingAdmin
    writers,        \* the addresses whose DataKey::Writer is true
    history,        \* DataKey::RecipientPayout(recipient, index), by recipient
    reference,      \* DataKey::Reference(reference_id)
    assetTotal,     \* DataKey::RecipientAssetTotal(recipient, asset)
    totalPayouts    \* DataKey::TotalPayouts

index == <<history, reference, assetTotal, totalPayouts>>
payoutRegistryVars == <<registryAdmin, pendingAdmin, writers, index>>

PayoutEntry == [reference_id : References, asset : PaidAssets, amount : PaidAmounts]

PayoutRegistryInit ==
    /\ registryAdmin = NoOne /\ pendingAdmin = NoOne
    /\ writers = {}
    /\ history = [p \in Payees |-> <<>>]
    /\ reference = [r \in References |-> NoOne]
    /\ assetTotal = [p \in Payees |-> [a \in PaidAssets |-> 0]]
    /\ totalPayouts = 0

registry_initialize(a) ==
    /\ registryAdmin = NoOne
    /\ registryAdmin' = a
    /\ UNCHANGED <<pendingAdmin, writers, index>>

propose_admin(caller, a) ==
    /\ caller = registryAdmin
    /\ pendingAdmin' = a
    /\ UNCHANGED <<registryAdmin, writers, index>>

accept_admin(caller) ==
    /\ pendingAdmin = caller
    /\ registryAdmin' = caller
    /\ pendingAdmin' = NoOne
    /\ UNCHANGED <<writers, index>>

register_writer(caller, w) ==
    /\ caller = registryAdmin
    /\ writers' = writers \cup {w}
    /\ UNCHANGED <<registryAdmin, pendingAdmin, index>>

deregister_writer(caller, w) ==
    /\ caller = registryAdmin
    /\ writers' = writers \ {w}
    /\ UNCHANGED <<registryAdmin, pendingAdmin, index>>

\* Mutant: a repetition is recognised only for the same recipient.
record_payoutPerRecipient(caller, p, asset, amount, ref) ==
    /\ caller \in writers
    /\ IF reference[ref] = NoOne THEN TRUE ELSE reference[ref][1] # p
    /\ reference' = [reference EXCEPT ![ref] = <<p, Len(history[p])>>]
    /\ history' = [history EXCEPT ![p] =
          Append(@, [reference_id |-> ref, asset |-> asset, amount |-> amount])]
    /\ assetTotal' = [assetTotal EXCEPT ![p][asset] = @ + amount]
    /\ totalPayouts' = totalPayouts + 1
    /\ UNCHANGED <<registryAdmin, pendingAdmin, writers>>

\* record_payout, record_payout_with_ledger and register_payout; a replay of an
\* indexed reference changes nothing.
record_payout(caller, p, asset, amount, ref) ==
    /\ caller \in writers
    /\ reference[ref] = NoOne
    /\ reference' = [reference EXCEPT ![ref] = <<p, Len(history[p])>>]
    /\ history' = [history EXCEPT ![p] =
          Append(@, [reference_id |-> ref, asset |-> asset, amount |-> amount])]
    /\ assetTotal' = [assetTotal EXCEPT ![p][asset] = @ + amount]
    /\ totalPayouts' = totalPayouts + 1
    /\ UNCHANGED <<registryAdmin, pendingAdmin, writers>>

PayoutRegistryNext ==
    \/ \E a, b \in Principals :
         \/ registry_initialize(a)
         \/ propose_admin(a, b)
         \/ accept_admin(a)
         \/ register_writer(a, b)
         \/ deregister_writer(a, b)
    \/ \E w \in Principals, p \in Payees, asset \in PaidAssets, amount \in PaidAmounts,
          ref \in References : record_payout(w, p, asset, amount, ref)

PayoutRegistrySpec == PayoutRegistryInit /\ [][PayoutRegistryNext]_payoutRegistryVars

\* get_payout_history: at most MAX_PAGE_SIZE records from a 0-based start.
get_payout_history(p, start, limit) ==
    LET size == IF limit < MAX_PAGE_SIZE THEN limit ELSE MAX_PAGE_SIZE
        end == IF start + size < Len(history[p]) THEN start + size ELSE Len(history[p])
    IN SubSeq(history[p], start + 1, end)

-----------------------------------------------------------------------------
PayoutRegistryTypeOK ==
    /\ {registryAdmin, pendingAdmin} \subseteq Principals \cup {NoOne}
    /\ writers \subseteq Principals
    /\ \A p \in Payees : \A k \in DOMAIN history[p] : history[p][k] \in PayoutEntry
    /\ assetTotal \in [Payees -> [PaidAssets -> Nat]]
    /\ totalPayouts \in Nat

\* Reading page after page, advancing by what was returned.
PagesComplete ==
    \A p \in Payees : \A start \in 0 .. Len(history[p]), limit \in 1 .. MAX_PAGE_SIZE + 1 :
      LET page == get_payout_history(p, start, limit) IN
        /\ page = <<>> => start = Len(history[p])
        /\ IsPrefix(page, SubSeq(history[p], start + 1, Len(history[p])))
        /\ Len(page) <= MAX_PAGE_SIZE

(* The index stays exact under retries and changes of writers and          *)
(* administrators (lib.rs:19-29): a reference has one record, found where  *)
(* the reference index points; totals and the counter are what the records *)
(* add up to; and reading page after page, advancing by what was returned, *)
(* lists every record once, at any requested size.                         *)
IndexExact ==
    /\ PayoutRegistryTypeOK
    /\ \A ref \in References :
         {at \in Payees \X (0 .. totalPayouts) :
            at[2] < Len(history[at[1]]) /\ history[at[1]][at[2] + 1].reference_id = ref}
           = IF reference[ref] = NoOne THEN {} ELSE {reference[ref]}
    /\ totalPayouts = SumOver([p \in Payees |-> Len(history[p])], Payees)
    /\ \A p \in Payees, a \in PaidAssets :
         assetTotal[p][a] =
           SumOver([k \in DOMAIN history[p] |->
                      IF history[p][k].asset = a THEN history[p][k].amount ELSE 0], DOMAIN history[p])
    /\ PagesComplete
=============================================================================
