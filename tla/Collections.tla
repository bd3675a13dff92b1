----------------------------- MODULE Collections -----------------------------
(***************************************************************************)
(* Sums over finite sets and lists that lose entries.  The conservation    *)
(* laws of the contracts (custody, earmarks, awards, locks) are stated     *)
(* with SumOver: its summand is a function, which a theorem about sums can *)
(* be applied to.  A list is read into memory, rebuilt by pushing the      *)
(* entries that stay, and stored again; Picked is what that leaves.        *)
(***************************************************************************)
EXTENDS Integers, Sequences, FiniteSets, FiniteSetsExt

\* The sum of the values of f over S.
SumOver(f, S) == MapThenSumSet(LAMBDA x : f[x], S)

\* The entries of seq at the positions kept, in their order.
Picked(seq, kept) ==
    LET nth(j) == CHOOSE k \in kept : Cardinality({i \in kept : i <= k}) = j
    IN  [j \in 1 .. Cardinality(kept) |-> seq[nth(j)]]

\* The entries of seq other than e: what pushing them one by one leaves.
Without(seq, e) == Picked(seq, {k \in DOMAIN seq : seq[k] # e})
==============================================================================
