---- MODULE LedgerClock ----
(* The ledger the contracts run on: its timestamp, and the mark of a storage  *)
(* entry that is absent.                                                      *)
EXTENDS Naturals

CONSTANTS
    None,       \* an absent storage entry
    MaxTime     \* bound of the model: the last ledger timestamp

ASSUME LedgerConstants == MaxTime \in Nat

VARIABLE now    \* env.ledger().timestamp()

LedgerInit == now = 0

LedgerTick == now < MaxTime /\ now' = now + 1
====
