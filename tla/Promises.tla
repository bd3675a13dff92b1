------------------------------ MODULE Promises ------------------------------
(* What the paying contracts of the protocol promise, whatever else they do:  *)
(* an amount is promised to an id once, and the promise is then either kept   *)
(* in full, once, or broken off.  The treasury's payment requests and the     *)
(* failed payouts of refract-common are shown to implement it.                *)
EXTENDS Naturals

CONSTANTS
  Ids,       \* promises
  Amounts    \* amounts that can be promised

VARIABLES
  promised,   \* amount promised under an id, 0 before
  received,   \* amount paid under an id
  closed      \* ids that are paid or broken off

vars == <<promised, received, closed>>

Init ==
  /\ promised = [i \in Ids |-> 0]
  /\ received = [i \in Ids |-> 0]
  /\ closed = {}

Give(i, amount) ==
  /\ promised[i] = 0
  /\ promised' = [promised EXCEPT ![i] = amount]
  /\ UNCHANGED <<received, closed>>

Keep(i) ==
  /\ promised[i] > 0
  /\ i \notin closed
  /\ received' = [received EXCEPT ![i] = promised[i]]
  /\ closed' = closed \union {i}
  /\ UNCHANGED promised

BreakOff(i) ==
  /\ i \notin closed
  /\ closed' = closed \union {i}
  /\ UNCHANGED <<promised, received>>

Next ==
  \E i \in Ids :
    \/ \E amount \in Amounts : Give(i, amount)
    \/ Keep(i)
    \/ BreakOff(i)

Spec == Init /\ [][Next]_vars
=============================================================================
