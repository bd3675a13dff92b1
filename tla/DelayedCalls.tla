---------------------------- MODULE DelayedCalls ----------------------------
(***************************************************************************)
(* What the timelock promises the contracts behind it, with no storage     *)
(* layout, no statuses of failure and no keeper: a promised call becomes   *)
(* due at least MinDelay after it was promised, it is delivered at most    *)
(* once and never before it is due, and it may instead be dropped.         *)
(* Timelock.tla is shown to implement this specification.                  *)
(***************************************************************************)
EXTENDS Naturals

CONSTANTS Calls

VARIABLES clock,    \* ledger time
          delay,    \* the delay every promise is held for
          stage,    \* stage[c] of each call
          due       \* due[c]: the time the call was promised for

callVars == <<clock, delay, stage, due>>

Stages == {"None", "Waiting", "Delivered", "Dropped"}

Start == /\ clock = 0
         /\ delay = 0
         /\ stage = [c \in Calls |-> "None"]
         /\ due = [c \in Calls |-> 0]

\* The delay is fixed before the first promise is made.
Setup == /\ \A c \in Calls : stage[c] = "None"
         /\ delay' \in Nat
         /\ UNCHANGED <<clock, stage, due>>

Elapse == /\ clock' \in Nat /\ clock' > clock
          /\ UNCHANGED <<delay, stage, due>>

Promise(c) == /\ stage[c] = "None"
              /\ stage' = [stage EXCEPT ![c] = "Waiting"]
              /\ due'[c] \in Nat /\ due'[c] >= clock + delay
              /\ due' = [due EXCEPT ![c] = due'[c]]
              /\ UNCHANGED <<clock, delay>>

\* One transaction may deliver several calls.
Deliver(S) == /\ \A c \in S : stage[c] = "Waiting" /\ due[c] <= clock
              /\ stage' = [c \in Calls |-> IF c \in S THEN "Delivered" ELSE stage[c]]
              /\ UNCHANGED <<clock, delay, due>>

Drop(c) == /\ stage[c] = "Waiting"
           /\ stage' = [stage EXCEPT ![c] = "Dropped"]
           /\ UNCHANGED <<clock, delay, due>>

Step == \/ Setup
        \/ Elapse
        \/ \E c \in Calls : Promise(c) \/ Drop(c)
        \/ \E S \in SUBSET Calls : Deliver(S)

CallSpec == Start /\ [][Step]_callVars
=============================================================================
