------------------------------ MODULE Delivery ------------------------------
(***************************************************************************)
(* What the outbox promises its producers, independently of workers,       *)
(* leases and retries: a queued message is handled some number of times,   *)
(* it is retired only after its handler has taken effect at least once,    *)
(* and retirement is final.  Nothing here bounds the number of times a     *)
(* handler takes effect, before or after retirement: handlers have to be   *)
(* idempotent, and packages/ledger/src/outbox.ts says that they are.       *)
(***************************************************************************)
EXTENDS Naturals

CONSTANT Messages       \* outbox rows, by outbox_id

VARIABLES
  status,               \* Messages -> {"absent", "pending", "retired"}
  effects               \* Messages -> number of handler transactions committed

vars == <<status, effects>>

Init ==
  /\ status = [m \in Messages |-> "absent"]
  /\ effects = [m \in Messages |-> 0]

Enqueue(m) ==
  /\ status[m] = "absent"
  /\ status' = [status EXCEPT ![m] = "pending"]
  /\ UNCHANGED effects

\* A handler may still be running when another worker retires the message.
TakeEffect(m) ==
  /\ status[m] # "absent"
  /\ effects' = [effects EXCEPT ![m] = @ + 1]
  /\ UNCHANGED status

Retire(m) ==
  /\ status[m] = "pending"
  /\ effects[m] > 0
  /\ status' = [status EXCEPT ![m] = "retired"]
  /\ UNCHANGED effects

Next == \E m \in Messages : Enqueue(m) \/ TakeEffect(m) \/ Retire(m)

Spec == Init /\ [][Next]_vars
=============================================================================
