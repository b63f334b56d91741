------------------------------- MODULE Outbox -------------------------------
(***************************************************************************)
(* The transactional outbox: the rows of table outbox, the SECURITY        *)
(* DEFINER functions outbox_claim, outbox_complete and outbox_fail         *)
(* (migrations 0011 and 0012), and the claim loops of the worker processes *)
(* (packages/ledger/src/outbox.ts, apps/worker).                           *)
(*                                                                         *)
(* Every statement runs on its own connection and commits by itself        *)
(* (Db.systemQuery), and a handler runs in a transaction of its own        *)
(* (Db.withRequest), so a loop can be interrupted between any two of:      *)
(* claim, handler commit, complete, fail.  outbox_claim is two steps here, *)
(* taking the row locks and committing, because SKIP LOCKED makes two      *)
(* overlapping claims take different rows where two claims in succession   *)
(* may take the same ones.                                                 *)
(*                                                                         *)
(* available_at is kept as the boolean "due" (available_at <= now()): a    *)
(* failure clears it and BackoffExpires sets it again.                     *)
(***************************************************************************)
EXTENDS Integers, FiniteSets

CONSTANTS
  Messages,             \* outbox_id's, in queue order
  Poison,               \* messages whose handler always throws
  Loops,                \* claim loops, one or more per worker process
  Drainers,             \* the loops that run drainOnce() (--once) and end
  Serves,               \* Serves[l]: the messages of the tenants l claims for
  BatchSize,            \* p_limit of outbox_claim
  MaxAttempts,          \* column outbox.max_attempts
  MaxFaults,            \* bound on crashes and transient errors in a behaviour
  NoLoop                \* SQL NULL of column locked_by

ASSUME QueueAssumption ==
  /\ Messages \subseteq Nat /\ IsFiniteSet(Messages)
  /\ Poison \subseteq Messages
  /\ BatchSize \in Nat \ {0} /\ MaxAttempts \in Nat \ {0} /\ MaxFaults \in Nat

ASSUME LoopAssumption ==
  /\ Drainers \subseteq Loops
  /\ NoLoop \notin Loops
  /\ Serves \in [Loops -> SUBSET Messages]

VARIABLES
  outbox,               \* the table
  pc,                   \* where each loop is in runOnce()
  batch,                \* messages a loop has claimed and not settled yet
  current,              \* the message it is handling, of its batch
  mode,                 \* which part of polling or drainOnce() it executes
  effects,              \* handler transactions committed, per message
  lapsed,               \* history: claims of a message that ended unsettled
  faults                \* crashes and transient errors so far

loopVars == <<pc, batch, current, mode>>
vars == <<outbox, loopVars, effects, lapsed, faults>>

NoMessage == -1

Row == [queued: BOOLEAN, completed: BOOLEAN, due: BOOLEAN,
        attempts: 0..MaxAttempts, lockedBy: Loops \cup {NoLoop}]

TypeOK ==
  /\ outbox \in [Messages -> Row]
  /\ pc \in [Loops -> {"idle", "claiming", "batch", "handling", "committed",
                       "raised", "down"}]
  /\ batch \in [Loops -> SUBSET Messages]
  /\ current \in [Loops -> Messages \cup {NoMessage}]
  /\ mode \in [Loops -> {"polling", "draining", "last", "reading", "done"}]
  /\ effects \in [Messages -> Nat]
  /\ lapsed \in [Messages -> Nat]
  /\ faults \in 0..MaxFaults

Pending == {m \in Messages : outbox[m].queued /\ ~outbox[m].completed}

Exhausted(m) == outbox[m].attempts = MaxAttempts

StartMode(l) == IF l \in Drainers THEN "draining" ELSE "polling"

Init ==
  /\ outbox = [m \in Messages |-> [queued |-> FALSE, completed |-> FALSE,
                                   due |-> FALSE, attempts |-> 0,
                                   lockedBy |-> NoLoop]]
  /\ pc = [l \in Loops |-> "idle"]
  /\ batch = [l \in Loops |-> {}]
  /\ current = [l \in Loops |-> NoMessage]
  /\ mode = [l \in Loops |-> StartMode(l)]
  /\ effects = [m \in Messages |-> 0]
  /\ lapsed = [m \in Messages |-> 0]
  /\ faults = 0

-----------------------------------------------------------------------------
(* The table                                                               *)

\* The producer's transaction (an append, or a gate decision) commits the
\* row together with what it announces.
Enqueue(m) ==
  /\ ~outbox[m].queued
  /\ outbox' = [outbox EXCEPT ![m].queued = TRUE, ![m].due = TRUE]
  /\ UNCHANGED <<loopVars, effects, lapsed, faults>>

BackoffExpires(m) ==
  /\ m \in Pending /\ ~outbox[m].due
  /\ outbox' = [outbox EXCEPT ![m].due = TRUE]
  /\ UNCHANGED <<loopVars, effects, lapsed, faults>>

\* Rows locked by a claim statement that has not committed yet.
RowLocked(m) == \E l \in Loops : pc[l] = "claiming" /\ m \in batch[l]

\* Mistakes a change of the WHERE clause could make, for the runs to refute:
\* an attempt limit that is off by one, and a lock that is respected although
\* nothing ever expires it.
ClaimableOneLess(l) ==
  {m \in Pending \cap Serves[l] :
     outbox[m].due /\ outbox[m].attempts + 1 < MaxAttempts /\ ~RowLocked(m)}

ClaimableUnlocked(l) ==
  {m \in Pending \cap Serves[l] :
     outbox[m].lockedBy = NoLoop /\ outbox[m].due
       /\ outbox[m].attempts < MaxAttempts /\ ~RowLocked(m)}

\* The WHERE clause of outbox_claim.  It does not read locked_by.
Claimable(l) ==
  {m \in Pending \cap Serves[l] :
     outbox[m].due /\ outbox[m].attempts < MaxAttempts /\ ~RowLocked(m)}

\* ORDER BY outbox_id LIMIT p_limit.  A batch is a set: UPDATE ... RETURNING
\* yields the rows in no particular order.
IsClaim(B, l) ==
  /\ B \subseteq Claimable(l)
  /\ \A m \in B, n \in Claimable(l) \ B : m < n
  /\ Cardinality(B) <= BatchSize
  /\ Cardinality(B) = BatchSize \/ B = Claimable(l)

SetClaimed(l, B) ==
  [m \in Messages |->
     IF m \in B THEN [outbox[m] EXCEPT !.attempts = @ + 1, !.lockedBy = l]
                ELSE outbox[m]]

\* outbox_complete: any caller, any row that is not completed.
SetCompleted(m) ==
  IF outbox[m].completed THEN outbox
  ELSE [outbox EXCEPT ![m].completed = TRUE, ![m].lockedBy = NoLoop]

\* Mistakes in outbox_fail: re-opening a completed row, and returning the
\* attempts.
SetFailedReopens(m) ==
  [outbox EXCEPT ![m].completed = FALSE, ![m].due = FALSE, ![m].lockedBy = NoLoop]

SetFailedRefunds(m) ==
  IF outbox[m].completed THEN outbox
  ELSE [outbox EXCEPT ![m].due = FALSE, ![m].lockedBy = NoLoop, ![m].attempts = 0]

\* outbox_fail: any caller, any row that is not completed.
SetFailed(m) ==
  IF outbox[m].completed THEN outbox
  ELSE [outbox EXCEPT ![m].due = FALSE, ![m].lockedBy = NoLoop]

Lapse(S) == [m \in Messages |-> IF m \in S THEN lapsed[m] + 1 ELSE lapsed[m]]

Fault == faults < MaxFaults /\ faults' = faults + 1
-----------------------------------------------------------------------------
(* A claim loop: OutboxWorker.runOnce and its callers                      *)

\* outbox_claim selects and locks its rows ...
ClaimBegin(l) ==
  /\ pc[l] = "idle" /\ mode[l] \in {"polling", "draining", "last"}
  /\ \E B \in SUBSET Claimable(l) : IsClaim(B, l) /\ batch' = [batch EXCEPT ![l] = B]
  /\ pc' = [pc EXCEPT ![l] = "claiming"]
  /\ UNCHANGED <<outbox, current, mode, effects, lapsed, faults>>

\* drainOnce() drains until a claim is empty, then runs one more cycle and
\* reads the lag after it.
ModeAfterClaim(l) ==
  CASE mode[l] = "draining" /\ batch[l] = {} -> "last"
    [] mode[l] = "last"                      -> "reading"
    [] OTHER                                 -> mode[l]

\* ... and its update commits.
ClaimCommit(l) ==
  /\ pc[l] = "claiming"
  /\ outbox' = SetClaimed(l, batch[l])
  /\ mode' = [mode EXCEPT ![l] = ModeAfterClaim(l)]
  /\ pc' = [pc EXCEPT ![l] = IF batch[l] = {} THEN "idle" ELSE "batch"]
  /\ UNCHANGED <<batch, current, effects, lapsed, faults>>

StartHandling(l, m) ==
  /\ pc[l] = "batch" /\ m \in batch[l]
  /\ current' = [current EXCEPT ![l] = m]
  /\ pc' = [pc EXCEPT ![l] = "handling"]
  /\ UNCHANGED <<outbox, batch, mode, effects, lapsed, faults>>

\* The handler's own transaction commits.
HandlerCommits(l) ==
  /\ pc[l] = "handling" /\ current[l] \notin Poison
  /\ effects' = [effects EXCEPT ![current[l]] = @ + 1]
  /\ pc' = [pc EXCEPT ![l] = "committed"]
  /\ UNCHANGED <<outbox, batch, current, mode, lapsed, faults>>

\* A mistake: the handler swallows its error and runOnce goes on to complete().
HandlerSwallows(l) ==
  /\ pc[l] = "handling"
  /\ IF current[l] \in Poison THEN UNCHANGED faults ELSE Fault
  /\ pc' = [pc EXCEPT ![l] = "committed"]
  /\ UNCHANGED <<outbox, batch, current, mode, effects, lapsed>>

\* No processor for the kind, no scope or purpose in the payload, or an
\* error of the handler, which rolls its transaction back.
HandlerRaises(l) ==
  /\ pc[l] = "handling"
  /\ IF current[l] \in Poison THEN UNCHANGED faults ELSE Fault
  /\ pc' = [pc EXCEPT ![l] = "raised"]
  /\ UNCHANGED <<outbox, batch, current, mode, effects, lapsed>>

\* The loop is done with its current message and goes on with the batch.
NextOfBatch(l) ==
  LET rest == batch[l] \ {current[l]} IN
  /\ batch' = [batch EXCEPT ![l] = rest]
  /\ pc' = [pc EXCEPT ![l] = IF rest = {} THEN "idle" ELSE "batch"]
  /\ current' = [current EXCEPT ![l] = NoMessage]

Complete(l) ==
  /\ pc[l] = "committed" /\ ~RowLocked(current[l])
  /\ outbox' = SetCompleted(current[l])
  /\ NextOfBatch(l)
  /\ UNCHANGED <<mode, effects, lapsed, faults>>

\* An error of complete() is caught like one of the handler, although the
\* handler's effect is committed.
CompleteRaises(l) ==
  /\ pc[l] = "committed"
  /\ Fault
  /\ pc' = [pc EXCEPT ![l] = "raised"]
  /\ UNCHANGED <<outbox, batch, current, mode, effects, lapsed>>

Fail(l) ==
  /\ pc[l] = "raised" /\ ~RowLocked(current[l])
  /\ outbox' = SetFailed(current[l])
  /\ lapsed' = Lapse({current[l]})
  /\ NextOfBatch(l)
  /\ UNCHANGED <<mode, effects, faults>>

\* An error of fail() leaves runOnce(): the rest of the batch is dropped.  The
\* polling loop logs it and goes on; drainOnce() rejects and the process exits.
FailRaises(l) ==
  /\ pc[l] = "raised"
  /\ Fault
  /\ lapsed' = Lapse(batch[l])
  /\ batch' = [batch EXCEPT ![l] = {}]
  /\ current' = [current EXCEPT ![l] = NoMessage]
  /\ pc' = [pc EXCEPT ![l] = IF l \in Drainers THEN "down" ELSE "idle"]
  /\ UNCHANGED <<outbox, mode, effects>>

\* The process dies.  A claim that has not committed is rolled back; one that
\* has keeps its attempt and its locked_by.
Crash(l) ==
  /\ pc[l] # "down" /\ mode[l] # "done"
  /\ Fault
  /\ lapsed' = IF pc[l] = "claiming" THEN lapsed ELSE Lapse(batch[l])
  /\ batch' = [batch EXCEPT ![l] = {}]
  /\ current' = [current EXCEPT ![l] = NoMessage]
  /\ pc' = [pc EXCEPT ![l] = "down"]
  /\ UNCHANGED <<outbox, mode, effects>>

Restart(l) ==
  /\ pc[l] = "down"
  /\ pc' = [pc EXCEPT ![l] = "idle"]
  /\ mode' = [mode EXCEPT ![l] = StartMode(l)]
  /\ UNCHANGED <<outbox, batch, current, effects, lapsed, faults>>

\* The last statement of drainOnce(): outbox_lag, which counts Pending.
ReadLag(l) ==
  /\ pc[l] = "idle" /\ mode[l] = "reading"
  /\ mode' = [mode EXCEPT ![l] = "done"]
  /\ UNCHANGED <<outbox, pc, batch, current, effects, lapsed, faults>>

-----------------------------------------------------------------------------
Work(l) ==
  \/ ClaimBegin(l) \/ ClaimCommit(l)
  \/ \E m \in Messages : StartHandling(l, m)
  \/ HandlerCommits(l) \/ HandlerRaises(l)
  \/ Complete(l) \/ CompleteRaises(l)
  \/ Fail(l) \/ FailRaises(l)
  \/ ReadLag(l)

Next ==
  \/ \E m \in Messages : Enqueue(m) \/ BackoffExpires(m)
  \/ \E l \in Loops : Work(l) \/ Crash(l) \/ Restart(l)

\* A loop that runs keeps running and time passes.  Producers, faults and the
\* restart of a process that died are not assumed to be fair.
Fairness ==
  /\ \A l \in Loops : WF_vars(Work(l))
  /\ \A m \in Messages : WF_vars(BackoffExpires(m))

Spec == Init /\ [][Next]_vars

FairSpec == Spec /\ Fairness
-----------------------------------------------------------------------------
(* Properties                                                              *)

\* A message is never retired before some handler transaction for it has
\* committed, whatever crashes, doubled claims or failing complete() and
\* fail() statements come between the claim and the settlement.
NoSilentLoss == \A m \in Messages : outbox[m].completed => effects[m] > 0

\* Completion is final: a slower loop that claimed the same row and fails it
\* after another has completed it neither re-opens it nor consumes attempts.
CompletedIsFinal ==
  [][\A m \in Messages :
        outbox[m].completed => outbox'[m] = outbox[m]]_vars

Holders(m) == {l \in Loops : pc[l] # "claiming" /\ m \in batch[l]}

\* Every attempt of an open message is accounted for: it is a claim still in
\* some loop's batch or one that lapsed.  Attempts are only ever spent by
\* work that was tried, so a message that is exhausted and in nobody's hands
\* has been dropped or failed max_attempts times.
AttemptAccounting ==
  \A m \in Messages :
    ~outbox[m].completed => outbox[m].attempts = lapsed[m] + Cardinality(Holders(m))

StaysUp(l) == <>[](pc[l] # "down")

\* A healthy message is eventually completed, given one polling loop for its
\* tenant that stays up and fewer faults than max_attempts, although the
\* claims of other loops and of processes that died consume its attempts too
\* and may leave it locked by nobody alive.
HealthyMessagesComplete ==
  \A l \in Loops \ Drainers : StaysUp(l) =>
    \A m \in Serves[l] \ Poison : outbox[m].queued ~> outbox[m].completed

\* A poison message stops consuming capacity: under the same condition it is
\* eventually exhausted and in no loop's hands, for ever.
PoisonRetires ==
  \A l \in Loops \ Drainers : StaysUp(l) =>
    \A m \in Serves[l] \cap Poison :
      outbox[m].queued ~> [](Exhausted(m) /\ Holders(m) = {})

\* The outbox implements at-least-once delivery with final retirement.
Promise == INSTANCE Delivery WITH
  status <- [m \in Messages |-> IF ~outbox[m].queued THEN "absent"
                                ELSE IF outbox[m].completed THEN "retired"
                                ELSE "pending"]
ImplementsDelivery == Promise!Spec
=============================================================================
