---------------------------- MODULE OutboxProofs ----------------------------
(***************************************************************************)
(* Proofs about module Outbox, for any number of messages, claim loops,    *)
(* attempts and faults: the type invariant (whose bound on attempts        *)
(* depends on the row locks of overlapping claims), that no message is     *)
(* retired without an effect, that retirement is final, that every attempt *)
(* is held or has lapsed, and that the outbox implements module Delivery.  *)
(***************************************************************************)
EXTENDS Outbox, FiniteSetTheorems, TLAPS

\* Rows selected by a claim that has not committed are open, below their
\* limit of attempts, and selected by no other such claim.
ClaimLocks ==
  \A l \in Loops : pc[l] = "claiming" =>
    \A m \in batch[l] :
      /\ outbox[m].queued /\ ~outbox[m].completed
      /\ outbox[m].attempts < MaxAttempts
      /\ \A k \in Loops : pc[k] = "claiming" /\ m \in batch[k] => k = l

\* A loop only ever claims messages that were queued.
BatchQueued == \A l \in Loops : \A m \in batch[l] : outbox[m].queued

\* A loop in the middle of a message is handling one of its batch.
CurrentInBatch ==
  \A l \in Loops : pc[l] \in {"handling", "committed", "raised"} =>
                     current[l] \in batch[l]

\* A loop about to call complete() has seen its handler commit.
CommittedHasEffect ==
  \A l \in Loops : pc[l] = "committed" => effects[current[l]] > 0

CompletedWasQueued == \A m \in Messages : outbox[m].completed => outbox[m].queued

IInv == /\ TypeOK /\ ClaimLocks /\ BatchQueued /\ CurrentInBatch
        /\ CommittedHasEffect /\ CompletedWasQueued /\ NoSilentLoss

-----------------------------------------------------------------------------
LEMMA InitIInv == Init => IInv
<1> SUFFICES ASSUME Init PROVE IInv
  OBVIOUS
<1> USE QueueAssumption, LoopAssumption DEF Init
<1>1. TypeOK
  BY DEF TypeOK, Row, StartMode
<1>2. ClaimLocks /\ BatchQueued /\ CurrentInBatch /\ CommittedHasEffect
  BY DEF ClaimLocks, BatchQueued, CurrentInBatch, CommittedHasEffect
<1>3. NoSilentLoss /\ CompletedWasQueued
  BY DEF NoSilentLoss, CompletedWasQueued
<1> QED
  BY <1>1, <1>2, <1>3 DEF IInv

\* What the statements of the outbox write is a row.
LEMMA RowTyping ==
  ASSUME NEW r \in Row
  PROVE  /\ [r EXCEPT !.due = TRUE] \in Row
         /\ [[r EXCEPT !.queued = TRUE] EXCEPT !.due = TRUE] \in Row
         /\ [[r EXCEPT !.completed = TRUE] EXCEPT !.lockedBy = NoLoop] \in Row
         /\ [[r EXCEPT !.due = FALSE] EXCEPT !.lockedBy = NoLoop] \in Row
<1>1. [r EXCEPT !.due = TRUE] \in Row
  BY DEF Row
<1>2. [[r EXCEPT !.queued = TRUE] EXCEPT !.due = TRUE] \in Row
  BY DEF Row
<1>3. [[r EXCEPT !.completed = TRUE] EXCEPT !.lockedBy = NoLoop] \in Row
  BY DEF Row
<1>4. [[r EXCEPT !.due = FALSE] EXCEPT !.lockedBy = NoLoop] \in Row
  BY DEF Row
<1> QED
  BY <1>1, <1>2, <1>3, <1>4

LEMMA ClaimTyping ==
  ASSUME NEW r \in Row, NEW l \in Loops, r.attempts < MaxAttempts
  PROVE  LET s == [[r EXCEPT !.attempts = @ + 1] EXCEPT !.lockedBy = l]
         IN  s \in Row /\ s.completed = r.completed /\ s.queued = r.queued
<1> DEFINE s == [[r EXCEPT !.attempts = @ + 1] EXCEPT !.lockedBy = l]
<1>1. r.attempts + 1 \in 0..MaxAttempts
  BY QueueAssumption DEF Row
<1>2. s \in Row
  BY <1>1 DEF Row
<1>3. s.completed = r.completed /\ s.queued = r.queued
  BY DEF Row
<1> QED
  BY <1>2, <1>3

LEMMA EffectGrows ==
  ASSUME NEW e \in [Messages -> Nat], NEW c \in Messages
  PROVE  LET f == [e EXCEPT ![c] = @ + 1]
         IN  /\ f \in [Messages -> Nat]
             /\ \A n \in Messages : f[n] >= e[n]
             /\ f[c] > 0
  OBVIOUS

LEMMA NextIInv == IInv /\ [Next]_vars => IInv'
<1> SUFFICES ASSUME IInv, [Next]_vars PROVE IInv'
  OBVIOUS
<1> USE QueueAssumption, LoopAssumption DEF IInv, TypeOK
<1>1. ASSUME NEW m \in Messages, Enqueue(m) PROVE IInv'
  <2>1. outbox' \in [Messages -> Row]
    BY <1>1, RowTyping DEF Enqueue
  <2>2. \A n \in Messages :
          /\ outbox'[n].completed = outbox[n].completed
          /\ outbox'[n].attempts = outbox[n].attempts
          /\ outbox[n].queued => outbox'[n].queued
    BY <1>1 DEF Enqueue, Row
  <2>3. TypeOK'
    BY <1>1, <2>1 DEF Enqueue, loopVars
  <2>4. (ClaimLocks /\ BatchQueued)'
    BY <1>1, <2>2 DEF Enqueue, loopVars, ClaimLocks, BatchQueued
  <2>5. (CurrentInBatch /\ CommittedHasEffect /\ CompletedWasQueued /\ NoSilentLoss)'
    BY <1>1, <2>2 DEF Enqueue, loopVars, CurrentInBatch, CommittedHasEffect,
                      CompletedWasQueued, NoSilentLoss
  <2> QED
    BY <2>3, <2>4, <2>5
<1>2. ASSUME NEW m \in Messages, BackoffExpires(m) PROVE IInv'
  <2>1. outbox' \in [Messages -> Row]
    BY <1>2, RowTyping DEF BackoffExpires
  <2>2. \A n \in Messages :
          /\ outbox'[n].completed = outbox[n].completed
          /\ outbox'[n].attempts = outbox[n].attempts
          /\ outbox'[n].queued = outbox[n].queued
    BY <1>2 DEF BackoffExpires, Row
  <2>3. TypeOK'
    BY <1>2, <2>1 DEF BackoffExpires, loopVars
  <2>4. (ClaimLocks /\ BatchQueued)'
    BY <1>2, <2>2 DEF BackoffExpires, loopVars, ClaimLocks, BatchQueued
  <2>5. (CurrentInBatch /\ CommittedHasEffect /\ CompletedWasQueued /\ NoSilentLoss)'
    BY <1>2, <2>2 DEF BackoffExpires, loopVars, CurrentInBatch, CommittedHasEffect,
                      CompletedWasQueued, NoSilentLoss
  <2> QED
    BY <2>3, <2>4, <2>5
<1>3. ASSUME NEW l \in Loops, ClaimBegin(l) PROVE IInv'
  <2>1. PICK B \in SUBSET Claimable(l) : batch' = [batch EXCEPT ![l] = B]
    BY <1>3 DEF ClaimBegin
  <2>2. ClaimLocks'
    BY <1>3, <2>1 DEF ClaimBegin, ClaimLocks, Claimable, Pending, RowLocked
  <2>3. (TypeOK /\ BatchQueued /\ CurrentInBatch /\ CommittedHasEffect
         /\ CompletedWasQueued /\ NoSilentLoss)'
    BY <1>3, <2>1 DEF ClaimBegin, Claimable, Pending, BatchQueued, CurrentInBatch,
                      CommittedHasEffect, CompletedWasQueued, NoSilentLoss
  <2> QED
    BY <2>2, <2>3
<1>4. ASSUME NEW l \in Loops, ClaimCommit(l) PROVE IInv'
  <2>0. \A m \in batch[l] : outbox[m].attempts < MaxAttempts
    BY <1>4 DEF ClaimCommit, ClaimLocks
  <2>1. outbox' \in [Messages -> Row]
    BY <1>4, <2>0, ClaimTyping DEF ClaimCommit, SetClaimed
  <2>2. \A n \in Messages :
          /\ outbox'[n].completed = outbox[n].completed
          /\ outbox'[n].queued = outbox[n].queued
          /\ n \notin batch[l] => outbox'[n] = outbox[n]
    BY <1>4, <2>0, ClaimTyping DEF ClaimCommit, SetClaimed
  <2>3. TypeOK'
    BY <1>4, <2>1 DEF ClaimCommit, ModeAfterClaim
  <2>4. ClaimLocks'
    BY <1>4, <2>2 DEF ClaimCommit, ClaimLocks
  <2>5. (BatchQueued /\ CurrentInBatch /\ CommittedHasEffect
         /\ CompletedWasQueued /\ NoSilentLoss)'
    BY <1>4, <2>2 DEF ClaimCommit, BatchQueued, CurrentInBatch,
                CommittedHasEffect, CompletedWasQueued, NoSilentLoss
  <2> QED
    BY <2>3, <2>4, <2>5
<1>5. ASSUME NEW l \in Loops, NEW m \in Messages, StartHandling(l, m) PROVE IInv'
  BY <1>5 DEF StartHandling, ClaimLocks, BatchQueued, CurrentInBatch,
              CommittedHasEffect, CompletedWasQueued, NoSilentLoss
<1>6. ASSUME NEW l \in Loops, HandlerCommits(l) PROVE IInv'
  <2>1. current[l] \in Messages
    BY <1>6 DEF HandlerCommits, CurrentInBatch
  <2>2. /\ effects' \in [Messages -> Nat]
        /\ \A n \in Messages : effects'[n] >= effects[n]
        /\ effects'[current[l]] > 0
    BY <1>6, <2>1, EffectGrows DEF HandlerCommits
  <2>3. (TypeOK /\ ClaimLocks /\ BatchQueued /\ CurrentInBatch)'
    BY <1>6, <2>2 DEF HandlerCommits, ClaimLocks, BatchQueued, CurrentInBatch
  <2>4. CommittedHasEffect'
    BY <1>6, <2>2 DEF HandlerCommits, CurrentInBatch, CommittedHasEffect
  <2>5. (CompletedWasQueued /\ NoSilentLoss)'
    BY <1>6, <2>2 DEF HandlerCommits, CompletedWasQueued, NoSilentLoss
  <2> QED
    BY <2>3, <2>4, <2>5
<1>7. ASSUME NEW l \in Loops, HandlerRaises(l) PROVE IInv'
  BY <1>7 DEF HandlerRaises, Fault, ClaimLocks, BatchQueued, CurrentInBatch,
              CommittedHasEffect, CompletedWasQueued, NoSilentLoss
<1>8. ASSUME NEW l \in Loops, Complete(l) PROVE IInv'
  <2>1. current[l] \in Messages /\ current[l] \in batch[l] /\ effects[current[l]] > 0
    BY <1>8 DEF Complete, CurrentInBatch, CommittedHasEffect
  <2>2. \A k \in Loops : pc[k] = "claiming" => current[l] \notin batch[k]
    BY <1>8 DEF Complete, RowLocked
  <2>3. outbox' \in [Messages -> Row]
    BY <1>8, <2>1, RowTyping DEF Complete, SetCompleted
  <2>4. \A n \in Messages :
          /\ outbox'[n].queued = outbox[n].queued
          /\ n # current[l] => outbox'[n] = outbox[n]
    BY <1>8, <2>1 DEF Complete, SetCompleted, Row
  <2>5. TypeOK'
    BY <1>8, <2>1, <2>3 DEF Complete, NextOfBatch
  <2>6. (ClaimLocks /\ BatchQueued /\ CurrentInBatch)'
    BY <1>8, <2>1, <2>2, <2>4 DEF Complete, NextOfBatch, ClaimLocks, BatchQueued,
                                  CurrentInBatch
  <2>7. (CommittedHasEffect /\ CompletedWasQueued /\ NoSilentLoss)'
    BY <1>8, <2>1, <2>4 DEF Complete, NextOfBatch, BatchQueued, CommittedHasEffect,
                            CompletedWasQueued, NoSilentLoss
  <2> QED
    BY <2>5, <2>6, <2>7
<1>9. ASSUME NEW l \in Loops, CompleteRaises(l) PROVE IInv'
  BY <1>9 DEF CompleteRaises, Fault, ClaimLocks, BatchQueued, CurrentInBatch,
              CommittedHasEffect, CompletedWasQueued, NoSilentLoss
<1>10. ASSUME NEW l \in Loops, Fail(l) PROVE IInv'
  <2>1. current[l] \in Messages
    BY <1>10 DEF Fail, CurrentInBatch
  <2>2. outbox' \in [Messages -> Row]
    BY <1>10, <2>1, RowTyping DEF Fail, SetFailed
  <2>3. \A n \in Messages :
          /\ outbox'[n].queued = outbox[n].queued
          /\ outbox'[n].completed = outbox[n].completed
          /\ outbox'[n].attempts = outbox[n].attempts
    BY <1>10, <2>1 DEF Fail, SetFailed, Row
  <2>4. TypeOK'
    BY <1>10, <2>1, <2>2 DEF Fail, Lapse, NextOfBatch
  <2>5. (ClaimLocks /\ BatchQueued /\ CurrentInBatch)'
    BY <1>10, <2>1, <2>3 DEF Fail, NextOfBatch, ClaimLocks, BatchQueued,
                             CurrentInBatch
  <2>6. (CommittedHasEffect /\ CompletedWasQueued /\ NoSilentLoss)'
    BY <1>10, <2>1, <2>3 DEF Fail, NextOfBatch, CommittedHasEffect,
                             CompletedWasQueued, NoSilentLoss
  <2> QED
    BY <2>4, <2>5, <2>6
<1>11. ASSUME NEW l \in Loops, FailRaises(l) PROVE IInv'
  BY <1>11 DEF FailRaises, Fault, Lapse, ClaimLocks, BatchQueued, CurrentInBatch,
               CommittedHasEffect, CompletedWasQueued, NoSilentLoss
<1>12. ASSUME NEW l \in Loops, Crash(l) PROVE IInv'
  BY <1>12 DEF Crash, Fault, Lapse, ClaimLocks, BatchQueued, CurrentInBatch,
               CommittedHasEffect, CompletedWasQueued, NoSilentLoss
<1>13. ASSUME NEW l \in Loops, Restart(l) PROVE IInv'
  BY <1>13 DEF Restart, StartMode, ClaimLocks, BatchQueued, CurrentInBatch,
               CommittedHasEffect, CompletedWasQueued, NoSilentLoss
<1>14. ASSUME NEW l \in Loops, ReadLag(l) PROVE IInv'
  BY <1>14 DEF ReadLag, ClaimLocks, BatchQueued, CurrentInBatch,
               CommittedHasEffect, CompletedWasQueued, NoSilentLoss
<1>15. CASE UNCHANGED vars
  BY <1>15 DEF vars, loopVars, ClaimLocks, BatchQueued, CurrentInBatch,
               CommittedHasEffect, CompletedWasQueued, NoSilentLoss
<1> QED
  BY <1>1, <1>2, <1>3, <1>4, <1>5, <1>6, <1>7, <1>8, <1>9, <1>10, <1>11, <1>12,
     <1>13, <1>14, <1>15 DEF Next, Work

LEMMA Invariance == Spec => []IInv
  BY InitIInv, NextIInv, PTL DEF Spec

-----------------------------------------------------------------------------
\* Every variable keeps its type; in particular no row is ever claimed more
\* than max_attempts times, however many claims overlap.
THEOREM TypeCorrect == Spec => []TypeOK
  BY Invariance, PTL DEF IInv

\* No message is retired before a handler transaction for it has committed.
THEOREM RetiredHasEffect == Spec => []NoSilentLoss
  BY Invariance, PTL DEF IInv

\* No statement of any loop changes a completed row.
THEOREM RetirementIsFinal == Spec => CompletedIsFinal
<1>1. IInv /\ [Next]_vars =>
        [\A m \in Messages : outbox[m].completed => outbox'[m] = outbox[m]]_vars
  <2> SUFFICES ASSUME IInv, Next, NEW m \in Messages, outbox[m].completed
               PROVE  outbox'[m] = outbox[m]
    OBVIOUS
  <2> USE DEF IInv, TypeOK, Row
  <2>1. ASSUME NEW n \in Messages, Enqueue(n) \/ BackoffExpires(n)
        PROVE  outbox'[m] = outbox[m]
    <3>1. CASE n # m
      BY <2>1, <3>1 DEF Enqueue, BackoffExpires
    <3>2. CASE n = m /\ BackoffExpires(n)
      BY <3>2 DEF BackoffExpires, Pending
    <3>3. CASE n = m /\ Enqueue(n)
      BY <3>3 DEF Enqueue, CompletedWasQueued
    <3> QED
      BY <2>1, <3>1, <3>2, <3>3
  <2>2. ASSUME NEW l \in Loops, ClaimCommit(l)
        PROVE  outbox'[m] = outbox[m]
    BY <2>2 DEF ClaimCommit, SetClaimed, ClaimLocks
  <2>3. ASSUME NEW l \in Loops, Complete(l) \/ Fail(l)
        PROVE  outbox'[m] = outbox[m]
    BY <2>3 DEF Complete, Fail, SetCompleted, SetFailed
  <2>4. ASSUME NEW l \in Loops, UNCHANGED outbox
        PROVE  outbox'[m] = outbox[m]
    BY <2>4
  <2> QED
    BY <2>1, <2>2, <2>3, <2>4
       DEF Next, Work, ClaimBegin, StartHandling, HandlerCommits, HandlerRaises,
           CompleteRaises, FailRaises, Crash, Restart, ReadLag
<1> QED
  BY <1>1, Invariance, PTL DEF Spec, CompletedIsFinal

-----------------------------------------------------------------------------
(* Attempts                                                                *)

\* A loop that is between two cycles, or down, has no claim in its hands.
NoneHeldBetween == \A l \in Loops : pc[l] \in {"idle", "down"} => batch[l] = {}

Accounted(m) ==
  /\ IsFiniteSet(Holders(m))
  /\ ~outbox[m].completed => outbox[m].attempts = lapsed[m] + Cardinality(Holders(m))

AInv == IInv /\ NoneHeldBetween /\ \A m \in Messages : Accounted(m)

LEMMA InitAInv == Init => AInv
<1> SUFFICES ASSUME Init PROVE AInv
  OBVIOUS
<1>1. IInv
  BY InitIInv
<1>2. NoneHeldBetween
  BY DEF Init, NoneHeldBetween
<1>3. ASSUME NEW m \in Messages PROVE Accounted(m)
  <2>1. Holders(m) = {}
    BY DEF Init, Holders
  <2>2. outbox[m].attempts = 0 /\ lapsed[m] = 0
    BY DEF Init
  <2> QED
    BY <2>1, <2>2, FS_EmptySet DEF Accounted
<1> QED
  BY <1>1, <1>2, <1>3 DEF AInv

\* Nothing that is counted changes.
LEMMA KeepsAccount ==
  ASSUME NEW m \in Messages, Accounted(m), Holders(m)' = Holders(m),
         outbox'[m].completed = outbox[m].completed,
         outbox'[m].attempts = outbox[m].attempts, lapsed'[m] = lapsed[m]
  PROVE  Accounted(m)'
  BY DEF Accounted

\* A claim of m is committed: one attempt more, in the hands of l.
LEMMA ClaimAccounts ==
  ASSUME NEW m \in Messages, TypeOK, Accounted(m), NEW l \in Loops, l \notin Holders(m),
         Holders(m)' = Holders(m) \cup {l},
         outbox'[m].completed = outbox[m].completed,
         outbox'[m].attempts = outbox[m].attempts + 1, lapsed'[m] = lapsed[m]
  PROVE  Accounted(m)'
<1>1. /\ IsFiniteSet(Holders(m))'
      /\ Cardinality(Holders(m))' = Cardinality(Holders(m)) + 1
  BY FS_AddElement DEF Accounted
<1>2. /\ outbox[m].attempts \in Int /\ lapsed[m] \in Int
      /\ Cardinality(Holders(m)) \in Int
  BY FS_CardinalityType, QueueAssumption DEF TypeOK, Row, Accounted
<1> QED
  BY <1>1, <1>2 DEF Accounted

\* Loop l lets m go without settling it: the attempt has lapsed.
LEMMA LapseAccounts ==
  ASSUME NEW m \in Messages, TypeOK, Accounted(m), NEW l \in Holders(m),
         Holders(m)' = Holders(m) \ {l},
         outbox'[m].completed = outbox[m].completed,
         outbox'[m].attempts = outbox[m].attempts, lapsed'[m] = lapsed[m] + 1
  PROVE  Accounted(m)'
<1>1. /\ IsFiniteSet(Holders(m))'
      /\ Cardinality(Holders(m))' = Cardinality(Holders(m)) - 1
  BY FS_RemoveElement DEF Accounted
<1>2. /\ outbox[m].attempts \in Int /\ lapsed[m] \in Int
      /\ Cardinality(Holders(m)) \in Int
  BY FS_CardinalityType, QueueAssumption DEF TypeOK, Row, Accounted
<1> QED
  BY <1>1, <1>2 DEF Accounted

\* Loop l lets m go, and m is completed.
LEMMA CompletionAccounts ==
  ASSUME NEW m \in Messages, Accounted(m), NEW l,
         Holders(m)' = Holders(m) \ {l}, outbox'[m].completed
  PROVE  Accounted(m)'
  BY FS_RemoveElement DEF Accounted

\* The batch of a loop, and with it the holders, are given up.
LEMMA DropAccounts ==
  ASSUME TypeOK, NEW l \in Loops, NEW m \in Messages, Accounted(m), UNCHANGED outbox,
         batch' = [batch EXCEPT ![l] = {}], NEW p, pc' = [pc EXCEPT ![l] = p],
         lapsed' = IF pc[l] = "claiming" THEN lapsed ELSE Lapse(batch[l])
  PROVE  Accounted(m)'
<1>1. Holders(m)' = Holders(m) \ {l}
  BY DEF TypeOK, Holders
<1>2. CASE l \in Holders(m)
  <2>1. lapsed'[m] = lapsed[m] + 1
    BY <1>2 DEF Holders, Lapse
  <2> QED
    BY <1>1, <1>2, <2>1, LapseAccounts
<1>3. CASE l \notin Holders(m)
  <2>1. lapsed'[m] = lapsed[m]
    BY <1>3 DEF TypeOK, Holders, Lapse
  <2>2. Holders(m)' = Holders(m)
    BY <1>1, <1>3
  <2> QED
    BY <2>1, <2>2, KeepsAccount
<1> QED
  BY <1>2, <1>3

LEMMA BetweenStep ==
  ASSUME IInv, NoneHeldBetween, [Next]_vars
  PROVE  NoneHeldBetween'
<1> USE DEF IInv, TypeOK, NoneHeldBetween
<1>1. ASSUME NEW m \in Messages, Enqueue(m) \/ BackoffExpires(m)
      PROVE  NoneHeldBetween'
  BY <1>1 DEF Enqueue, BackoffExpires, loopVars
<1>2. ASSUME NEW l \in Loops, ClaimBegin(l) \/ ClaimCommit(l)
      PROVE  NoneHeldBetween'
  BY <1>2 DEF ClaimBegin, ClaimCommit
<1>3. ASSUME NEW l \in Loops,
             \/ \E m \in Messages : StartHandling(l, m)
             \/ HandlerCommits(l) \/ HandlerRaises(l) \/ CompleteRaises(l)
             \/ ReadLag(l) \/ Restart(l)
      PROVE  NoneHeldBetween'
  BY <1>3 DEF StartHandling, HandlerCommits, HandlerRaises, CompleteRaises, ReadLag,
              Restart
<1>4. ASSUME NEW l \in Loops, Complete(l) \/ Fail(l)
      PROVE  NoneHeldBetween'
  BY <1>4 DEF Complete, Fail, NextOfBatch
<1>5. ASSUME NEW l \in Loops, FailRaises(l) \/ Crash(l)
      PROVE  NoneHeldBetween'
  BY <1>5 DEF FailRaises, Crash
<1>6. CASE UNCHANGED vars
  BY <1>6 DEF vars, loopVars
<1> QED
  BY <1>1, <1>2, <1>3, <1>4, <1>5, <1>6 DEF Next, Work

LEMMA AccountStep ==
  ASSUME IInv, NoneHeldBetween, [Next]_vars, NEW m \in Messages, Accounted(m)
  PROVE  Accounted(m)'
<1>t. TypeOK
  BY DEF IInv
<1>1. ASSUME UNCHANGED lapsed, Holders(m)' = Holders(m),
             outbox'[m].completed = outbox[m].completed,
             outbox'[m].attempts = outbox[m].attempts
      PROVE  Accounted(m)'
  BY <1>1, KeepsAccount
<1>2. ASSUME NEW n \in Messages, Enqueue(n) \/ BackoffExpires(n)
      PROVE  Accounted(m)'
  <2>1. /\ outbox'[m].completed = outbox[m].completed
        /\ outbox'[m].attempts = outbox[m].attempts
    BY <1>2, <1>t DEF Enqueue, BackoffExpires, TypeOK, Row
  <2>2. UNCHANGED lapsed /\ Holders(m)' = Holders(m)
    BY <1>2 DEF Enqueue, BackoffExpires, loopVars, Holders
  <2> QED
    BY <1>1, <2>1, <2>2
<1>3. ASSUME NEW l \in Loops, ClaimBegin(l)
      PROVE  Accounted(m)'
  <2>1. Holders(m)' = Holders(m)
    BY <1>3, <1>t DEF ClaimBegin, NoneHeldBetween, Holders, TypeOK
  <2> QED
    BY <1>1, <1>3, <2>1 DEF ClaimBegin
<1>4. ASSUME NEW l \in Loops, ClaimCommit(l)
      PROVE  Accounted(m)'
  <2>1. UNCHANGED lapsed /\ pc[l] = "claiming"
    BY <1>4 DEF ClaimCommit
  <2>2. CASE m \in batch[l]
    <3>1. l \notin Holders(m) /\ Holders(m)' = Holders(m) \cup {l}
      BY <1>4, <1>t, <2>2 DEF ClaimCommit, Holders, TypeOK
    <3>2. /\ outbox'[m].completed = outbox[m].completed
          /\ outbox'[m].attempts = outbox[m].attempts + 1
      BY <1>4, <1>t, <2>2 DEF ClaimCommit, SetClaimed, TypeOK, Row
    <3> QED
      BY <1>t, <2>1, <3>1, <3>2, ClaimAccounts
  <2>3. CASE m \notin batch[l]
    <3>1. Holders(m)' = Holders(m)
      BY <1>4, <1>t, <2>3 DEF ClaimCommit, Holders, TypeOK
    <3>2. outbox'[m] = outbox[m]
      BY <1>4, <2>3 DEF ClaimCommit, SetClaimed
    <3> QED
      BY <1>1, <2>1, <3>1, <3>2
  <2> QED
    BY <2>2, <2>3
<1>5. ASSUME NEW l \in Loops,
             \/ \E n \in Messages : StartHandling(l, n)
             \/ HandlerCommits(l) \/ HandlerRaises(l) \/ CompleteRaises(l)
             \/ ReadLag(l) \/ Restart(l)
      PROVE  Accounted(m)'
  <2>1. UNCHANGED <<outbox, lapsed, batch>>
    BY <1>5 DEF StartHandling, HandlerCommits, HandlerRaises, CompleteRaises, ReadLag,
                Restart
  <2>2. \A k \in Loops : (pc'[k] = "claiming") <=> (pc[k] = "claiming")
    BY <1>5, <1>t DEF StartHandling, HandlerCommits, HandlerRaises, CompleteRaises,
                      ReadLag, Restart, TypeOK
  <2>3. Holders(m)' = Holders(m)
    BY <2>1, <2>2 DEF Holders
  <2> QED
    BY <1>1, <2>1, <2>3
<1>6. ASSUME NEW l \in Loops, pc[l] \in {"committed", "raised"}, NextOfBatch(l)
      PROVE  /\ m = current[l] => Holders(m)' = Holders(m) \ {l} /\ l \in Holders(m)
             /\ m # current[l] => Holders(m)' = Holders(m)
  <2>1. current[l] \in batch[l]
    BY <1>6 DEF IInv, CurrentInBatch
  <2>2. ASSUME m = current[l]
        PROVE  Holders(m)' = Holders(m) \ {l} /\ l \in Holders(m)
    BY <1>6, <1>t, <2>1, <2>2 DEF NextOfBatch, Holders, TypeOK
  <2>3. ASSUME m # current[l]
        PROVE  Holders(m)' = Holders(m)
    <3>1. batch' = [batch EXCEPT ![l] = batch[l] \ {current[l]}]
      BY <1>6 DEF NextOfBatch
    <3>2. \A k \in Loops : m \in batch'[k] <=> m \in batch[k]
      BY <1>t, <2>3, <3>1 DEF TypeOK
    <3>3. \A k \in Loops : (pc'[k] = "claiming") <=> (pc[k] = "claiming")
      BY <1>6, <1>t DEF NextOfBatch, TypeOK
    <3> QED
      BY <3>2, <3>3 DEF Holders
  <2> QED
    BY <2>2, <2>3
<1>7. ASSUME NEW l \in Loops, Complete(l)
      PROVE  Accounted(m)'
  <2>1. pc[l] \in {"committed", "raised"} /\ NextOfBatch(l) /\ UNCHANGED lapsed
    BY <1>7 DEF Complete
  <2>2. CASE m = current[l]
    <3>1. outbox'[m].completed
      BY <1>7, <1>t, <2>2 DEF Complete, SetCompleted, TypeOK, Row
    <3>2. Holders(m)' = Holders(m) \ {l}
      BY <1>6, <2>1, <2>2
    <3> QED
      BY <3>1, <3>2, CompletionAccounts
  <2>3. CASE m # current[l]
    <3>1. outbox'[m] = outbox[m]
      BY <1>7, <1>t, <2>3 DEF Complete, SetCompleted, TypeOK
    <3>2. Holders(m)' = Holders(m)
      BY <1>6, <2>1, <2>3
    <3> QED
      BY <1>1, <2>1, <3>1, <3>2
  <2> QED
    BY <2>2, <2>3
<1>8. ASSUME NEW l \in Loops, Fail(l)
      PROVE  Accounted(m)'
  <2>1. pc[l] \in {"committed", "raised"} /\ NextOfBatch(l)
    BY <1>8 DEF Fail
  <2>2. /\ outbox'[m].completed = outbox[m].completed
        /\ outbox'[m].attempts = outbox[m].attempts
    BY <1>8, <1>t DEF Fail, SetFailed, TypeOK, Row
  <2>3. CASE m = current[l]
    <3>1. lapsed'[m] = lapsed[m] + 1
      BY <1>8, <2>3 DEF Fail, Lapse
    <3>2. Holders(m)' = Holders(m) \ {l} /\ l \in Holders(m)
      BY <1>6, <2>1, <2>3
    <3> QED
      BY <1>t, <2>2, <3>1, <3>2, LapseAccounts
  <2>4. CASE m # current[l]
    <3>1. lapsed'[m] = lapsed[m]
      BY <1>8, <2>4 DEF Fail, Lapse
    <3>2. Holders(m)' = Holders(m)
      BY <1>6, <2>1, <2>4
    <3> QED
      BY <2>2, <3>1, <3>2, KeepsAccount
  <2> QED
    BY <2>3, <2>4
<1>9. ASSUME NEW l \in Loops, FailRaises(l) \/ Crash(l)
      PROVE  Accounted(m)'
  <2>1. /\ UNCHANGED outbox /\ batch' = [batch EXCEPT ![l] = {}]
        /\ lapsed' = IF pc[l] = "claiming" THEN lapsed ELSE Lapse(batch[l])
    BY <1>9 DEF FailRaises, Crash
  <2>2. PICK p : pc' = [pc EXCEPT ![l] = p]
    BY <1>9 DEF FailRaises, Crash
  <2> QED
    BY <1>t, <2>1, <2>2, DropAccounts
<1>10. CASE UNCHANGED vars
  BY <1>1, <1>10 DEF vars, loopVars, Holders
<1> QED
  BY <1>2, <1>3, <1>4, <1>5, <1>7, <1>8, <1>9, <1>10 DEF Next, Work

\* An attempt of an open message is never spent on nothing: whatever claims
\* overlap and whichever processes die, attempts are the claims that lapsed
\* and those some loop still holds.
THEOREM AttemptsAreAccounted == Spec => []AttemptAccounting
<1>1. AInv /\ [Next]_vars => AInv'
  BY NextIInv, BetweenStep, AccountStep DEF AInv
<1>2. AInv => AttemptAccounting
  BY DEF AInv, Accounted, AttemptAccounting
<1> QED
  BY InitAInv, <1>1, <1>2, PTL DEF Spec

-----------------------------------------------------------------------------
(* The outbox implements Delivery                                          *)

\* Every step of the queue and its workers is a step of the promise, or
\* leaves what the promise speaks of unchanged.
THEOREM OutboxImplementsDelivery == Spec => ImplementsDelivery
<1>1. Init => Promise!Init
  BY DEF Init, Promise!Init
<1>2. IInv /\ [Next]_vars => [Promise!Next]_(Promise!vars)
  <2> SUFFICES ASSUME IInv, Next PROVE [Promise!Next]_(Promise!vars)
    BY DEF vars, Promise!vars
  <2> USE DEF IInv, TypeOK
  <2>1. ASSUME NEW m \in Messages, Enqueue(m) PROVE Promise!Enqueue(m)
    <3>1. /\ outbox'[m].queued /\ ~outbox'[m].completed /\ ~outbox[m].queued
          /\ \A n \in Messages \ {m} : outbox'[n] = outbox[n]
      BY <2>1 DEF Enqueue, CompletedWasQueued, Row
    <3> QED
      BY <2>1, <3>1 DEF Enqueue, Promise!Enqueue
  <2>2. ASSUME NEW m \in Messages, BackoffExpires(m) PROVE UNCHANGED Promise!vars
    <3>1. \A n \in Messages : /\ outbox'[n].queued = outbox[n].queued
                              /\ outbox'[n].completed = outbox[n].completed
      BY <2>2 DEF BackoffExpires, Row
    <3> QED
      BY <2>2, <3>1 DEF BackoffExpires, Promise!vars
  <2>3. ASSUME NEW l \in Loops, ClaimCommit(l) PROVE UNCHANGED Promise!vars
    <3>1. \A n \in Messages : /\ outbox'[n].queued = outbox[n].queued
                              /\ outbox'[n].completed = outbox[n].completed
      BY <2>3, ClaimTyping DEF ClaimCommit, SetClaimed, ClaimLocks
    <3> QED
      BY <2>3, <3>1 DEF ClaimCommit, Promise!vars
  <2>4. ASSUME NEW l \in Loops, NEW c \in Messages, c = current[l], HandlerCommits(l)
        PROVE  Promise!TakeEffect(c)
    <3>1. outbox[c].queued
      BY <2>4 DEF HandlerCommits, CurrentInBatch, BatchQueued
    <3> QED
      BY <2>4, <3>1 DEF HandlerCommits, Promise!TakeEffect
  <2>5. ASSUME NEW l \in Loops, NEW c \in Messages, c = current[l], Complete(l)
        PROVE  Promise!Retire(c) \/ UNCHANGED Promise!vars
    <3>1. outbox[c].queued /\ effects[c] > 0
      BY <2>5 DEF Complete, CurrentInBatch, BatchQueued, CommittedHasEffect
    <3>2. CASE outbox[c].completed
      BY <2>5, <3>2 DEF Complete, SetCompleted, Promise!vars
    <3>3. CASE ~outbox[c].completed
      <4>1. /\ outbox'[c].queued /\ outbox'[c].completed
            /\ \A n \in Messages \ {c} : outbox'[n] = outbox[n]
        BY <2>5, <3>1, <3>3 DEF Complete, SetCompleted, Row
      <4> QED
        BY <2>5, <3>1, <3>3, <4>1 DEF Complete, Promise!Retire
    <3> QED
      BY <3>2, <3>3
  <2>6. ASSUME NEW l \in Loops, Fail(l) PROVE UNCHANGED Promise!vars
    <3>1. \A n \in Messages : /\ outbox'[n].queued = outbox[n].queued
                              /\ outbox'[n].completed = outbox[n].completed
      BY <2>6 DEF Fail, SetFailed, CurrentInBatch, Row
    <3> QED
      BY <2>6, <3>1 DEF Fail, Promise!vars
  <2>7. ASSUME NEW l \in Loops,
               \/ ClaimBegin(l) \/ \E m \in Messages : StartHandling(l, m)
               \/ HandlerRaises(l) \/ CompleteRaises(l) \/ FailRaises(l)
               \/ ReadLag(l) \/ Crash(l) \/ Restart(l)
        PROVE  UNCHANGED Promise!vars
    <3>1. UNCHANGED <<outbox, effects>>
      BY <2>7 DEF ClaimBegin, StartHandling, HandlerRaises, CompleteRaises,
                  FailRaises, ReadLag, Crash, Restart
    <3> QED
      BY <3>1 DEF Promise!vars
  <2>8. ASSUME NEW l \in Loops, HandlerCommits(l) \/ Complete(l)
        PROVE  \E c \in Messages : c = current[l]
    BY <2>8 DEF HandlerCommits, Complete, CurrentInBatch
  <2> HIDE DEF IInv, TypeOK
  <2>9. ASSUME NEW l \in Loops, Work(l) \/ Crash(l) \/ Restart(l)
        PROVE  [Promise!Next]_(Promise!vars)
    <3>1. CASE HandlerCommits(l) \/ Complete(l)
      <4>1. PICK c \in Messages : c = current[l]
        BY <2>8, <3>1
      <4> QED
        BY <2>4, <2>5, <3>1, <4>1 DEF Promise!Next
    <3>2. CASE ClaimCommit(l) \/ Fail(l)
      BY <2>3, <2>6, <3>2
    <3> QED
      BY <2>7, <2>9, <3>1, <3>2 DEF Work
  <2>10. ASSUME NEW m \in Messages, Enqueue(m) \/ BackoffExpires(m)
         PROVE  [Promise!Next]_(Promise!vars)
    BY <2>1, <2>2, <2>10 DEF Promise!Next
  <2> QED
    BY <2>9, <2>10 DEF Next
<1> QED
  BY <1>1, <1>2, Invariance, PTL DEF Spec, ImplementsDelivery, Promise!Spec
=============================================================================
