------------------------- MODULE ProjectionsProofs -------------------------
(***************************************************************************)
(* Type correctness of Projections, and that only what was believed is     *)
(* ever indexed, for any number of claims and projectors.                  *)
(***************************************************************************)
EXTENDS Projections, TLAPS

\* Whoever is accepted or disputed now was noted as believed.
StatusIsNoted == \A c \in Claims : Indexable(status[c]) => c \in believed

\* A rebuild embeds a claim only in its loop.
EmbedsInLoop == rebuild.at # None => rebuild.phase = "loop"

IInv == TypeOK /\ StatusIsNoted /\ EmbedsInLoop /\ IndexedWasBelieved

\* A transaction that gives claims statuses keeps the types of the store and
\* notes whom it made believed.
LEMMA StatusesAreNoted ==
  ASSUME TypeOK, StatusIsNoted,
         NEW changed \in SUBSET Claims, NEW to \in [changed -> Statuses], SetStatus(to)
  PROVE  /\ status' \in [Claims -> Statuses]
         /\ believed \subseteq believed' /\ believed' \subseteq Claims
         /\ \A c \in Claims : Indexable(status'[c]) => c \in believed'
  BY DEF TypeOK, StatusIsNoted, SetStatus, Indexable

LEMMA InitEstablishes == ASSUME ProjectionAssumption, Init PROVE IInv
<1>1. TypeOK
  BY ProjectionAssumption DEF Init, TypeOK, IdleRebuild, Replays, Statuses
<1>2. StatusIsNoted
  BY DEF Init, StatusIsNoted, Indexable
<1>3. IndexedWasBelieved
  BY DEF Init, IndexedWasBelieved, IdleRebuild
<1>4. EmbedsInLoop
  BY DEF Init, EmbedsInLoop, IdleRebuild
<1> QED BY <1>1, <1>2, <1>3, <1>4 DEF IInv

LEMMA StoreKeeps == ASSUME ProjectionAssumption, IInv, Store PROVE IInv'
<1> USE DEF IInv, EmbedsInLoop
<1>1. ASSUME NEW c \in Claims, NEW s \in {"proposed", "accepted"}, NEW projects \in BOOLEAN,
             Ingested(c, s, projects)
      PROVE IInv'
  <2>1. [d \in {c} |-> s] \in [{c} -> Statuses]
    BY DEF Statuses
  <2>2. /\ status' \in [Claims -> Statuses]
        /\ believed \subseteq believed' /\ believed' \subseteq Claims
        /\ StatusIsNoted'
    BY <1>1, <2>1, StatusesAreNoted DEF Ingested, StatusIsNoted
  <2>3. Indexable(s) => c \in believed'
    BY <1>1 DEF Ingested, SetStatus, Indexable
  <2>4. TypeOK' /\ EmbedsInLoop'
    BY <1>1, <2>2 DEF TypeOK, Ingested
  <2>5. IndexedWasBelieved'
    BY <1>1, <2>2, <2>3 DEF IndexedWasBelieved, Ingested
  <2> QED BY <2>2, <2>4, <2>5
<1>2. ASSUME NEW c \in Claims, Reviewed(c) PROVE IInv'
  <2>1. [d \in {c} |-> "accepted"] \in [{c} -> Statuses]
    BY DEF Statuses
  <2>2. /\ status' \in [Claims -> Statuses]
        /\ believed \subseteq believed' /\ believed' \subseteq Claims
        /\ StatusIsNoted'
    BY <1>2, <2>1, StatusesAreNoted DEF Reviewed, StatusIsNoted
  <2> QED BY <1>2, <2>2 DEF TypeOK, IndexedWasBelieved, Reviewed
<1>3. ASSUME NEW c \in Claims, Superseded(c) PROVE IInv'
  <2>1. [d \in {c} |-> "superseded"] \in [{c} -> Statuses]
    BY DEF Statuses
  <2>2. /\ status' \in [Claims -> Statuses]
        /\ believed \subseteq believed' /\ believed' \subseteq Claims
        /\ StatusIsNoted'
    BY <1>3, <2>1, StatusesAreNoted DEF Superseded, StatusIsNoted
  <2> QED BY <1>3, <2>2 DEF TypeOK, IndexedWasBelieved, Superseded
<1> QED BY <1>1, <1>2, <1>3 DEF Store

LEMMA WorkKeeps == ASSUME ProjectionAssumption, IInv, Work PROVE IInv'
<1> USE DEF IInv, EmbedsInLoop
<1>1. PICK p \in Projectors :
        \/ \E c \in Claims : Read(p, c) \/ Deindex(p, c)
        \/ Index(p) \/ Fail(p)
  BY DEF Work
<1>2. CASE \E c \in Claims : Read(p, c)
  <2>1. PICK c \in Claims : Read(p, c)
    BY <1>2
  <2>2. c \in believed
    BY <2>1 DEF Read, StatusIsNoted
  <2>3. TypeOK' /\ StatusIsNoted' /\ EmbedsInLoop'
    BY <2>1 DEF TypeOK, StatusIsNoted, Read
  <2>4. IndexedWasBelieved'
    BY <2>1, <2>2 DEF IndexedWasBelieved, TypeOK, Read
  <2> QED BY <2>3, <2>4
<1>3. CASE \E c \in Claims : Deindex(p, c)
  BY <1>3 DEF TypeOK, StatusIsNoted, IndexedWasBelieved, Deindex, Handled
<1>4. CASE Index(p)
  <2>1. reading[p] \in Claims /\ reading[p] \in believed
    BY <1>4 DEF Index, TypeOK, IndexedWasBelieved
  <2>2. TypeOK' /\ StatusIsNoted' /\ EmbedsInLoop'
    BY <1>4, <2>1 DEF TypeOK, StatusIsNoted, Index, Handled
  <2>3. IndexedWasBelieved'
    BY <1>4, <2>1 DEF IndexedWasBelieved, TypeOK, Index
  <2> QED BY <2>2, <2>3
<1>5. CASE Fail(p)
  <2>1. faults' \in 0 .. MaxFaults
    BY <1>5, ProjectionAssumption DEF Fail, TypeOK
  <2>2. TypeOK' /\ StatusIsNoted' /\ EmbedsInLoop'
    BY <1>5, <2>1 DEF TypeOK, StatusIsNoted, Fail
  <2>3. IndexedWasBelieved'
    BY <1>5 DEF IndexedWasBelieved, TypeOK, Fail
  <2> QED BY <2>2, <2>3
<1> QED BY <1>1, <1>2, <1>3, <1>4, <1>5

\* Only the end of a rebuild touches more than rebuild itself.
LEMMA RebuildKeeps == ASSUME ProjectionAssumption, IInv, Rebuild PROVE IInv'
<1> USE DEF IInv
<1> DEFINE Frame == UNCHANGED <<status, queue, indexed, reading, retire, faults, believed>>
           Shape == /\ rebuild' \in Replays
                    /\ rebuild'.todo \subseteq rebuild'.listed
                    /\ rebuild'.at \in (rebuild'.listed \ rebuild'.todo) \cup {None}
                    /\ rebuild'.at # None => rebuild'.phase = "loop"
           Backed == rebuild'.wrote \cup {rebuild'.at} \subseteq believed \cup {None}
<1>0. ASSUME Frame, Shape, Backed PROVE IInv'
  BY <1>0 DEF TypeOK, StatusIsNoted, EmbedsInLoop, IndexedWasBelieved
<1>1. ASSUME NEW truncates \in BOOLEAN, RebuildList(truncates) PROVE IInv'
  <2>1. rebuild.at = None
    BY <1>1 DEF RebuildList, EmbedsInLoop
  <2>2. Shape
    BY <1>1, <2>1 DEF RebuildList, TypeOK, Replays
  <2>3. Frame /\ Backed
    BY <1>1, <2>1 DEF RebuildList, TypeOK, Replays, IndexedWasBelieved
  <2> QED BY <1>0, <2>2, <2>3
<1>2. ASSUME RebuildTruncate PROVE IInv'
  <2>1. rebuild.at = None
    BY <1>2 DEF RebuildTruncate, EmbedsInLoop
  <2>2. Shape
    BY <1>2, <2>1 DEF RebuildTruncate, TypeOK, Replays
  <2>3. Frame /\ Backed
    BY <1>2, <2>1 DEF RebuildTruncate, TypeOK, Replays
  <2> QED BY <1>0, <2>2, <2>3
<1>3. ASSUME NEW c \in Claims, RebuildRead(c) PROVE IInv'
  <2>1. c \in believed
    BY <1>3 DEF RebuildRead, StatusIsNoted
  <2>2. Shape
    BY <1>3 DEF RebuildRead, InLoop, TypeOK, Replays
  <2>3. Frame /\ Backed
    BY <1>3, <2>1 DEF RebuildRead, TypeOK, Replays, IndexedWasBelieved
  <2> QED BY <1>0, <2>2, <2>3
<1>4. ASSUME NEW c \in Claims, RebuildSkip(c) PROVE IInv'
  <2>1. Shape
    BY <1>4 DEF RebuildSkip, InLoop, TypeOK, Replays
  <2>2. Frame /\ Backed
    BY <1>4 DEF RebuildSkip, TypeOK, Replays, IndexedWasBelieved
  <2> QED BY <1>0, <2>1, <2>2
<1>5. ASSUME RebuildWrite PROVE IInv'
  <2>1. Shape
    BY <1>5 DEF RebuildWrite, TypeOK, Replays
  <2>2. Frame /\ Backed
    BY <1>5 DEF RebuildWrite, TypeOK, Replays, IndexedWasBelieved
  <2> QED BY <1>0, <2>1, <2>2
<1>6. ASSUME RebuildCommit PROVE IInv'
  <2>1. retire' \in Retirements \cup {None}
    BY <1>6 DEF RebuildCommit, TypeOK, Retirements
  <2>2. rebuild.wrote \subseteq Claims /\ rebuild.wrote \subseteq believed
    BY ProjectionAssumption DEF TypeOK, Replays, IndexedWasBelieved
  <2>3. TypeOK'
    BY <1>6, <2>1, <2>2 DEF RebuildCommit, TypeOK, IdleRebuild, Replays
  <2>4. StatusIsNoted' /\ EmbedsInLoop'
    BY <1>6 DEF RebuildCommit, StatusIsNoted, EmbedsInLoop, IdleRebuild
  <2>5. IndexedWasBelieved'
    BY <1>6, <2>2 DEF RebuildCommit, IndexedWasBelieved, IdleRebuild
  <2> QED BY <2>3, <2>4, <2>5
<1>7. ASSUME RebuildAbort PROVE IInv'
  <2>1. Shape
    BY <1>7 DEF RebuildAbort, IdleRebuild, Replays
  <2>2. Frame /\ Backed
    BY <1>7 DEF RebuildAbort, IdleRebuild
  <2> QED BY <1>0, <2>1, <2>2
<1> QED BY <1>1, <1>2, <1>3, <1>4, <1>5, <1>6, <1>7 DEF Rebuild

LEMMA RetentionKeeps == ASSUME ProjectionAssumption, IInv, Retention PROVE IInv'
<1> USE DEF IInv
<1>1. ASSUME NEW changed \in SUBSET Claims, NEW to \in [changed -> Statuses],
             NEW touched \in SUBSET Claims, NEW erases \in BOOLEAN, Retire(to, touched, erases)
      PROVE IInv'
  <2>1. retire' \in Retirements
    BY <1>1 DEF Retire, Retirements
  <2> QED
    BY <1>1, <2>1 DEF Retire, TypeOK, StatusIsNoted, EmbedsInLoop, IndexedWasBelieved
<1>2. ASSUME NEW c \in Claims, Correct(c) PROVE IInv'
  <2>1. CASE status[c] \in {"proposed", "accepted"}
    <3>1. PICK s \in {"superseded", "disputed"} : Retire([d \in {c} |-> s], {c}, FALSE)
      BY <1>2, <2>1 DEF Correct
    <3>2. [d \in {c} |-> s] \in [{c} -> Statuses]
      BY DEF Statuses
    <3> QED BY <1>1, <3>1, <3>2
  <2>2. CASE status[c] \notin {"proposed", "accepted"}
    <3>1. Retire([d \in {} |-> status[d]], {c}, FALSE)
      BY <1>2, <2>2 DEF Correct
    <3>2. [d \in {} |-> status[d]] \in [{} -> Statuses]
      OBVIOUS
    <3> QED BY <1>1, <3>1, <3>2
  <2> QED BY <2>1, <2>2
<1>3. ASSUME NEW selected \in SUBSET Claims, NEW rested \in SUBSET Claims,
             Forget(selected, rested)
      PROVE IInv'
  <2>1. [c \in selected |-> "revoked"] \in [selected -> Statuses]
    BY DEF Statuses
  <2>2. Retire([c \in selected |-> "revoked"], rested, TRUE)
    BY <1>3 DEF Forget
  <2> QED BY <1>1, <2>1, <2>2
<1>4. ASSUME RetireCommit PROVE IInv'
  <2>1. retire \in Retirements
    BY <1>4 DEF RetireCommit, TypeOK
  <2>2. PICK changed \in SUBSET Claims : retire.to \in [changed -> Statuses]
    BY <2>1 DEF Retirements
  <2>3. SetStatus(retire.to)
    BY <1>4 DEF RetireCommit
  <2>4. /\ status' \in [Claims -> Statuses]
        /\ believed \subseteq believed' /\ believed' \subseteq Claims
        /\ StatusIsNoted'
    BY <2>2, <2>3, StatusesAreNoted DEF StatusIsNoted
  <2> QED
    BY <1>4, <2>4 DEF RetireCommit, TypeOK, EmbedsInLoop, IndexedWasBelieved
<1>5. ASSUME RetireAbort PROVE IInv'
  BY <1>5 DEF RetireAbort, TypeOK, StatusIsNoted, EmbedsInLoop, IndexedWasBelieved
<1> QED BY <1>2, <1>3, <1>4, <1>5 DEF Retention

-----------------------------------------------------------------------------
LEMMA StepKeeps == ASSUME ProjectionAssumption PROVE IInv /\ [Next]_vars => IInv'
<1> SUFFICES ASSUME IInv, [Next]_vars PROVE IInv'
  OBVIOUS
<1>1. CASE UNCHANGED vars
  BY <1>1 DEF vars, IInv, TypeOK, StatusIsNoted, EmbedsInLoop, IndexedWasBelieved
<1>2. CASE Next
  BY <1>2, StoreKeeps, WorkKeeps, RebuildKeeps, RetentionKeeps DEF Next
<1> QED BY <1>1, <1>2

LEMMA Invariance == Spec => []IInv
<1>1. Init => IInv
  BY InitEstablishes, ProjectionAssumption
<1>2. IInv /\ [Next]_vars => IInv'
  BY StepKeeps, ProjectionAssumption
<1> QED BY <1>1, <1>2, PTL DEF Spec

\* The claim store, the messages and the transactions in progress keep their
\* types for any number of claims and projectors.
THEOREM TypeCorrect == Spec => []TypeOK
<1>1. IInv => TypeOK
  BY DEF IInv
<1> QED BY <1>1, Invariance, PTL

\* Nothing is indexed, about to be indexed or drafted by a rebuild that was
\* never accepted or disputed (projections.ts 11-16).
THEOREM OnlyBelievedIsIndexed == Spec => []IndexedWasBelieved
<1>1. IInv => IndexedWasBelieved
  BY DEF IInv
<1> QED BY <1>1, Invariance, PTL

-----------------------------------------------------------------------------
(***************************************************************************)
(* Accepted claims stay indexed.  What has to be known about a rebuild is  *)
(* that it has written every claim it listed and is past, unless the claim *)
(* was retired meanwhile; what has to be known about a retirement is that  *)
(* it has yet to change the statuses it read.                              *)
(***************************************************************************)
Decided(s) == s \in {"accepted", "disputed", "superseded", "revoked"}
Retired(s) == s \in {"superseded", "revoked"}

RebuildProgress ==
  /\ rebuild.phase = "listed" => rebuild.todo = rebuild.listed
  /\ \A c \in rebuild.listed : Decided(status[c])
  /\ \A c \in rebuild.listed \ rebuild.todo :
       c \in rebuild.wrote \/ c = rebuild.at \/ Retired(status[c])

RetirementPending ==
  retire # None =>
    /\ \A c \in DOMAIN retire.to :
         \/ retire.to[c] = "revoked"
         \/ retire.to[c] \in {"superseded", "disputed"} /\ status[c] \in {"proposed", "accepted"}
    /\ ~ retire.erases =>
         \A c \in retire.targets : c \in DOMAIN retire.to \/ status[c] \in {"disputed", "superseded", "revoked"}

SInv == IInv /\ RebuildProgress /\ RetirementPending

\* No step makes a claim accepted that was decided otherwise, or believed
\* again that was retired.
LEMMA StatusesAdvance ==
  ASSUME SInv, Next, NEW c \in Claims
  PROVE  /\ status[c] \notin {"absent", "accepted"} => status'[c] # "accepted"
         /\ Decided(status[c]) => Decided(status'[c])
         /\ Retired(status[c]) => Retired(status'[c])
<1> USE DEF SInv, IInv, TypeOK, SetStatus, Decided, Retired
<1>1. CASE Store
  <2>1. ASSUME NEW d \in Claims, NEW s \in {"proposed", "accepted"}, NEW projects \in BOOLEAN,
               Ingested(d, s, projects)
        PROVE  status[d] = "absent" /\ (c # d => status'[c] = status[c])
    BY <2>1 DEF Ingested
  <2>2. ASSUME NEW d \in Claims, Reviewed(d)
        PROVE  status[d] = "absent" /\ (c # d => status'[c] = status[c])
    BY <2>2 DEF Reviewed
  <2>3. ASSUME NEW d \in Claims, Superseded(d)
        PROVE  /\ status[d] = "accepted" /\ status'[d] = "superseded"
               /\ c # d => status'[c] = status[c]
    BY <2>3 DEF Superseded
  <2> QED BY <1>1, <2>1, <2>2, <2>3 DEF Store
<1>2. CASE Work \/ Rebuild
  BY <1>2 DEF Work, Rebuild, Read, Deindex, Index, Fail, RebuildList, RebuildTruncate,
              RebuildRead, RebuildSkip, RebuildWrite, RebuildCommit, RebuildAbort
<1>3. CASE Retention
  <2>1. CASE RetireCommit
    <3>1. status'[c] = IF c \in DOMAIN retire.to THEN retire.to[c] ELSE status[c]
      BY <2>1 DEF RetireCommit
    <3>2. c \in DOMAIN retire.to =>
            \/ retire.to[c] = "revoked"
            \/ retire.to[c] \in {"superseded", "disputed"} /\ status[c] \in {"proposed", "accepted"}
      BY <2>1 DEF RetireCommit, RetirementPending
    <3> QED BY <3>1, <3>2
  <2>2. CASE ~ RetireCommit
    BY <1>3, <2>2 DEF Retention, Correct, Forget, Retire, RetireAbort
  <2> QED BY <2>1, <2>2
<1> QED BY <1>1, <1>2, <1>3 DEF Next

LEMMA RebuildAdvances == ASSUME SInv, Next PROVE RebuildProgress'
<1> USE DEF SInv, Decided, Retired
<1>1. ASSUME UNCHANGED rebuild PROVE RebuildProgress'
  <2>1. rebuild.listed \subseteq Claims
    BY DEF IInv, TypeOK, Replays
  <2> QED BY <1>1, <2>1, StatusesAdvance DEF RebuildProgress
<1>2. CASE Store \/ Work \/ Retention
  BY <1>1, <1>2 DEF Store, Ingested, Reviewed, Superseded, Work, Read, Deindex, Index, Fail,
                    Retention, Correct, Forget, Retire, RetireCommit, RetireAbort
<1>3. CASE Rebuild
  <2>0. rebuild \in Replays /\ UNCHANGED status
    BY <1>3 DEF Rebuild, RebuildList, RebuildTruncate, RebuildRead, RebuildSkip, RebuildWrite,
                RebuildCommit, RebuildAbort, IInv, TypeOK
  <2>1. ASSUME NEW truncates \in BOOLEAN, RebuildList(truncates) PROVE RebuildProgress'
    BY <2>0, <2>1 DEF RebuildList, RebuildProgress, Replays, Indexable
  <2>2. ASSUME RebuildTruncate PROVE RebuildProgress'
    BY <2>0, <2>2 DEF RebuildTruncate, RebuildProgress, Replays
  <2>3. ASSUME NEW c \in Claims, RebuildRead(c) PROVE RebuildProgress'
    <3>1. /\ rebuild'.phase = "loop" /\ rebuild'.at = c /\ rebuild'.todo = rebuild.todo \ {c}
          /\ rebuild'.listed = rebuild.listed /\ rebuild'.wrote = rebuild.wrote
      BY <2>0, <2>3 DEF RebuildRead, InLoop, Replays
    <3>2. rebuild.at = None /\ rebuild.listed \subseteq Claims
      BY <2>0, <2>3 DEF RebuildRead, InLoop, Replays
    <3> QED BY <2>0, <3>1, <3>2, ProjectionAssumption DEF RebuildProgress
  <2>4. ASSUME NEW c \in Claims, RebuildSkip(c) PROVE RebuildProgress'
    <3>1. Retired(status[c])
      BY <2>4 DEF RebuildSkip, RebuildProgress, Indexable, IInv, TypeOK
    <3> QED BY <2>0, <2>4, <3>1 DEF RebuildSkip, InLoop, RebuildProgress, Replays
  <2>5. ASSUME RebuildWrite PROVE RebuildProgress'
    BY <2>0, <2>5 DEF RebuildWrite, RebuildProgress, Replays, IInv, EmbedsInLoop
  <2>6. ASSUME RebuildCommit \/ RebuildAbort PROVE RebuildProgress'
    BY <2>6 DEF RebuildCommit, RebuildAbort, RebuildProgress, IdleRebuild
  <2> QED BY <1>3, <2>1, <2>2, <2>3, <2>4, <2>5, <2>6 DEF Rebuild
<1> QED BY <1>2, <1>3 DEF Next

LEMMA RetirementStaysPending == ASSUME SInv, Next PROVE RetirementPending'
<1> USE DEF SInv, IInv, TypeOK
<1>1. CASE Store
  <2>1. ASSUME NEW c \in Claims, NEW s \in {"proposed", "accepted"}, NEW projects \in BOOLEAN,
               Ingested(c, s, projects)
        PROVE  RetirementPending'
    BY <2>1 DEF Ingested, SetStatus, RetirementPending, Retirements
  <2>2. ASSUME NEW c \in Claims, Reviewed(c) PROVE RetirementPending'
    BY <2>2 DEF Reviewed, SetStatus, RetirementPending, Retirements
  <2>3. ASSUME NEW c \in Claims, Superseded(c) PROVE RetirementPending'
    BY <2>3 DEF Superseded, SetStatus, RetirementPending, Retirements
  <2> QED BY <1>1, <2>1, <2>2, <2>3 DEF Store
<1>2. CASE Work
  BY <1>2 DEF Work, Read, Deindex, Index, Fail, RetirementPending
<1>3. CASE Rebuild
  <2>1. CASE RebuildCommit
    BY <2>1 DEF RebuildCommit, RetirementPending, Retirements
  <2>2. CASE ~ RebuildCommit
    BY <1>3, <2>2 DEF Rebuild, RebuildList, RebuildTruncate, RebuildRead, RebuildSkip, RebuildWrite,
                      RebuildAbort, RetirementPending
  <2> QED BY <2>1, <2>2
<1>4. CASE Retention
  <2>1. ASSUME NEW c \in Claims, Correct(c) PROVE RetirementPending'
    BY <2>1 DEF Correct, Retire, RetirementPending, Statuses
  <2>2. ASSUME NEW selected \in SUBSET Claims, NEW rested \in SUBSET Claims,
               Forget(selected, rested)
        PROVE  RetirementPending'
    BY <2>2 DEF Forget, Retire, RetirementPending
  <2>3. CASE RetireCommit \/ RetireAbort
    BY <2>3 DEF RetireCommit, RetireAbort, RetirementPending
  <2> QED BY <1>4, <2>1, <2>2, <2>3 DEF Retention
<1> QED BY <1>1, <1>2, <1>3, <1>4 DEF Next

\* What leaves the index in one step is no longer accepted, or was erased, or
\* was not there for a rebuild to list.
StaysIndexed ==
  \A c \in indexed \ indexed' :
    status'[c] = "accepted" =>
      \/ RebuildCommit /\ c \notin rebuild.listed
      \/ RetireCommit /\ retire.erases /\ c \in retire.targets

LEMMA RemovalIsJustified == ASSUME SInv, Next PROVE StaysIndexed
<1> USE DEF SInv, IInv, TypeOK
<1>1. ASSUME NEW c \in indexed \ indexed', status'[c] = "accepted"
      PROVE  \/ RebuildCommit /\ c \notin rebuild.listed
             \/ RetireCommit /\ retire.erases /\ c \in retire.targets
  <2>0. c \in Claims
    BY <1>1
  <2>1. CASE Store
    BY <1>1, <2>1 DEF Store, Ingested, Reviewed, Superseded
  <2>2. CASE Work
    BY <1>1, <2>2 DEF Work, Read, Deindex, Index, Fail, Indexable
  <2>3. CASE Rebuild
    <3>1. RebuildCommit
      BY <1>1, <2>3 DEF Rebuild, RebuildList, RebuildTruncate, RebuildRead, RebuildSkip,
                        RebuildWrite, RebuildAbort
    <3>2. c \notin rebuild.wrote /\ rebuild.at = None /\ rebuild.todo = {} /\ status[c] = "accepted"
      BY <1>1, <3>1 DEF RebuildCommit, InLoop
    <3>3. c \notin rebuild.listed
      BY <2>0, <3>2, ProjectionAssumption DEF RebuildProgress, Retired
    <3> QED BY <3>1, <3>3
  <2>4. CASE Retention
    <3>1. RetireCommit
      BY <1>1, <2>4 DEF Retention, Correct, Forget, Retire, RetireAbort
    <3>2. c \in retire.targets
      BY <1>1, <3>1 DEF RetireCommit
    <3>3. status'[c] = IF c \in DOMAIN retire.to THEN retire.to[c] ELSE status[c]
      BY <2>0, <3>1 DEF RetireCommit, SetStatus
    <3>4. retire.erases
      BY <1>1, <3>1, <3>2, <3>3 DEF RetirementPending, RetireCommit
    <3> QED BY <3>1, <3>2, <3>4
  <2> QED BY <2>1, <2>2, <2>3, <2>4 DEF Next
<1> QED BY <1>1 DEF StaysIndexed

LEMMA SInvHolds == /\ Init => SInv
                   /\ SInv /\ [Next]_vars => SInv'
<1>1. Init => SInv
  BY InitEstablishes, ProjectionAssumption
     DEF SInv, Init, RebuildProgress, RetirementPending, IdleRebuild
<1>2. SInv /\ [Next]_vars => SInv'
  <2>1. CASE UNCHANGED vars
    BY <2>1, StepKeeps, ProjectionAssumption
       DEF SInv, vars, RebuildProgress, RetirementPending
  <2>2. ASSUME SInv, Next PROVE SInv'
    BY <2>2, StepKeeps, ProjectionAssumption, RebuildAdvances, RetirementStaysPending DEF SInv
  <2> QED BY <2>1, <2>2
<1> QED BY <1>1, <1>2

\* An accepted claim leaves the index only if its evidence is erased, or when
\* a rebuild that did not list it commits: no failure, redelivery, correction
\* of another claim or supersession removes it.
THEOREM AcceptedIsKept == Spec => AcceptedStaysIndexed
<1>1. SInv /\ [Next]_vars => [StaysIndexed]_vars
  BY RemovalIsJustified
<1> QED BY SInvHolds, <1>1, PTL DEF Spec, AcceptedStaysIndexed, StaysIndexed

-----------------------------------------------------------------------------
(***************************************************************************)
(* A replay heals the index.  A claim that was retired when a replay that  *)
(* empties the tables listed its claims, and that no projector held, stays *)
(* retired; nobody picks it up again, and once the tables are emptied its  *)
(* rows are among those removed.                                           *)
(***************************************************************************)
GoneStays(c) ==
  /\ Retired(status[c])
  /\ \A p \in Projectors : reading[p] # c
  /\ c \notin rebuild.todo /\ rebuild.at # c
  /\ rebuild.phase = "loop" => c \notin rebuild.wrote /\ (c \in indexed => c \in rebuild.removed)

Healing == rebuild.phase # "idle" /\ rebuild.truncates => \A c \in rebuild.gone : GoneStays(c)

LEMMA HealingStart == Init => Healing
<1>1. Init => rebuild.phase = "idle"
  BY DEF Init, IdleRebuild
<1> QED BY <1>1 DEF Healing

\* Steps of others while a replay is in progress.
LEMMA OthersLeaveIt ==
  ASSUME SInv, Healing, Next, UNCHANGED rebuild
  PROVE  Healing'
<1> SUFFICES ASSUME rebuild.phase # "idle", rebuild.truncates, NEW c \in rebuild.gone
             PROVE  GoneStays(c)'
  BY DEF Healing
<1>1. c \in Claims /\ GoneStays(c) /\ Retired(status'[c])
  BY StatusesAdvance DEF Healing, GoneStays, SInv, IInv, TypeOK, Replays
<1>2. ~ Indexable(status[c]) /\ status[c] # "absent"
  BY <1>1 DEF GoneStays, Retired, Indexable
<1>3. CASE Store
  <2>1. UNCHANGED reading
    BY <1>3 DEF Store, Ingested, Reviewed, Superseded
  <2>2. c \in indexed' => c \in indexed
    BY <1>2, <1>3 DEF Store, Ingested, Reviewed, Superseded
  <2> QED BY <1>1, <2>1, <2>2 DEF GoneStays
<1>4. CASE Work
  <2>1. PICK p \in Projectors :
          \/ \E d \in Claims : Read(p, d) \/ Deindex(p, d)
          \/ Index(p) \/ Fail(p)
    BY <1>4 DEF Work
  <2>2. reading \in [Projectors -> Claims \cup {None}] /\ c # None
    BY <1>1, ProjectionAssumption DEF SInv, IInv, TypeOK
  <2>3. \A q \in Projectors : reading'[q] # c
    BY <1>1, <1>2, <2>1, <2>2 DEF GoneStays, Read, Deindex, Index, Fail
  <2>4. c \in indexed' => c \in indexed
    BY <1>1, <2>1 DEF GoneStays, Read, Deindex, Index, Fail
  <2> QED BY <1>1, <2>3, <2>4 DEF GoneStays
<1>5. CASE Retention
  <2>1. UNCHANGED reading
    BY <1>5 DEF Retention, Correct, Forget, Retire, RetireCommit, RetireAbort
  <2>2. c \in indexed' => c \in indexed
    BY <1>5 DEF Retention, Correct, Forget, Retire, RetireCommit, RetireAbort
  <2> QED BY <1>1, <2>1, <2>2 DEF GoneStays
<1>6. CASE Rebuild
  <2>1. ~ RebuildCommit /\ ~ RebuildAbort
    BY DEF RebuildCommit, RebuildAbort, IdleRebuild
  <2>2. UNCHANGED <<indexed, reading>>
    BY <1>6, <2>1 DEF Rebuild, RebuildList, RebuildTruncate, RebuildRead, RebuildSkip, RebuildWrite
  <2> QED BY <1>1, <2>2 DEF GoneStays
<1> QED BY <1>3, <1>4, <1>5, <1>6 DEF Next

LEMMA HealingGoesOn == ASSUME SInv, Healing, Next PROVE Healing'
<1> USE DEF SInv, IInv, TypeOK
<1>1. CASE Store \/ Work \/ Retention
  <2>1. UNCHANGED rebuild
    BY <1>1 DEF Store, Ingested, Reviewed, Superseded, Work, Read, Deindex, Index, Fail,
                Retention, Correct, Forget, Retire, RetireCommit, RetireAbort
  <2> QED BY <2>1, OthersLeaveIt
<1>2. CASE Rebuild
  <2>0. rebuild \in Replays
    OBVIOUS
  <2>1. ASSUME NEW truncates \in BOOLEAN, RebuildList(truncates) PROVE Healing'
    <3>1. rebuild.at = None
      BY <2>1 DEF RebuildList, EmbedsInLoop
    <3>2. /\ rebuild'.phase = IF truncates THEN "listed" ELSE "loop"
          /\ rebuild'.truncates = truncates /\ rebuild'.at = None
          /\ rebuild'.todo = {c \in Claims : Indexable(status[c])}
          /\ rebuild'.gone = {c \in Claims : /\ status[c] \in {"superseded", "revoked"}
                                             /\ \A p \in Projectors : reading[p] # c}
          /\ UNCHANGED <<status, reading>>
      BY <2>0, <2>1, <3>1 DEF RebuildList, Replays
    <3> QED BY <3>2, ProjectionAssumption DEF Healing, GoneStays, Retired, Indexable
  <2>2. ASSUME RebuildTruncate PROVE Healing'
    <3>1. /\ rebuild.phase = "listed" /\ rebuild'.wrote = {} /\ indexed \subseteq rebuild'.removed
          /\ rebuild'.truncates = rebuild.truncates /\ rebuild'.at = rebuild.at
          /\ rebuild'.todo = rebuild.todo /\ rebuild'.gone = rebuild.gone
          /\ UNCHANGED <<status, reading, indexed>>
      BY <2>0, <2>2 DEF RebuildTruncate, Replays
    <3> QED BY <3>1 DEF Healing, GoneStays
  <2>3. ASSUME NEW c \in Claims, RebuildRead(c) PROVE Healing'
    <3>1. /\ rebuild.phase = "loop" /\ c \in rebuild.todo
          /\ rebuild'.phase = "loop" /\ rebuild'.at = c /\ rebuild'.todo \subseteq rebuild.todo
          /\ rebuild'.truncates = rebuild.truncates /\ rebuild'.gone = rebuild.gone
          /\ rebuild'.wrote = rebuild.wrote /\ rebuild'.removed = rebuild.removed
          /\ UNCHANGED <<status, reading, indexed>>
      BY <2>0, <2>3 DEF RebuildRead, InLoop, Replays
    <3> QED BY <3>1 DEF Healing, GoneStays
  <2>4. ASSUME NEW c \in Claims, RebuildSkip(c) PROVE Healing'
    <3>1. /\ rebuild.phase = "loop"
          /\ rebuild'.phase = "loop" /\ rebuild'.at = rebuild.at /\ rebuild'.todo \subseteq rebuild.todo
          /\ rebuild'.truncates = rebuild.truncates /\ rebuild'.gone = rebuild.gone
          /\ rebuild'.wrote \subseteq rebuild.wrote /\ rebuild.removed \subseteq rebuild'.removed
          /\ UNCHANGED <<status, reading, indexed>>
      BY <2>0, <2>4 DEF RebuildSkip, InLoop, Replays
    <3> QED BY <3>1 DEF Healing, GoneStays
  <2>5. ASSUME RebuildWrite PROVE Healing'
    <3>1. /\ rebuild.at # None /\ rebuild'.phase = rebuild.phase /\ rebuild.phase = "loop"
          /\ rebuild'.at = None /\ rebuild'.todo = rebuild.todo
          /\ rebuild'.truncates = rebuild.truncates /\ rebuild'.gone = rebuild.gone
          /\ rebuild'.wrote = rebuild.wrote \cup {rebuild.at} /\ rebuild'.removed = rebuild.removed
          /\ UNCHANGED <<status, reading, indexed>>
      BY <2>0, <2>5 DEF RebuildWrite, Replays, EmbedsInLoop
    <3>2. None \notin rebuild.gone
      BY <2>0, ProjectionAssumption DEF Replays
    <3> QED BY <3>1, <3>2 DEF Healing, GoneStays
  <2>6. ASSUME RebuildCommit \/ RebuildAbort PROVE Healing'
    BY <2>6 DEF RebuildCommit, RebuildAbort, IdleRebuild, Healing
  <2> QED BY <1>2, <2>1, <2>2, <2>3, <2>4, <2>5, <2>6 DEF Rebuild
<1> QED BY <1>1, <1>2 DEF Next

\* A replay that empties the tables clears the index of whatever was retired,
\* and in nobody's hands, when it began (projections.ts rebuildProjections).
THEOREM ReplayHeals == Spec => RebuildClears
<1> DEFINE Clears == RebuildCommit /\ rebuild.truncates => indexed' \cap rebuild.gone = {}
<1>1. Init => SInv /\ Healing
  BY SInvHolds, HealingStart
<1>2. SInv /\ Healing /\ [Next]_vars => (SInv /\ Healing)'
  <2>1. CASE UNCHANGED vars
    BY <2>1, SInvHolds DEF vars, Healing, GoneStays
  <2>2. CASE Next
    BY <2>2, SInvHolds, HealingGoesOn
  <2> QED BY <2>1, <2>2
<1>3. SInv /\ Healing /\ [Next]_vars => [Clears]_vars
  BY DEF RebuildCommit, InLoop, Healing, GoneStays
<1> QED BY <1>1, <1>2, <1>3, PTL DEF Spec, RebuildClears
=============================================================================
