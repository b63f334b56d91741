--------------------------- MODULE ErasureProofs ---------------------------
(***************************************************************************)
(* What an erasure leaves behind, for any number of jobs, events and       *)
(* objects, and any requests.                                              *)
(***************************************************************************)
EXTENDS Erasure, TLAPS

Shape ==
  /\ row \in [Events -> {"absent", "putting", "live", "redacted"}]
  /\ disk \subseteq Blobs
  /\ claim \in [Events -> {"none", "proposed", "accepted", "revoked"}]
  /\ reading \subseteq Events
  /\ hit \subseteq Events
  /\ orphans \subseteq Blobs
  /\ late \in [Jobs -> SUBSET ({"event", "claim"} \X Events)]
  /\ job \in [Jobs -> JobRecords]

\* What a job has cleared is live until it commits, and redacted afterwards.
ClearedRows ==
  \A j \in Jobs : \A e \in job[j].cleared :
    row[e] = IF InTx(j) THEN "live" ELSE "redacted"

OneJobClears == \A j, k \in Jobs : j # k => job[j].cleared \cap job[k].cleared = {}

\* A job clears nothing before its update, and nothing if it has failed.
Early == {"idle", "picked", "captured", "lost", "aborted"}
NothingClearedEarly == \A j \in Jobs : job[j].pc \in Early => job[j].cleared = {}

IInv == Shape /\ ClearedRows /\ OneJobClears /\ NothingClearedEarly

LEMMA RefsAreBlobs ==
  ASSUME ErasureAssumption, NEW es \in SUBSET Events
  PROVE  RefsOf(es) \in SUBSET Blobs /\ Inline \notin RefsOf(es)
  BY DEF ErasureAssumption, RefsOf

\* A step of one job changes its record and no other.
LEMMA StepOfOne ==
  ASSUME Shape, NEW j \in Jobs, NEW from, NEW to \in JobRecords, Step(j, from, to)
  PROVE  /\ job' \in [Jobs -> JobRecords]
         /\ job[j].pc = from
         /\ job'[j] = to
         /\ \A k \in Jobs \ {j} : job'[k] = job[k]
  BY DEF Shape, Step

LEMMA IdleIsARecord == ASSUME ErasureAssumption PROVE IdleJob \in JobRecords
  BY DEF IdleJob, JobRecords, Phases

LEMMA InitShape == ASSUME ErasureAssumption, Init PROVE IInv
<1>1. Shape
  BY IdleIsARecord DEF Init, Shape
<1>2. \A j \in Jobs : job[j].cleared = {}
  BY DEF Init, IdleJob
<1> QED BY <1>1, <1>2 DEF IInv, ClearedRows, OneJobClears, NothingClearedEarly

\* Appends and ingests leave every job's record and every live row alone.
LEMMA OthersKeepShape ==
  ASSUME ErasureAssumption, IInv, NEW e \in Events, Append(e) \/ Ingest(e)
  PROVE  IInv'
<1> USE DEF IInv
<1>1. RefsOf({e}) \in SUBSET Blobs
  BY RefsAreBlobs
<1>2. Shape' /\ UNCHANGED job /\ \A d \in Events : row[d] \in {"live", "redacted"} => row'[d] = row[d]
  <2>1. CASE Put(e)
    BY <2>1, <1>1 DEF Put, Shape
  <2>2. CASE CommitAppend(e)
    BY <2>2 DEF CommitAppend, Late, Shape
  <2>3. CASE AbortAppend(e)
    BY <2>3, <1>1 DEF AbortAppend, Shape
  <2>4. CASE Read(e) \/ AbortIngest(e)
    BY <2>4 DEF Read, AbortIngest, Shape
  <2>5. ASSUME NEW s \in {"proposed", "accepted"}, CommitClaim(e, s)
        PROVE  Shape' /\ UNCHANGED <<job, row>>
    BY <2>5 DEF CommitClaim, Late, Shape
  <2> QED BY <2>1, <2>2, <2>3, <2>4, <2>5 DEF Append, Ingest
<1>3. ClearedRows' /\ OneJobClears' /\ NothingClearedEarly'
  BY <1>2 DEF ClearedRows, OneJobClears, NothingClearedEarly, InTx, Shape, JobRecords
<1> QED BY <1>2, <1>3

\* A step of a job that clears no more rows: it stays in its transaction, or
\* has cleared none.
LEMMA StepKeepsRows ==
  ASSUME IInv, NEW j \in Jobs, NEW from, NEW to \in JobRecords, Step(j, from, to),
         UNCHANGED row,
         to.cleared \in {{}, job[j].cleared},
         \/ to.pc \in Early /\ (to.cleared = {} \/ from \in Early)
         \/ /\ to.pc \in {"committed", "recorded"} <=> from \in {"committed", "recorded"}
            /\ to.pc \notin Early /\ from \notin Early
  PROVE  ClearedRows' /\ OneJobClears' /\ NothingClearedEarly'
<1>1. /\ job[j].pc = from /\ job'[j] = to
      /\ \A k \in Jobs \ {j} : job'[k] = job[k]
  BY StepOfOne DEF IInv
<1>2. \A k \in Jobs : job'[k].cleared = job[k].cleared \/ job'[k].cleared = {}
  BY <1>1
<1>3. NothingClearedEarly'
  BY <1>1, <1>2 DEF IInv, NothingClearedEarly
<1>4. ASSUME NEW k \in Jobs, job'[k].cleared # {} PROVE InTx(k)' = InTx(k)
  <2>1. CASE k = j
    <3>1. to.pc \notin Early
      BY <1>1, <1>3, <1>4, <2>1 DEF NothingClearedEarly
    <3>2. job[j] \in JobRecords
      BY DEF IInv, Shape
    <3> QED BY <1>1, <2>1, <3>1, <3>2 DEF InTx, Early, JobRecords, Phases
  <2>2. CASE k # j
    BY <1>1, <2>2 DEF InTx
  <2> QED BY <2>1, <2>2
<1>5. ClearedRows'
  BY <1>2, <1>4 DEF IInv, ClearedRows
<1>6. OneJobClears'
  BY <1>2 DEF IInv, OneJobClears
<1> QED BY <1>3, <1>5, <1>6

LEMMA QuietStep ==
  ASSUME IInv, NEW j \in Jobs, NEW from, NEW to \in JobRecords, Step(j, from, to),
         UNCHANGED <<row, claim, reading, late>>,
         disk' \subseteq Blobs, hit' \subseteq Events, orphans' \subseteq Blobs,
         to.cleared \in {{}, job[j].cleared},
         \/ to.pc \in Early /\ (to.cleared = {} \/ from \in Early)
         \/ /\ to.pc \in {"committed", "recorded"} <=> from \in {"committed", "recorded"}
            /\ to.pc \notin Early /\ from \notin Early
  PROVE  IInv'
<1>1. ClearedRows' /\ OneJobClears' /\ NothingClearedEarly'
  BY StepKeepsRows
<1>2. Shape'
  BY StepOfOne DEF IInv, Shape
<1> QED BY <1>1, <1>2 DEF IInv

LEMMA ScrubKeepsShape ==
  ASSUME ErasureAssumption, IInv, NEW j \in Jobs, Scrub(j)
  PROVE  IInv'
<1>0. job[j] \in JobRecords /\ Shape
  BY DEF IInv, Shape
<1>1. ASSUME NEW sel \in Selectors, Pick(j, sel) PROVE IInv'
  <2> DEFINE to == [job[j] EXCEPT !.pc = "picked", !.sel = sel,
                      !.picks = {e \in EventsOf(sel) : row[e] \in {"live", "redacted"}}]
  <2>1. to \in JobRecords /\ to.cleared = job[j].cleared /\ to.pc = "picked"
    BY <1>0 DEF JobRecords, Phases, EventsOf
  <2>2. Step(j, "idle", to) /\ UNCHANGED <<row, disk, claim, reading, hit, orphans, late>>
    BY <1>1 DEF Pick
  <2> HIDE DEF to
  <2> QED BY <1>0, <2>1, <2>2, QuietStep DEF Early, Shape
<1>2. ASSUME Capture(j) PROVE IInv'
  <2> DEFINE to == [job[j] EXCEPT !.pc = "captured", !.refs = Captured(j),
                      !.claims = {e \in ClaimsOf(job[j].sel) : claim[e] # "none"}]
  <2>0. Captured(j) \in SUBSET Blobs
    BY <1>0, RefsAreBlobs DEF Captured, Live, JobRecords
  <2>1. to \in JobRecords /\ to.cleared = job[j].cleared /\ to.pc = "captured"
    BY <1>0, <2>0 DEF JobRecords, Phases, ClaimsOf
  <2>2. Step(j, "picked", to) /\ UNCHANGED <<row, disk, claim, reading, hit, orphans, late>>
    BY <1>2 DEF Capture
  <2> HIDE DEF to
  <2> QED BY <1>0, <2>1, <2>2, QuietStep DEF Early, Shape
<1>3. ASSUME Redact(j) PROVE IInv'
  <2> DEFINE es == job[j].picks \cap Live(j)
             to == [job[j] EXCEPT !.pc = "redacted", !.cleared = es]
  <2>1. to \in JobRecords /\ to.cleared = es /\ to.pc = "redacted"
    BY <1>0 DEF JobRecords, Phases
  <2>2. Step(j, "captured", to) /\ UNCHANGED <<row, disk, claim, reading, hit, orphans, late>>
    BY <1>3 DEF Redact
  <2>3. es \cap ClearedByOthers(j) = {} /\ \A e \in es : e \in Events /\ row[e] = "live"
    BY <1>3 DEF Redact, RowsAreFree, Live
  <2> HIDE DEF to, es
  <2>4. /\ Shape /\ job[j].pc = "captured" /\ job'[j] = to
        /\ \A k \in Jobs \ {j} : job'[k] = job[k]
    BY <1>0, <2>1, <2>2, StepOfOne
  <2>5. Shape'
    BY <1>0, <2>1, <2>2, StepOfOne DEF Shape
  <2>6. \A k \in Jobs \ {j} : es \cap job[k].cleared = {}
    BY <2>3 DEF IInv, ClearedRows, ClearedByOthers, ClearedBy
  <2>7. ClearedRows'
    BY <2>1, <2>2, <2>3, <2>4 DEF IInv, ClearedRows, InTx
  <2>8. OneJobClears'
    BY <2>1, <2>4, <2>6 DEF IInv, OneJobClears
  <2>9. NothingClearedEarly'
    BY <2>1, <2>4 DEF IInv, NothingClearedEarly, Early
  <2> QED BY <2>5, <2>7, <2>8, <2>9 DEF IInv
<1>4. ASSUME Revoke(j) PROVE IInv'
  <2> DEFINE to == [job[j] EXCEPT !.pc = "revoked", !.revoked = job[j].claims \cap Unrevoked(j)]
  <2>1. to \in JobRecords /\ to.cleared = job[j].cleared /\ to.pc = "revoked"
    BY <1>0 DEF JobRecords, Phases
  <2>2. Step(j, "redacted", to) /\ UNCHANGED <<row, disk, claim, reading, hit, orphans, late>>
    BY <1>4 DEF Revoke
  <2> HIDE DEF to
  <2> QED BY <1>0, <2>1, <2>2, QuietStep DEF Early, Shape
<1> QED BY <1>1, <1>2, <1>3, <1>4 DEF Scrub

LEMMA ReclaimKeepsShape ==
  ASSUME ErasureAssumption, IInv, NEW j \in Jobs, Reclaim(j)
  PROVE  IInv'
<1>0. job[j] \in JobRecords /\ Shape
  BY DEF IInv, Shape
<1>1. ASSUME Count(j) PROVE IInv'
  <2> DEFINE to == [job[j] EXCEPT !.pc = "counted", !.kept = RefsOf(Holders(j)),
                                  !.seen = {e \in Events : row[e] = "live"}]
  <2>1. Holders(j) \in SUBSET Events
    BY DEF Holders, Live
  <2>2. RefsOf(Holders(j)) \in SUBSET Blobs
    BY <2>1, RefsAreBlobs
  <2>3. to \in JobRecords /\ to.cleared = job[j].cleared /\ to.pc = "counted"
    BY <1>0, <2>2 DEF JobRecords, Phases
  <2>4. /\ Step(j, "revoked", to) /\ UNCHANGED <<row, disk, claim, reading, hit, late>>
        /\ orphans' \subseteq orphans \cup RefsOf(Holders(j))
    BY <1>1 DEF Count
  <2> HIDE DEF to
  <2> QED BY <1>0, <2>2, <2>3, <2>4, QuietStep DEF Early, Shape
<1>2. ASSUME NEW b \in Blobs, Unlink(j, b) PROVE IInv'
  <2> DEFINE to == [job[j] EXCEPT !.at = b]
  <2>1. job[j].pc = "counted" /\ Step(j, "counted", to)
    BY <1>2 DEF Unlink, Step
  <2>2. to \in JobRecords /\ to.cleared = job[j].cleared /\ to.pc = "counted"
    BY <1>0, <2>1 DEF JobRecords, Phases
  <2>3. /\ UNCHANGED <<row, claim, reading, late>>
        /\ disk' \subseteq disk /\ orphans' \subseteq orphans
        /\ hit' \subseteq hit \cup Events
    BY <1>2 DEF Unlink
  <2> HIDE DEF to
  <2> QED BY <1>0, <2>1, <2>2, <2>3, QuietStep DEF Early, Shape
<1>3. ASSUME Verify(j) PROVE IInv'
  <2> DEFINE to == IF job[j].at \in disk
                   THEN [job[j] EXCEPT !.other = @ \cup {job[j].at}, !.at = Inline]
                   ELSE [job[j] EXCEPT !.deleted = @ \cup {job[j].at}, !.at = Inline]
  <2>1. /\ job[j].pc = "counted" /\ Step(j, "counted", to) /\ job[j].at # Inline
        /\ UNCHANGED <<row, disk, claim, reading, hit, orphans, late>>
    BY <1>3 DEF Verify, Step
  <2>2. job[j].at \in Blobs
    BY <1>0, <2>1 DEF JobRecords
  <2>3. to \in JobRecords /\ to.cleared = job[j].cleared /\ to.pc = "counted"
    BY <1>0, <2>1, <2>2 DEF JobRecords, Phases
  <2> HIDE DEF to
  <2> QED BY <1>0, <2>1, <2>3, QuietStep DEF Early, Shape
<1> QED BY <1>1, <1>2, <1>3 DEF Reclaim

LEMMA ProveKeepsShape ==
  ASSUME ErasureAssumption, IInv, NEW j \in Jobs, Prove(j)
  PROVE  IInv'
<1>0. job[j] \in JobRecords /\ Shape
  BY DEF IInv, Shape
<1> DEFINE Quiet(from, to) ==
      /\ Step(j, from, to)
      /\ to \in JobRecords /\ to.cleared \in {{}, job[j].cleared}
      /\ UNCHANGED <<row, disk, claim, reading, hit, orphans, late>>
<1>1. ASSUME ScanEvents(j) PROVE IInv'
  <2> DEFINE to == [job[j] EXCEPT !.pc = "scanned", !.residual = Survivors(j) # {}, !.seen = {}]
  <2>1. Quiet("counted", to) /\ to.pc = "scanned"
    BY <1>0, <1>1 DEF ScanEvents, JobRecords, Phases
  <2> HIDE DEF to
  <2> QED BY <1>0, <2>1, QuietStep DEF Early, Shape
<1>2. ASSUME ScanClaims(j) PROVE IInv'
  <2> DEFINE found == job[j].residual \/ ClaimsScanned(job[j].sel) \cap Unrevoked(j) # {}
             to == [job[j] EXCEPT !.pc = "claims", !.residual = found]
  <2>1. Quiet("scanned", to) /\ to.pc = "claims"
    BY <1>0, <1>2 DEF ScanClaims, JobRecords, Phases
  <2> HIDE DEF to
  <2> QED BY <1>0, <2>1, QuietStep DEF Early, Shape
<1>3. ASSUME Sweep(j) PROVE IInv'
  <2> DEFINE found == job[j].residual \/ job[j].deleted \cap disk # {}
             to == [job[j] EXCEPT !.pc = "swept", !.residual = found]
  <2>1. Quiet("claims", to) /\ to.pc = "swept"
    BY <1>0, <1>3 DEF Sweep, JobRecords, Phases
  <2> HIDE DEF to
  <2> QED BY <1>0, <2>1, QuietStep DEF Early, Shape
<1>4. ASSUME CommitErasure(j) PROVE IInv'
  <2> DEFINE to == Finished(j, "committed")
  <2>1. to \in JobRecords /\ to.cleared = job[j].cleared /\ to.pc = "committed"
    BY <1>0, IdleIsARecord DEF Finished, JobRecords, Phases
  <2>2. /\ Step(j, "swept", to) /\ UNCHANGED <<disk, reading, hit, orphans, late>>
        /\ row' = [e \in Events |-> IF e \in job[j].cleared THEN "redacted" ELSE row[e]]
        /\ claim' = [e \in Events |-> IF e \in job[j].revoked THEN "revoked" ELSE claim[e]]
    BY <1>4 DEF CommitErasure
  <2> HIDE DEF to
  <2>3. /\ job[j].pc = "swept" /\ job'[j] = to
        /\ \A k \in Jobs \ {j} : job'[k] = job[k]
    BY <1>0, <2>1, <2>2, StepOfOne
  <2>4. Shape'
    BY <1>0, <2>1, <2>2, StepOfOne DEF Shape
  <2>5. job[j].cleared \subseteq Events
    BY <1>0 DEF JobRecords
  <2>6. ASSUME NEW k \in Jobs, NEW e \in job'[k].cleared
        PROVE  row'[e] = IF InTx(k)' THEN "live" ELSE "redacted"
    <3>1. CASE k = j
      BY <2>1, <2>2, <2>3, <2>5, <2>6, <3>1 DEF InTx
    <3>2. CASE k # j
      <4>1. e \in job[k].cleared /\ e \notin job[j].cleared /\ InTx(k)' = InTx(k)
        BY <2>3, <2>6, <3>2 DEF IInv, OneJobClears, InTx
      <4>2. e \in Events
        BY <4>1 DEF IInv, Shape, JobRecords
      <4> QED BY <2>2, <4>1, <4>2 DEF IInv, ClearedRows
    <3> QED BY <3>1, <3>2
  <2>7. OneJobClears'
    BY <2>1, <2>3 DEF IInv, OneJobClears
  <2>8. NothingClearedEarly'
    BY <2>1, <2>3 DEF IInv, NothingClearedEarly, Early
  <2> QED BY <2>4, <2>6, <2>7, <2>8 DEF IInv, ClearedRows
<1>5. ASSUME AbortErasure(j) PROVE IInv'
  <2> DEFINE to == [IdleJob EXCEPT !.pc = "aborted"]
  <2>1. Quiet(job[j].pc, to) /\ to.pc = "aborted" /\ to.cleared = {}
    BY <1>0, <1>5, IdleIsARecord DEF AbortErasure, Step, IdleJob, JobRecords, Phases
  <2> HIDE DEF to
  <2> QED BY <1>0, <2>1, QuietStep DEF Early, Shape
<1>6. ASSUME Record(j) PROVE IInv'
  <2> DEFINE to == [job[j] EXCEPT !.pc = "recorded"]
  <2>1. Quiet("committed", to) /\ to.pc = "recorded"
    BY <1>0, <1>6 DEF Record, JobRecords, Phases
  <2> HIDE DEF to
  <2> QED BY <1>0, <2>1, QuietStep DEF Early, Shape
<1>7. ASSUME LoseRecord(j) PROVE IInv'
  <2> DEFINE to == [IdleJob EXCEPT !.pc = "lost"]
  <2>1. Quiet("committed", to) /\ to.pc = "lost" /\ to.cleared = {}
    BY <1>0, <1>7, IdleIsARecord DEF LoseRecord, IdleJob, JobRecords, Phases
  <2> HIDE DEF to
  <2> QED BY <1>0, <2>1, QuietStep DEF Early, Shape
<1> QED BY <1>1, <1>2, <1>3, <1>4, <1>5, <1>6, <1>7 DEF Prove

LEMMA NextKeeps == ASSUME ErasureAssumption, IInv, [Next]_vars PROVE IInv'
<1>1. CASE UNCHANGED vars
  BY <1>1 DEF vars, IInv, Shape, ClearedRows, OneJobClears, NothingClearedEarly, InTx
<1>2. ASSUME NEW e \in Events, Append(e) \/ Ingest(e) PROVE IInv'
  BY <1>2, OthersKeepShape
<1>3. ASSUME NEW j \in Jobs, Scrub(j) \/ Reclaim(j) \/ Prove(j) PROVE IInv'
  BY <1>3, ScrubKeepsShape, ReclaimKeepsShape, ProveKeepsShape
<1> QED BY <1>1, <1>2, <1>3 DEF Next

\* The ledger, the disk and the jobs keep their types, and no two jobs ever
\* clear the same event: forget() run any number of times at once.
THEOREM TypeCorrect == Spec => []TypeOK
<1>1. Init => IInv
  BY ErasureAssumption, InitShape
<1>2. IInv /\ [Next]_vars => IInv'
  BY ErasureAssumption, NextKeeps
<1>3. IInv => TypeOK
  BY DEF IInv, Shape, OneJobClears, TypeOK
<1> QED BY <1>1, <1>2, <1>3, PTL DEF Spec

-----------------------------------------------------------------------------
\* What is on disk.  An append under way may not lose its bytes either, and
\* the objects a job keeps are those of the events it has seen holding them.
HeldBytesOnDisk ==
  \A e \in Events \ hit : row[e] \in {"putting", "live"} => RefsOf({e}) \subseteq disk

CountIsComplete ==
  \A j \in Jobs : job[j].pc = "counted" =>
    \A e \in job[j].seen \ job[j].cleared :
      BlobOf[e] \in job[j].refs => BlobOf[e] \in job[j].kept

DiskInv == IInv /\ HeldBytesOnDisk /\ CountIsComplete

\* A step changes the record of one job only.
LEMMA Moves ==
  ASSUME IInv, NEW j \in Jobs, NEW from, NEW to, Step(j, from, to)
  PROVE  /\ job[j].pc = from /\ job'[j] = to
         /\ \A k \in Jobs \ {j} : job'[k] = job[k]
  BY DEF IInv, Shape, Step

LEMMA OthersStay ==
  ASSUME IInv, NEW j \in Jobs, Scrub(j) \/ Reclaim(j) \/ Prove(j)
  PROVE  \A k \in Jobs \ {j} : job'[k] = job[k]
<1>1. job \in [Jobs -> JobRecords]
  BY DEF IInv, Shape
<1>2. CASE Scrub(j)
  BY <1>1, <1>2 DEF Scrub, Pick, Capture, Redact, Revoke, Step
<1>3. CASE Reclaim(j)
  BY <1>1, <1>3 DEF Reclaim, Count, Verify, Unlink, Step
<1>4. CASE Prove(j)
  BY <1>1, <1>4 DEF Prove, ScanEvents, ScanClaims, Sweep, CommitErasure, AbortErasure,
                    Record, LoseRecord, Step
<1> QED BY <1>2, <1>3, <1>4

LEMMA OthersKeepDisk ==
  ASSUME ErasureAssumption, DiskInv, NEW e \in Events, Append(e) \/ Ingest(e)
  PROVE  HeldBytesOnDisk' /\ CountIsComplete'
<1>0. row \in [Events -> {"absent", "putting", "live", "redacted"}]
  BY DEF DiskInv, IInv, Shape
<1>1. CASE Put(e)
  BY <1>0, <1>1 DEF Put, DiskInv, HeldBytesOnDisk, CountIsComplete, RefsOf
<1>2. CASE CommitAppend(e)
  BY <1>0, <1>2 DEF CommitAppend, DiskInv, HeldBytesOnDisk, CountIsComplete, RefsOf
<1>3. CASE AbortAppend(e)
  BY <1>0, <1>3 DEF AbortAppend, DiskInv, HeldBytesOnDisk, CountIsComplete, RefsOf
<1>4. CASE Ingest(e)
  BY <1>4 DEF Ingest, Read, CommitClaim, AbortIngest, DiskInv, HeldBytesOnDisk,
              CountIsComplete, RefsOf
<1> QED BY <1>1, <1>2, <1>3, <1>4 DEF Append

LEMMA ReclaimKeepsDisk ==
  ASSUME ErasureAssumption, DiskInv, NEW j \in Jobs, Reclaim(j)
  PROVE  HeldBytesOnDisk' /\ CountIsComplete'
<1>0. /\ IInv /\ job[j] \in JobRecords
      /\ \A k \in Jobs \ {j} : job'[k] = job[k]
  BY OthersStay DEF DiskInv, IInv, Shape
<1>1. ASSUME Count(j) PROVE HeldBytesOnDisk' /\ CountIsComplete'
  <2> DEFINE to == [job[j] EXCEPT !.pc = "counted", !.kept = RefsOf(Holders(j)),
                                  !.seen = {e \in Events : row[e] = "live"}]
  <2>1. /\ to.seen = {e \in Events : row[e] = "live"} /\ to.cleared = job[j].cleared
        /\ to.refs = job[j].refs /\ to.kept = RefsOf(Holders(j))
    BY <1>0 DEF JobRecords
  <2>2. Step(j, "revoked", to) /\ UNCHANGED <<row, disk, claim, reading, hit, late>>
    BY <1>1 DEF Count
  <2> HIDE DEF to
  <2>3. job'[j] = to
    BY <1>0, <2>2, Moves
  <2>4. ASSUME NEW e \in to.seen \ to.cleared, BlobOf[e] \in to.refs
        PROVE  BlobOf[e] \in to.kept
    <3>1. e \in Holders(j)
      BY <2>1, <2>4 DEF Holders, Live, ClearedBy
    <3>2. BlobOf[e] # Inline
      BY <1>0, <2>1, <2>4 DEF ErasureAssumption, JobRecords
    <3> QED BY <2>1, <3>1, <3>2 DEF RefsOf
  <2>5. CountIsComplete'
    BY <1>0, <2>3, <2>4 DEF DiskInv, CountIsComplete
  <2> QED BY <2>2, <2>5 DEF DiskInv, HeldBytesOnDisk, RefsOf
<1>2. ASSUME NEW b \in Blobs, Unlink(j, b) PROVE HeldBytesOnDisk' /\ CountIsComplete'
  <2> DEFINE to == [job[j] EXCEPT !.at = b]
  <2>1. /\ to.seen = job[j].seen /\ to.cleared = job[j].cleared
        /\ to.refs = job[j].refs /\ to.kept = job[j].kept
    BY <1>0 DEF JobRecords
  <2>2. /\ Step(j, "counted", to) /\ UNCHANGED row /\ disk' = disk \ {b}
        /\ b \in job[j].refs \ job[j].kept
        /\ hit' = hit \cup {e \in Events : /\ BlobOf[e] = b
                                           /\ row[e] \in {"putting", "live"}
                                           /\ e \in job[j].seen => e \in job[j].cleared}
    BY <1>2 DEF Unlink, Step, ToUnlink
  <2> HIDE DEF to
  <2>3. job'[j] = to /\ job[j].pc = "counted"
    BY <1>0, <2>2, Moves
  <2>4. CountIsComplete'
    BY <1>0, <2>1, <2>3 DEF DiskInv, CountIsComplete
  <2>5. ASSUME NEW e \in Events \ hit', row'[e] \in {"putting", "live"}
        PROVE  RefsOf({e}) \subseteq disk'
    <3>1. RefsOf({e}) \subseteq disk
      BY <2>2, <2>5 DEF DiskInv, HeldBytesOnDisk
    <3>2. BlobOf[e] # b
      BY <2>2, <2>3, <2>5 DEF DiskInv, CountIsComplete
    <3> QED BY <2>2, <3>1, <3>2 DEF RefsOf
  <2> QED BY <2>4, <2>5 DEF HeldBytesOnDisk, RefsOf
<1>3. ASSUME Verify(j) PROVE HeldBytesOnDisk' /\ CountIsComplete'
  <2> DEFINE to == IF job[j].at \in disk
                   THEN [job[j] EXCEPT !.other = @ \cup {job[j].at}, !.at = Inline]
                   ELSE [job[j] EXCEPT !.deleted = @ \cup {job[j].at}, !.at = Inline]
  <2>1. /\ to.seen = job[j].seen /\ to.cleared = job[j].cleared
        /\ to.refs = job[j].refs /\ to.kept = job[j].kept
    BY <1>0 DEF JobRecords
  <2>2. Step(j, "counted", to) /\ UNCHANGED <<row, disk, hit>>
    BY <1>3 DEF Verify
  <2> HIDE DEF to
  <2>3. job'[j] = to /\ job[j].pc = "counted"
    BY <1>0, <2>2, Moves
  <2>4. CountIsComplete'
    BY <1>0, <2>1, <2>3 DEF DiskInv, CountIsComplete
  <2> QED BY <2>2, <2>4 DEF DiskInv, HeldBytesOnDisk, RefsOf
<1> QED BY <1>1, <1>2, <1>3 DEF Reclaim

\* The other steps of a job leave the count behind or are before it.
LEMMA RestKeepsDisk ==
  ASSUME ErasureAssumption, DiskInv, NEW j \in Jobs, Scrub(j) \/ Prove(j)
  PROVE  HeldBytesOnDisk' /\ CountIsComplete'
<1>0. /\ IInv /\ job[j] \in JobRecords /\ job \in [Jobs -> JobRecords]
      /\ \A k \in Jobs \ {j} : job'[k] = job[k]
  BY OthersStay DEF DiskInv, IInv, Shape
<1>1. job'[j].pc # "counted"
  <2>1. CASE Scrub(j)
    <3>1. ASSUME NEW sel \in Selectors, Pick(j, sel) PROVE job'[j].pc # "counted"
      BY <1>0, <3>1 DEF Pick, Step, JobRecords
    <3>2. CASE Capture(j)
      BY <1>0, <3>2 DEF Capture, Step, JobRecords
    <3>3. CASE Redact(j)
      BY <1>0, <3>3 DEF Redact, Step, JobRecords
    <3>4. CASE Revoke(j)
      BY <1>0, <3>4 DEF Revoke, Step, JobRecords
    <3> QED BY <2>1, <3>1, <3>2, <3>3, <3>4 DEF Scrub
  <2>2. CASE ScanEvents(j)
    BY <1>0, <2>2 DEF ScanEvents, Step, JobRecords
  <2>3. CASE ScanClaims(j)
    BY <1>0, <2>3 DEF ScanClaims, Step, JobRecords
  <2>4. CASE Sweep(j)
    BY <1>0, <2>4 DEF Sweep, Step, JobRecords
  <2>5. CASE Record(j)
    BY <1>0, <2>5 DEF Record, Step, JobRecords
  <2>6. CASE CommitErasure(j)
    BY <1>0, <2>6 DEF CommitErasure, Step, Finished, IdleJob
  <2>7. CASE AbortErasure(j)
    BY <1>0, <2>7 DEF AbortErasure, Step, IdleJob
  <2>8. CASE LoseRecord(j)
    BY <1>0, <2>8 DEF LoseRecord, Step, IdleJob
  <2> QED BY <2>1, <2>2, <2>3, <2>4, <2>5, <2>6, <2>7, <2>8 DEF Prove
<1>2. CountIsComplete'
  BY <1>0, <1>1 DEF DiskInv, CountIsComplete
<1>3. /\ UNCHANGED <<disk, hit>>
      /\ \A e \in Events : row'[e] \in {"putting", "live"} => row[e] = row'[e]
  <2>1. CASE CommitErasure(j)
    BY <2>1 DEF CommitErasure
  <2>2. CASE UNCHANGED <<row, disk, hit>>
    BY <2>2
  <2> QED BY <2>1, <2>2 DEF Scrub, Pick, Capture, Redact, Revoke, Prove, ScanEvents,
                            ScanClaims, Sweep, AbortErasure, Record, LoseRecord
<1> QED BY <1>2, <1>3 DEF DiskInv, HeldBytesOnDisk, RefsOf

\* An event that can be read has its bytes, unless its append committed after
\* a job had counted the holders of the object or the job that cleared it
\* rolled back: reclaimBlobs(), with any number of jobs over shared objects.
THEOREM BytesAreKept == Spec => []BytesOutliveReferences
<1>1. Init => DiskInv
  BY ErasureAssumption, InitShape DEF Init, DiskInv, HeldBytesOnDisk, CountIsComplete, IdleJob
<1>2. ASSUME DiskInv, [Next]_vars PROVE DiskInv'
  <2>1. IInv'
    BY <1>2, ErasureAssumption, NextKeeps DEF DiskInv
  <2>2. CASE UNCHANGED vars
    BY <1>2, <2>1, <2>2 DEF vars, DiskInv, HeldBytesOnDisk, CountIsComplete, RefsOf
  <2>3. CASE Next
    BY <1>2, <2>1, <2>3, ErasureAssumption, OthersKeepDisk, ReclaimKeepsDisk, RestKeepsDisk
       DEF Next, DiskInv
  <2> QED BY <1>2, <2>2, <2>3
<1>3. DiskInv => BytesOutliveReferences
  BY DEF DiskInv, HeldBytesOnDisk, BytesOutliveReferences
<1> QED BY <1>1, <1>2, <1>3, PTL DEF Spec

-----------------------------------------------------------------------------
\* What a job that found nothing may have missed, from its scans on.
NoEventMissed ==
  \A j \in Jobs : job[j].pc \in Closed \cup {"scanned", "claims"} /\ ~ job[j].residual =>
    \A e \in EventsOf(job[j].sel) :
      row[e] = "live" /\ e \notin ClearedBy(j) => <<"event", e>> \in late[j]

NoClaimMissed ==
  \A j \in Jobs : job[j].pc \in Closed \cup {"claims"} /\ ~ job[j].residual =>
    \A e \in ClaimsOf(job[j].sel) :
      claim[e] \in {"proposed", "accepted"} /\ e \notin RevokedBy(j) => <<"claim", e>> \in late[j]

LateInv == IInv /\ NoEventMissed /\ NoClaimMissed

\* The scan asks for no less than was selected.
LEMMA ScanCoversSelection ==
  ASSUME NEW sel
  PROVE  EventsOf(sel) \subseteq EventsScanned(sel) /\ ClaimsOf(sel) \subseteq ClaimsScanned(sel)
  BY DEF EventsOf, EventsScanned, ClaimsOf, ClaimsScanned, Names, Fields

LEMMA OthersAreLate ==
  ASSUME LateInv, NEW e \in Events, Append(e) \/ Ingest(e)
  PROVE  NoEventMissed' /\ NoClaimMissed'
<1>0. /\ row \in [Events -> {"absent", "putting", "live", "redacted"}]
      /\ claim \in [Events -> {"none", "proposed", "accepted", "revoked"}]
      /\ late \in [Jobs -> SUBSET ({"event", "claim"} \X Events)]
  BY DEF LateInv, IInv, Shape
<1> USE DEF LateInv, NoEventMissed, NoClaimMissed, ClearedBy, RevokedBy, InTx, EventsOf, ClaimsOf, Names
<1>1. CASE Put(e)
  BY <1>0, <1>1 DEF Put
<1>2. CASE CommitAppend(e)
  <2>1. /\ row' = [row EXCEPT ![e] = "live"] /\ UNCHANGED <<claim, job>>
        /\ \A k \in Jobs : late[k] \subseteq late'[k]
        /\ \A k \in Jobs : job[k].pc \in Closed \cup {"scanned", "claims"} /\ ~ job[k].residual
                            => <<"event", e>> \in late'[k]
    BY <1>0, <1>2 DEF CommitAppend, Late
  <2> QED BY <1>0, <2>1
<1>3. CASE AbortAppend(e)
  BY <1>0, <1>3 DEF AbortAppend
<1>4. CASE Read(e) \/ AbortIngest(e)
  BY <1>4 DEF Read, AbortIngest
<1>5. ASSUME NEW s \in {"proposed", "accepted"}, CommitClaim(e, s)
      PROVE  NoEventMissed' /\ NoClaimMissed'
  <2>1. /\ claim' = [claim EXCEPT ![e] = s] /\ UNCHANGED <<row, job>>
        /\ \A k \in Jobs : late[k] \subseteq late'[k]
        /\ \A k \in Jobs : job[k].pc \in Closed \cup {"claims"} /\ ~ job[k].residual
                            => <<"claim", e>> \in late'[k]
    BY <1>0, <1>5 DEF CommitClaim, Late
  <2> QED BY <1>0, <2>1
<1> QED BY <1>1, <1>2, <1>3, <1>4, <1>5 DEF Append, Ingest

\* Before its scans a job claims nothing.
LEMMA ScrubIsEarly ==
  ASSUME LateInv, NEW j \in Jobs, Scrub(j) \/ Reclaim(j)
  PROVE  NoEventMissed' /\ NoClaimMissed'
<1>0. /\ IInv /\ job[j] \in JobRecords /\ job \in [Jobs -> JobRecords]
      /\ \A k \in Jobs \ {j} : job'[k] = job[k]
  BY OthersStay DEF LateInv, IInv, Shape
<1>1. /\ UNCHANGED <<row, claim, late>>
      /\ job'[j].pc \in {"picked", "captured", "redacted", "revoked", "counted"}
  <2>1. ASSUME NEW sel \in Selectors, Pick(j, sel)
        PROVE  UNCHANGED <<row, claim, late>> /\ job'[j].pc = "picked"
    BY <1>0, <2>1 DEF Pick, Step, JobRecords
  <2>2. CASE Capture(j)
    BY <1>0, <2>2 DEF Capture, Step, JobRecords
  <2>3. CASE Redact(j)
    BY <1>0, <2>3 DEF Redact, Step, JobRecords
  <2>4. CASE Revoke(j)
    BY <1>0, <2>4 DEF Revoke, Step, JobRecords
  <2>5. CASE Count(j)
    BY <1>0, <2>5 DEF Count, Step, JobRecords
  <2>6. ASSUME NEW b \in Blobs, Unlink(j, b)
        PROVE  UNCHANGED <<row, claim, late>> /\ job'[j].pc = "counted"
    BY <1>0, <2>6 DEF Unlink, Step, JobRecords
  <2>7. CASE Verify(j)
    BY <1>0, <2>7 DEF Verify, Step, JobRecords
  <2> QED BY <2>1, <2>2, <2>3, <2>4, <2>5, <2>6, <2>7 DEF Scrub, Reclaim
<1> QED BY <1>0, <1>1 DEF LateInv, NoEventMissed, NoClaimMissed, ClearedBy, RevokedBy, InTx,
                          Closed, EventsOf, ClaimsOf, Names

LEMMA ProveIsLate ==
  ASSUME ErasureAssumption, LateInv, NEW j \in Jobs, Prove(j)
  PROVE  NoEventMissed' /\ NoClaimMissed'
<1>0. /\ IInv /\ job[j] \in JobRecords
      /\ \A k \in Jobs \ {j} : job'[k] = job[k]
      /\ \A k \in Jobs \ {j} : ClearedBy(k)' = ClearedBy(k) /\ RevokedBy(k)' = RevokedBy(k)
  BY OthersStay DEF LateInv, IInv, Shape, ClearedBy, RevokedBy, InTx
\* It is enough to look at the job that moves: nobody gains a row.
<1> DEFINE Gains == \/ \E e \in Events : row'[e] = "live" /\ row[e] # "live"
                    \/ \E e \in Events : /\ claim'[e] \in {"proposed", "accepted"}
                                          /\ claim[e] \notin {"proposed", "accepted"}
           EventsMissed == /\ job'[j].pc \in Closed \cup {"scanned", "claims"}
                           /\ ~ job'[j].residual
                           /\ \E e \in EventsOf(job'[j].sel) :
                                row'[e] = "live" /\ e \notin ClearedBy(j)' /\ <<"event", e>> \notin late[j]
           ClaimsMissed == /\ job'[j].pc \in Closed \cup {"claims"}
                           /\ ~ job'[j].residual
                           /\ \E e \in ClaimsOf(job'[j].sel) :
                                /\ claim'[e] \in {"proposed", "accepted"}
                                /\ e \notin RevokedBy(j)' /\ <<"claim", e>> \notin late[j]
<1>1. ASSUME ~ Gains, late' = late, ~ EventsMissed, ~ ClaimsMissed
      PROVE  NoEventMissed' /\ NoClaimMissed'
  <2>1. ASSUME NEW k \in Jobs, job'[k].pc \in Closed \cup {"scanned", "claims"},
               ~ job'[k].residual, NEW e \in EventsOf(job'[k].sel),
               row'[e] = "live", e \notin ClearedBy(k)'
        PROVE  <<"event", e>> \in late'[k]
    <3>1. e \in Events /\ row[e] = "live"
      BY <1>1, <2>1 DEF EventsOf
    <3>2. CASE k = j
      BY <1>1, <2>1, <3>2
    <3>3. CASE k # j
      BY <1>0, <1>1, <2>1, <3>1, <3>3 DEF LateInv, NoEventMissed
    <3> QED BY <3>2, <3>3
  <2>2. ASSUME NEW k \in Jobs, job'[k].pc \in Closed \cup {"claims"}, ~ job'[k].residual,
               NEW e \in ClaimsOf(job'[k].sel),
               claim'[e] \in {"proposed", "accepted"}, e \notin RevokedBy(k)'
        PROVE  <<"claim", e>> \in late'[k]
    <3>1. e \in Events /\ claim[e] \in {"proposed", "accepted"}
      BY <1>1, <2>2 DEF ClaimsOf
    <3>2. CASE k = j
      BY <1>1, <2>2, <3>2
    <3>3. CASE k # j
      BY <1>0, <1>1, <2>2, <3>1, <3>3 DEF LateInv, NoClaimMissed
    <3> QED BY <3>2, <3>3
  <2>3. NoEventMissed'
    BY <2>1 DEF NoEventMissed, EventsOf, Names
  <2>4. NoClaimMissed'
    BY <2>2 DEF NoClaimMissed, ClaimsOf, Names
  <2> QED BY <2>3, <2>4
<1>2. CASE ScanEvents(j)
  <2> DEFINE to == [job[j] EXCEPT !.pc = "scanned", !.residual = Survivors(j) # {}, !.seen = {}]
  <2>1. /\ to.pc = "scanned" /\ to.residual = (Survivors(j) # {}) /\ to.sel = job[j].sel
        /\ to.cleared = job[j].cleared
    BY <1>0 DEF JobRecords
  <2>2. /\ Step(j, "counted", to)
        /\ UNCHANGED <<row, disk, claim, reading, hit, orphans, late>>
    BY <1>2 DEF ScanEvents
  <2> HIDE DEF to
  <2>3. job'[j] = to /\ job[j].pc = "counted"
    BY <1>0, <2>2, Moves
  <2>4. ClearedBy(j)' = ClearedBy(j)
    BY <2>1, <2>3 DEF ClearedBy, InTx
  <2>5. ~ EventsMissed
    BY <2>1, <2>2, <2>3, <2>4, ScanCoversSelection DEF Survivors, Live, EventsOf
  <2>6. ~ ClaimsMissed /\ ~ Gains
    BY <2>1, <2>2, <2>3 DEF Closed
  <2> QED BY <1>1, <2>2, <2>5, <2>6
<1>3. CASE ScanClaims(j)
  <2> DEFINE found == job[j].residual \/ ClaimsScanned(job[j].sel) \cap Unrevoked(j) # {}
             to == [job[j] EXCEPT !.pc = "claims", !.residual = found]
  <2>1. /\ to.pc = "claims" /\ to.residual = found /\ to.sel = job[j].sel
        /\ to.cleared = job[j].cleared /\ to.revoked = job[j].revoked
    BY <1>0 DEF JobRecords
  <2>2. /\ Step(j, "scanned", to)
        /\ UNCHANGED <<row, disk, claim, reading, hit, orphans, late>>
    BY <1>3 DEF ScanClaims
  <2> HIDE DEF to
  <2>3. job'[j] = to /\ job[j].pc = "scanned"
    BY <1>0, <2>2, Moves
  <2>4. ClearedBy(j)' = ClearedBy(j) /\ RevokedBy(j)' = RevokedBy(j)
    BY <2>1, <2>3 DEF ClearedBy, RevokedBy, InTx
  <2>5. ~ EventsMissed
    BY <2>1, <2>2, <2>3, <2>4 DEF LateInv, NoEventMissed
  <2>6. ~ ClaimsMissed
    BY <2>1, <2>2, <2>3, <2>4, ScanCoversSelection DEF Unrevoked, ClaimsOf
  <2>7. ~ Gains
    BY <2>2
  <2> QED BY <1>1, <2>2, <2>5, <2>6, <2>7
<1>4. CASE Sweep(j)
  <2> DEFINE found == job[j].residual \/ job[j].deleted \cap disk # {}
             to == [job[j] EXCEPT !.pc = "swept", !.residual = found]
  <2>1. /\ to.pc = "swept" /\ to.residual = found /\ to.sel = job[j].sel
        /\ to.cleared = job[j].cleared /\ to.revoked = job[j].revoked
    BY <1>0 DEF JobRecords
  <2>2. /\ Step(j, "claims", to)
        /\ UNCHANGED <<row, disk, claim, reading, hit, orphans, late>>
    BY <1>4 DEF Sweep
  <2> HIDE DEF to
  <2>3. job'[j] = to /\ job[j].pc = "claims"
    BY <1>0, <2>2, Moves
  <2>4. ClearedBy(j)' = ClearedBy(j) /\ RevokedBy(j)' = RevokedBy(j)
    BY <2>1, <2>3 DEF ClearedBy, RevokedBy, InTx
  <2>5. ~ EventsMissed /\ ~ ClaimsMissed /\ ~ Gains
    BY <2>1, <2>2, <2>3, <2>4 DEF LateInv, NoEventMissed, NoClaimMissed
  <2> QED BY <1>1, <2>2, <2>5
\* What the job held is now redacted and revoked.
<1>5. CASE CommitErasure(j)
  <2> DEFINE to == Finished(j, "committed")
  <2>1. /\ to.pc = "committed" /\ to.residual = job[j].residual /\ to.sel = job[j].sel
    BY <1>0 DEF Finished, IdleJob
  <2>2. /\ Step(j, "swept", to) /\ UNCHANGED late
        /\ row' = [e \in Events |-> IF e \in job[j].cleared THEN "redacted" ELSE row[e]]
        /\ claim' = [e \in Events |-> IF e \in job[j].revoked THEN "revoked" ELSE claim[e]]
    BY <1>5 DEF CommitErasure
  <2> HIDE DEF to
  <2>3. job'[j] = to /\ job[j].pc = "swept"
    BY <1>0, <2>2, Moves
  <2>4. ~ Gains
    BY <2>2
  <2>5. ClearedBy(j) = job[j].cleared /\ RevokedBy(j) = job[j].revoked
    BY <2>3 DEF ClearedBy, RevokedBy, InTx
  <2>6. /\ job[j].pc \in Closed /\ EventsOf(to.sel) \subseteq Events /\ ClaimsOf(to.sel) \subseteq Events
    BY <2>3 DEF Closed, EventsOf, ClaimsOf
  <2>7. ~ EventsMissed
    BY <2>1, <2>2, <2>3, <2>5, <2>6 DEF LateInv, NoEventMissed
  <2>8. ~ ClaimsMissed
    BY <2>1, <2>2, <2>3, <2>5, <2>6 DEF LateInv, NoClaimMissed
  <2> QED BY <1>1, <2>2, <2>4, <2>7, <2>8
<1>6. CASE AbortErasure(j)
  <2>1. job'[j].pc = "aborted" /\ UNCHANGED <<row, claim, late>>
    BY <1>0, <1>6 DEF AbortErasure, IdleJob, IInv, Shape
  <2> QED BY <1>1, <2>1 DEF Closed
<1>7. CASE Record(j)
  <2> DEFINE to == [job[j] EXCEPT !.pc = "recorded"]
  <2>1. /\ to.pc = "recorded" /\ to.residual = job[j].residual /\ to.sel = job[j].sel
    BY <1>0 DEF JobRecords
  <2>2. /\ Step(j, "committed", to)
        /\ UNCHANGED <<row, disk, claim, reading, hit, orphans, late>>
    BY <1>7 DEF Record
  <2> HIDE DEF to
  <2>3. job'[j] = to /\ job[j].pc = "committed"
    BY <1>0, <2>2, Moves
  <2>4. ClearedBy(j) = {} /\ RevokedBy(j) = {}
    BY <2>3 DEF ClearedBy, RevokedBy, InTx
  <2>5. ~ EventsMissed /\ ~ ClaimsMissed /\ ~ Gains
    BY <2>1, <2>2, <2>3, <2>4 DEF LateInv, NoEventMissed, NoClaimMissed, Closed
  <2> QED BY <1>1, <2>2, <2>5
<1>8. CASE LoseRecord(j)
  <2>1. job'[j].pc = "lost" /\ UNCHANGED <<row, claim, late>>
    BY <1>0, <1>8 DEF LoseRecord, Step, IdleJob, IInv, Shape
  <2> QED BY <1>1, <2>1 DEF Closed
<1> QED BY <1>2, <1>3, <1>4, <1>5, <1>6, <1>7, <1>8 DEF Prove

\* When a job is verified, what it asked to forget and is still there was
\* committed after the residual scan of runForget() had looked for it.
THEOREM VerificationIsSound == Spec => []VerifiedMissesOnlyLateRows
<1>1. Init => LateInv
  BY ErasureAssumption, InitShape DEF Init, LateInv, NoEventMissed, NoClaimMissed, IdleJob, Closed
<1>2. ASSUME LateInv, [Next]_vars PROVE LateInv'
  <2>1. IInv'
    BY <1>2, ErasureAssumption, NextKeeps DEF LateInv
  <2>2. CASE UNCHANGED vars
    BY <1>2, <2>1, <2>2 DEF vars, LateInv, NoEventMissed, NoClaimMissed, ClearedBy, RevokedBy,
                            InTx, EventsOf, ClaimsOf, Names
  <2>3. CASE Next
    BY <1>2, <2>1, <2>3, ErasureAssumption, OthersAreLate, ScrubIsEarly, ProveIsLate
       DEF Next, LateInv
  <2> QED BY <1>2, <2>2, <2>3
<1>3. LateInv => VerifiedMissesOnlyLateRows
  BY DEF LateInv, NoEventMissed, NoClaimMissed, VerifiedMissesOnlyLateRows, Verified, Closed,
         ClearedBy, RevokedBy, InTx
<1> QED BY <1>1, <1>2, <1>3, PTL DEF Spec

-----------------------------------------------------------------------------
\* What a job has still to unlink.
Owes(k, b) ==
  /\ job[k].pc \in {"redacted", "revoked", "counted"}
  /\ b \in ToUnlink(k)
  /\ job[k].at # b

\* An event that keeps an object accountable: it holds it, and whoever has
\* cleared it has the object still to unlink.
Holds(e, b) ==
  /\ BlobOf[e] = b
  /\ row[e] \in {"putting", "live"}
  /\ \A k \in Jobs : e \in ClearedBy(k) => Owes(k, b)

ObjectsAreHeld == \A b \in disk \ orphans : \E e \in Events : Holds(e, b)

\* The references were captured while every row picked was live or redacted.
PicksWereLive ==
  \A j \in Jobs : job[j].pc \in {"picked", "captured"} =>
    \A e \in job[j].picks : row[e] \in {"live", "redacted"}

PicksAreCaptured ==
  \A j \in Jobs : job[j].pc = "captured" =>
    \A e \in job[j].picks : row[e] = "live" /\ BlobOf[e] # Inline => BlobOf[e] \in job[j].refs

NothingReclaimedEarly ==
  \A j \in Jobs : job[j].pc \in {"idle", "picked", "captured", "redacted", "revoked"} =>
    /\ job[j].kept = {} /\ job[j].deleted = {} /\ job[j].other = {}
    /\ job[j].at = Inline

HeldInv ==
  IInv /\ ObjectsAreHeld /\ PicksWereLive /\ PicksAreCaptured /\ NothingReclaimedEarly

\* A step that keeps every row, and what its job owes for the rows it has
\* cleared, keeps the event that holds an object.
LEMMA HoldersStay ==
  ASSUME HeldInv, NEW j \in Jobs, \A k \in Jobs \ {j} : job'[k] = job[k],
         UNCHANGED row, disk' \ orphans' \subseteq disk \ orphans,
         \A b \in disk' \ orphans' : \A e \in Events :
           Holds(e, b) /\ e \in ClearedBy(j)' => Owes(j, b)'
  PROVE  ObjectsAreHeld'
<1> SUFFICES ASSUME NEW b \in disk' \ orphans' PROVE \E e \in Events : Holds(e, b)'
  BY DEF ObjectsAreHeld, Holds, ClearedBy, InTx, Owes, ToUnlink
<1>1. PICK e \in Events : Holds(e, b)
  BY DEF HeldInv, ObjectsAreHeld
<1>2. ASSUME NEW k \in Jobs, e \in ClearedBy(k)' PROVE Owes(k, b)'
  <2>1. CASE k = j
    BY <1>1, <1>2, <2>1
  <2>2. CASE k # j
    BY <1>1, <1>2, <2>2 DEF Holds, ClearedBy, InTx, Owes, ToUnlink
  <2> QED BY <2>1, <2>2
<1> QED BY <1>1, <1>2 DEF Holds

LEMMA OthersKeepHolders ==
  ASSUME ErasureAssumption, HeldInv, NEW e \in Events, Append(e) \/ Ingest(e)
  PROVE  ObjectsAreHeld' /\ PicksWereLive' /\ PicksAreCaptured' /\ NothingReclaimedEarly'
<1>0. /\ row \in [Events -> {"absent", "putting", "live", "redacted"}] /\ IInv
      /\ \A k \in Jobs : job[k].picks \subseteq Events
  BY DEF HeldInv, IInv, Shape, JobRecords
<1>1. UNCHANGED job
  BY DEF Append, Put, CommitAppend, AbortAppend, Ingest, Read, CommitClaim, AbortIngest
<1>2. \A d \in Events : row[d] \in {"live", "redacted"} => row'[d] = row[d]
  BY <1>0 DEF Append, Put, CommitAppend, AbortAppend, Ingest, Read, CommitClaim, AbortIngest
<1>3. PicksWereLive' /\ NothingReclaimedEarly'
  BY <1>0, <1>1, <1>2 DEF HeldInv, PicksWereLive, NothingReclaimedEarly
<1>4. PicksAreCaptured'
  BY <1>0, <1>1, <1>2 DEF HeldInv, PicksWereLive, PicksAreCaptured
\* A row that is not live is cleared by nobody.
<1>5. \A d \in Events : row[d] # "live" => \A k \in Jobs : d \notin ClearedBy(k)
  BY <1>0 DEF IInv, ClearedRows, ClearedBy
<1>6. /\ \A k \in Jobs : ClearedBy(k)' = ClearedBy(k)
      /\ \A k \in Jobs : \A b : Owes(k, b) => Owes(k, b)'
  BY <1>1 DEF ClearedBy, InTx, Owes, ToUnlink
<1>7. ObjectsAreHeld'
  <2> SUFFICES ASSUME NEW b \in disk' \ orphans' PROVE \E d \in Events : Holds(d, b)'
    BY DEF ObjectsAreHeld, Holds, ClearedBy, InTx, Owes, ToUnlink
  <2>1. CASE Put(e)
    <3>1. CASE b \in RefsOf({e})
      BY <1>0, <1>5, <1>6, <2>1, <3>1 DEF Put, RefsOf, Holds
    <3>2. CASE b \notin RefsOf({e})
      <4>1. PICK d \in Events : Holds(d, b)
        BY <2>1, <3>2 DEF Put, HeldInv, ObjectsAreHeld
      <4>2. row'[d] = row[d]
        BY <1>0, <2>1, <4>1 DEF Put, Holds
      <4> QED BY <1>6, <4>1, <4>2 DEF Holds
    <3> QED BY <3>1, <3>2
  <2>2. CASE CommitAppend(e)
    <3>1. PICK d \in Events : Holds(d, b)
      BY <2>2 DEF CommitAppend, HeldInv, ObjectsAreHeld
    <3>2. row'[d] \in {"putting", "live"}
      BY <1>0, <2>2, <3>1 DEF CommitAppend, Holds
    <3> QED BY <1>6, <3>1, <3>2 DEF Holds
  <2>3. CASE AbortAppend(e)
    <3>1. PICK d \in Events : Holds(d, b)
      BY <2>3 DEF AbortAppend, HeldInv, ObjectsAreHeld
    <3>2. b # Inline
      BY <2>3 DEF AbortAppend, HeldInv, IInv, Shape, ErasureAssumption
    <3>3. b \notin RefsOf({e})
      BY <2>3 DEF AbortAppend
    <3>4. CASE d = e
      BY <3>1, <3>2, <3>3, <3>4 DEF Holds, RefsOf
    <3>5. CASE d # e
      <4>1. row'[d] = row[d]
        BY <1>0, <2>3, <3>5 DEF AbortAppend
      <4> QED BY <1>6, <3>1, <4>1 DEF Holds
    <3> QED BY <3>4, <3>5
  <2>4. CASE Ingest(e)
    <3>1. UNCHANGED <<row, disk, orphans>>
      BY <2>4 DEF Ingest, Read, CommitClaim, AbortIngest
    <3>2. PICK d \in Events : Holds(d, b)
      BY <3>1 DEF HeldInv, ObjectsAreHeld
    <3> QED BY <1>6, <3>1, <3>2 DEF Holds
  <2> QED BY <2>1, <2>2, <2>3, <2>4 DEF Append
<1> QED BY <1>3, <1>4, <1>7

\* The steps of a job that is past its update, but its commit, leave the rows
\* alone.
LEMMA PicksStay ==
  ASSUME HeldInv, NEW j \in Jobs, \A k \in Jobs \ {j} : job'[k] = job[k],
         UNCHANGED row,
         job'[j].pc \notin {"idle", "picked", "captured", "redacted", "revoked"}
  PROVE  PicksWereLive' /\ PicksAreCaptured' /\ NothingReclaimedEarly'
<1>1. \A k \in Jobs : job[k].picks \subseteq Events
  BY DEF HeldInv, IInv, Shape, JobRecords
<1>2. PicksWereLive'
  BY <1>1 DEF HeldInv, PicksWereLive
<1>3. PicksAreCaptured'
  BY <1>1 DEF HeldInv, PicksAreCaptured
<1> QED BY <1>2, <1>3 DEF HeldInv, NothingReclaimedEarly

\* Up to its update a job has cleared nothing; then it owes every object it
\* has captured, and what it clears it has captured.
LEMMA ScrubKeepsHolders ==
  ASSUME ErasureAssumption, HeldInv, NEW j \in Jobs, Scrub(j)
  PROVE  ObjectsAreHeld' /\ PicksWereLive' /\ PicksAreCaptured' /\ NothingReclaimedEarly'
<1>0. /\ IInv /\ job[j] \in JobRecords
      /\ \A k \in Jobs \ {j} : job'[k] = job[k]
      /\ \A k \in Jobs : job[k].picks \subseteq Events
  BY OthersStay DEF HeldInv, IInv, Shape, JobRecords
<1> USE DEF HeldInv
<1>1. ASSUME NEW sel \in Selectors, Pick(j, sel)
      PROVE  ObjectsAreHeld' /\ PicksWereLive' /\ PicksAreCaptured' /\ NothingReclaimedEarly'
  <2> DEFINE live == {e \in EventsOf(sel) : row[e] \in {"live", "redacted"}}
             to == [job[j] EXCEPT !.pc = "picked", !.sel = sel, !.picks = live]
  <2>1. /\ to.pc = "picked" /\ to.picks = live /\ to.cleared = job[j].cleared
        /\ to.kept = job[j].kept /\ to.deleted = job[j].deleted /\ to.other = job[j].other
        /\ to.at = job[j].at
    BY <1>0 DEF JobRecords
  <2>2. Step(j, "idle", to) /\ UNCHANGED <<row, disk, claim, reading, hit, orphans, late>>
    BY <1>1 DEF Pick
  <2>3. \A e \in live : row[e] \in {"live", "redacted"}
    OBVIOUS
  <2> HIDE DEF to, live
  <2>4. job[j].pc = "idle" /\ job'[j] = to
    BY <1>0, <2>2, Moves
  <2>5. job[j].cleared = {}
    BY <1>0, <2>4 DEF IInv, NothingClearedEarly, Early
  <2>6. ObjectsAreHeld'
    BY <1>0, <2>1, <2>2, <2>4, <2>5, HoldersStay DEF ClearedBy
  <2>7. PicksWereLive' /\ PicksAreCaptured' /\ NothingReclaimedEarly'
    BY <1>0, <2>1, <2>2, <2>3, <2>4 DEF PicksWereLive, PicksAreCaptured, NothingReclaimedEarly
  <2> QED BY <2>6, <2>7
<1>2. CASE Capture(j)
  <2> DEFINE to == [job[j] EXCEPT !.pc = "captured", !.refs = Captured(j),
                      !.claims = {e \in ClaimsOf(job[j].sel) : claim[e] # "none"}]
  <2>1. /\ to.pc = "captured" /\ to.picks = job[j].picks /\ to.cleared = job[j].cleared
        /\ to.refs = Captured(j)
        /\ to.kept = job[j].kept /\ to.deleted = job[j].deleted /\ to.other = job[j].other
        /\ to.at = job[j].at
    BY <1>0 DEF JobRecords
  <2>2. Step(j, "picked", to) /\ UNCHANGED <<row, disk, claim, reading, hit, orphans, late>>
    BY <1>2 DEF Capture
  <2> HIDE DEF to
  <2>3. job[j].pc = "picked" /\ job'[j] = to
    BY <1>0, <2>2, Moves
  <2>4. job[j].cleared = {}
    BY <1>0, <2>3 DEF IInv, NothingClearedEarly, Early
  <2>5. ObjectsAreHeld'
    BY <1>0, <2>1, <2>2, <2>3, <2>4, HoldersStay DEF ClearedBy
  <2>6. \A e \in job[j].picks : row[e] = "live" /\ BlobOf[e] # Inline => BlobOf[e] \in Captured(j)
    BY <1>0, <2>4 DEF Captured, Live, ClearedBy, RefsOf
  <2>7. PicksWereLive' /\ NothingReclaimedEarly'
    BY <1>0, <2>1, <2>2, <2>3 DEF PicksWereLive, NothingReclaimedEarly
  <2>8. PicksAreCaptured'
    BY <1>0, <2>1, <2>2, <2>3, <2>6 DEF PicksAreCaptured
  <2> QED BY <2>5, <2>7, <2>8
<1>3. CASE Redact(j)
  <2> DEFINE es == job[j].picks \cap Live(j)
             to == [job[j] EXCEPT !.pc = "redacted", !.cleared = es]
  <2>1. /\ to.pc = "redacted" /\ to.cleared = es /\ to.refs = job[j].refs
        /\ to.kept = job[j].kept /\ to.deleted = job[j].deleted /\ to.other = job[j].other
        /\ to.at = job[j].at
    BY <1>0 DEF JobRecords
  <2>2. Step(j, "captured", to) /\ UNCHANGED <<row, disk, claim, reading, hit, orphans, late>>
    BY <1>3 DEF Redact
  <2>3. \A e \in es : e \in job[j].picks /\ row[e] = "live"
    BY DEF Live
  <2> HIDE DEF to, es
  <2>4. job[j].pc = "captured" /\ job'[j] = to
    BY <1>0, <2>2, Moves
  <2>5. NothingReclaimedEarly' /\ to.kept = {} /\ to.deleted = {} /\ to.other = {} /\ to.at = Inline
    BY <1>0, <2>1, <2>4 DEF NothingReclaimedEarly
  <2>6. ASSUME NEW b \in disk' \ orphans', NEW e \in Events, Holds(e, b), e \in ClearedBy(j)'
        PROVE  Owes(j, b)'
    <3>1. e \in es /\ BlobOf[e] = b /\ b # Inline
      BY <1>0, <2>1, <2>2, <2>4, <2>6 DEF ClearedBy, InTx, Holds, IInv, Shape, ErasureAssumption
    <3>2. b \in job[j].refs
      BY <2>3, <2>4, <3>1 DEF PicksAreCaptured
    <3> QED BY <2>1, <2>4, <2>5, <3>1, <3>2 DEF Owes, ToUnlink
  <2>7. ObjectsAreHeld'
    BY <1>0, <2>2, <2>6, HoldersStay
  <2>8. PicksWereLive' /\ PicksAreCaptured'
    BY <1>0, <2>1, <2>2, <2>4 DEF PicksWereLive, PicksAreCaptured
  <2> QED BY <2>5, <2>7, <2>8
<1>4. CASE Revoke(j)
  <2> DEFINE to == [job[j] EXCEPT !.pc = "revoked", !.revoked = job[j].claims \cap Unrevoked(j)]
  <2>1. /\ to.pc = "revoked" /\ to.cleared = job[j].cleared /\ to.refs = job[j].refs
        /\ to.kept = job[j].kept /\ to.deleted = job[j].deleted /\ to.other = job[j].other
        /\ to.at = job[j].at
    BY <1>0 DEF JobRecords
  <2>2. Step(j, "redacted", to) /\ UNCHANGED <<row, disk, claim, reading, hit, orphans, late>>
    BY <1>4 DEF Revoke
  <2> HIDE DEF to
  <2>3. job[j].pc = "redacted" /\ job'[j] = to
    BY <1>0, <2>2, Moves
  <2>4. ASSUME NEW b \in disk' \ orphans', NEW e \in Events, Holds(e, b), e \in ClearedBy(j)'
        PROVE  Owes(j, b)'
    <3>1. e \in ClearedBy(j)
      BY <2>1, <2>3, <2>4 DEF ClearedBy, InTx
    <3> QED BY <2>1, <2>3, <2>4, <3>1 DEF Holds, Owes, ToUnlink
  <2>5. ObjectsAreHeld'
    BY <1>0, <2>2, <2>4, HoldersStay
  <2>6. PicksWereLive' /\ PicksAreCaptured' /\ NothingReclaimedEarly'
    BY <1>0, <2>1, <2>2, <2>3 DEF PicksWereLive, PicksAreCaptured, NothingReclaimedEarly
  <2> QED BY <2>5, <2>6
<1> QED BY <1>1, <1>2, <1>3, <1>4 DEF Scrub

\* An object the count keeps has a holder that nobody clears, or is an orphan;
\* one it does not keep is still owed.
LEMMA CountKeepsHolders ==
  ASSUME ErasureAssumption, HeldInv, NEW j \in Jobs, Count(j)
  PROVE  ObjectsAreHeld'
<1> DEFINE to == [job[j] EXCEPT !.pc = "counted", !.kept = RefsOf(Holders(j)),
                                !.seen = {e \in Events : row[e] = "live"}]
<1>1. /\ IInv /\ job[j] \in JobRecords /\ Reclaim(j)
      /\ \A k \in Jobs \ {j} : job'[k] = job[k]
  BY OthersStay DEF HeldInv, IInv, Shape, Reclaim
<1>2. /\ to.pc = "counted" /\ to.cleared = job[j].cleared /\ to.refs = job[j].refs
      /\ to.kept = RefsOf(Holders(j)) /\ to.deleted = job[j].deleted /\ to.other = job[j].other
      /\ to.at = job[j].at
  BY <1>1 DEF JobRecords
<1>3. /\ Step(j, "revoked", to) /\ UNCHANGED <<row, disk>>
      /\ orphans' = orphans \cup (RefsOf(Holders(j)) \ RefsOf(Holders(j) \ ClearedByOthers(j)))
  BY DEF Count
<1> HIDE DEF to
<1>4. job[j].pc = "revoked" /\ job'[j] = to
  BY <1>1, <1>3, Moves
<1>5. job[j].deleted = {} /\ job[j].other = {} /\ job[j].at = Inline
  BY <1>4 DEF HeldInv, NothingReclaimedEarly
<1>6. /\ ClearedBy(j)' = ClearedBy(j)
      /\ \A k \in Jobs \ {j} : ClearedBy(k)' = ClearedBy(k) /\ \A b : Owes(k, b) => Owes(k, b)'
  BY <1>1, <1>2, <1>4 DEF ClearedBy, InTx, Owes, ToUnlink
<1> SUFFICES ASSUME NEW b \in disk' \ orphans' PROVE \E e \in Events : Holds(e, b)'
  BY DEF ObjectsAreHeld, Holds, ClearedBy, InTx, Owes, ToUnlink
<1>7. b \in disk /\ b \notin orphans /\ b # Inline
  BY <1>1, <1>3 DEF IInv, Shape, ErasureAssumption
<1>8. PICK e \in Events : Holds(e, b)
  BY <1>7 DEF HeldInv, ObjectsAreHeld
<1>9. CASE e \notin ClearedBy(j)
  BY <1>3, <1>6, <1>8, <1>9 DEF Holds
<1>10. CASE e \in ClearedBy(j) /\ b \notin to.kept
  <2>1. Owes(j, b)'
    BY <1>2, <1>4, <1>5, <1>7, <1>8, <1>10 DEF Holds, Owes, ToUnlink
  <2> QED BY <1>3, <1>6, <1>8, <2>1 DEF Holds
<1>11. CASE b \in to.kept
  <2>1. b \in RefsOf(Holders(j) \ ClearedByOthers(j))
    BY <1>2, <1>3, <1>11
  <2>2. PICK d \in Holders(j) \ ClearedByOthers(j) : BlobOf[d] = b
    BY <2>1 DEF RefsOf
  <2>3. d \in Events /\ row[d] = "live" /\ \A k \in Jobs : d \notin ClearedBy(k)
    BY <2>2 DEF Holders, Live, ClearedByOthers
  <2>4. \A k \in Jobs : d \notin ClearedBy(k)'
    BY <1>6, <2>3
  <2> QED BY <1>3, <2>2, <2>3, <2>4 DEF Holds
<1> QED BY <1>9, <1>10, <1>11

LEMMA ReclaimKeepsHolders ==
  ASSUME ErasureAssumption, HeldInv, NEW j \in Jobs, Reclaim(j)
  PROVE  ObjectsAreHeld' /\ PicksWereLive' /\ PicksAreCaptured' /\ NothingReclaimedEarly'
<1>0. /\ IInv /\ job[j] \in JobRecords
      /\ \A k \in Jobs \ {j} : job'[k] = job[k]
  BY OthersStay DEF HeldInv, IInv, Shape
<1>1. CASE Count(j)
  <2>1. job'[j].pc = "counted" /\ UNCHANGED row
    BY <1>0, <1>1 DEF Count, Step, HeldInv, IInv, Shape, JobRecords
  <2>2. PicksWereLive' /\ PicksAreCaptured' /\ NothingReclaimedEarly'
    BY <1>0, <2>1, PicksStay
  <2> QED BY <1>1, <2>2, CountKeepsHolders
<1>2. ASSUME NEW b \in Blobs, Unlink(j, b)
      PROVE  ObjectsAreHeld' /\ PicksWereLive' /\ PicksAreCaptured' /\ NothingReclaimedEarly'
  <2> DEFINE to == [job[j] EXCEPT !.at = b]
  <2>1. /\ to.pc = job[j].pc /\ to.cleared = job[j].cleared /\ to.refs = job[j].refs
        /\ to.kept = job[j].kept /\ to.deleted = job[j].deleted /\ to.other = job[j].other
        /\ to.at = b
    BY <1>0 DEF JobRecords
  <2>2. /\ Step(j, "counted", to) /\ UNCHANGED row
        /\ disk' = disk \ {b} /\ orphans' = orphans \ {b}
    BY <1>2 DEF Unlink
  <2> HIDE DEF to
  <2>3. job[j].pc = "counted" /\ job'[j] = to
    BY <1>0, <2>2, Moves
  <2>4. ASSUME NEW c \in disk' \ orphans', NEW e \in Events, Holds(e, c), e \in ClearedBy(j)'
        PROVE  Owes(j, c)'
    <3>1. Owes(j, c)
      BY <2>1, <2>3, <2>4 DEF ClearedBy, InTx, Holds
    <3> QED BY <2>1, <2>2, <2>3, <2>4, <3>1 DEF Owes, ToUnlink
  <2>5. ObjectsAreHeld'
    BY <1>0, <2>2, <2>4, HoldersStay
  <2>6. job'[j].pc = "counted" /\ UNCHANGED row
    BY <2>1, <2>2, <2>3
  <2>7. PicksWereLive' /\ PicksAreCaptured' /\ NothingReclaimedEarly'
    BY <1>0, <2>6, PicksStay
  <2> QED BY <2>5, <2>7
<1>3. CASE Verify(j)
  <2> DEFINE to == IF job[j].at \in disk
                   THEN [job[j] EXCEPT !.other = @ \cup {job[j].at}, !.at = Inline]
                   ELSE [job[j] EXCEPT !.deleted = @ \cup {job[j].at}, !.at = Inline]
  <2>1. /\ to.pc = job[j].pc /\ to.cleared = job[j].cleared /\ to.refs = job[j].refs
        /\ to.kept = job[j].kept
        /\ to.deleted \cup to.other = job[j].deleted \cup job[j].other \cup {job[j].at}
        /\ to.at = Inline
    BY <1>0 DEF JobRecords
  <2>2. Step(j, "counted", to) /\ UNCHANGED <<row, disk, claim, reading, hit, orphans, late>>
    BY <1>3 DEF Verify
  <2> HIDE DEF to
  <2>3. job[j].pc = "counted" /\ job'[j] = to
    BY <1>0, <2>2, Moves
  <2>4. ASSUME NEW c \in disk' \ orphans', NEW e \in Events, Holds(e, c), e \in ClearedBy(j)'
        PROVE  Owes(j, c)'
    <3>1. Owes(j, c)
      BY <2>1, <2>3, <2>4 DEF ClearedBy, InTx, Holds
    <3>2. c # Inline
      BY <1>0, <2>2 DEF IInv, Shape, ErasureAssumption
    <3>3. c \notin to.deleted /\ c \notin to.other
      BY <2>1, <3>1 DEF Owes, ToUnlink
    <3> QED BY <2>1, <2>3, <3>1, <3>2, <3>3 DEF Owes, ToUnlink
  <2>5. ObjectsAreHeld'
    BY <1>0, <2>2, <2>4, HoldersStay
  <2>6. job'[j].pc = "counted" /\ UNCHANGED row
    BY <2>1, <2>2, <2>3
  <2>7. PicksWereLive' /\ PicksAreCaptured' /\ NothingReclaimedEarly'
    BY <1>0, <2>6, PicksStay
  <2> QED BY <2>5, <2>7
<1> QED BY <1>1, <1>2, <1>3 DEF Reclaim

\* A job at its scans owes nothing, so what holds an object it has not cleared.
LEMMA ProveKeepsHolders ==
  ASSUME ErasureAssumption, HeldInv, NEW j \in Jobs, Prove(j)
  PROVE  ObjectsAreHeld' /\ PicksWereLive' /\ PicksAreCaptured' /\ NothingReclaimedEarly'
<1>0. /\ IInv /\ job[j] \in JobRecords /\ job \in [Jobs -> JobRecords]
      /\ \A k \in Jobs \ {j} : job'[k] = job[k]
      /\ \A k \in Jobs : job[k].picks \subseteq Events
  BY OthersStay DEF HeldInv, IInv, Shape, JobRecords
<1>1. ASSUME UNCHANGED <<row, disk, orphans>>,
             job'[j].pc \in {"scanned", "claims", "swept", "committed", "recorded", "lost", "aborted"},
             \A e \in Events : \A b : Holds(e, b) => e \notin ClearedBy(j)'
      PROVE  ObjectsAreHeld' /\ PicksWereLive' /\ PicksAreCaptured' /\ NothingReclaimedEarly'
  <2>1. ObjectsAreHeld'
    BY <1>0, <1>1, HoldersStay
  <2>2. PicksWereLive' /\ PicksAreCaptured' /\ NothingReclaimedEarly'
    BY <1>0, <1>1, PicksStay
  <2> QED BY <2>1, <2>2
<1>2. CASE ScanEvents(j)
  <2>1. /\ job[j].pc = "counted" /\ ToUnlink(j) = {} /\ UNCHANGED <<row, disk, orphans>>
        /\ job'[j].pc = "scanned" /\ job'[j].cleared = job[j].cleared
    BY <1>0, <1>2 DEF ScanEvents, Step, JobRecords
  <2>2. ClearedBy(j)' = ClearedBy(j)
    BY <2>1 DEF ClearedBy, InTx
  <2> QED BY <1>1, <2>1, <2>2 DEF Holds, Owes
<1>3. CASE ScanClaims(j)
  <2>1. /\ job[j].pc = "scanned" /\ UNCHANGED <<row, disk, orphans>>
        /\ job'[j].pc = "claims" /\ job'[j].cleared = job[j].cleared
    BY <1>0, <1>3 DEF ScanClaims, Step, JobRecords
  <2>2. ClearedBy(j)' = ClearedBy(j)
    BY <2>1 DEF ClearedBy, InTx
  <2> QED BY <1>1, <2>1, <2>2 DEF Holds, Owes
<1>4. CASE Sweep(j)
  <2>1. /\ job[j].pc = "claims" /\ UNCHANGED <<row, disk, orphans>>
        /\ job'[j].pc = "swept" /\ job'[j].cleared = job[j].cleared
    BY <1>0, <1>4 DEF Sweep, Step, JobRecords
  <2>2. ClearedBy(j)' = ClearedBy(j)
    BY <2>1 DEF ClearedBy, InTx
  <2> QED BY <1>1, <2>1, <2>2 DEF Holds, Owes
<1>5. CASE CommitErasure(j)
  <2>1. /\ job[j].pc = "swept" /\ UNCHANGED <<disk, orphans>>
        /\ row' = [e \in Events |-> IF e \in job[j].cleared THEN "redacted" ELSE row[e]]
        /\ job'[j].pc = "committed"
    BY <1>0, <1>5 DEF CommitErasure, Step, Finished, IdleJob
  <2>2. ClearedBy(j) = job[j].cleared /\ ClearedBy(j)' = {}
    BY <2>1 DEF ClearedBy, InTx
  <2>3. \A k \in Jobs \ {j} : ClearedBy(k)' = ClearedBy(k) /\ \A b : Owes(k, b) => Owes(k, b)'
    BY <1>0 DEF ClearedBy, InTx, Owes, ToUnlink
  <2>4. ASSUME NEW e \in Events, NEW b, Holds(e, b) PROVE Holds(e, b)'
    <3>1. e \notin job[j].cleared
      BY <2>1, <2>2, <2>4 DEF Holds, Owes
    <3>2. row'[e] = row[e]
      BY <2>1, <3>1
    <3> QED BY <2>2, <2>3, <2>4, <3>2 DEF Holds
  <2>5. ObjectsAreHeld'
    <3> SUFFICES ASSUME NEW b \in disk' \ orphans' PROVE \E e \in Events : Holds(e, b)'
      BY DEF ObjectsAreHeld, Holds, ClearedBy, InTx, Owes, ToUnlink
    <3>1. PICK e \in Events : Holds(e, b)
      BY <2>1 DEF HeldInv, ObjectsAreHeld
    <3> QED BY <2>4, <3>1
  <2>6. PicksWereLive' /\ NothingReclaimedEarly'
    BY <1>0, <2>1 DEF HeldInv, PicksWereLive, NothingReclaimedEarly
  <2>7. PicksAreCaptured'
    BY <1>0, <2>1 DEF HeldInv, PicksAreCaptured
  <2> QED BY <2>5, <2>6, <2>7
<1>6. CASE AbortErasure(j)
  <2>1. UNCHANGED <<row, disk, orphans>> /\ job'[j].pc = "aborted"
    BY <1>0, <1>6 DEF AbortErasure, IdleJob
  <2>2. ClearedBy(j)' = {}
    BY <2>1 DEF ClearedBy, InTx
  <2> QED BY <1>1, <2>1, <2>2
<1>7. CASE Record(j)
  <2>1. UNCHANGED <<row, disk, orphans>> /\ job'[j].pc = "recorded"
    BY <1>0, <1>7 DEF Record, Step, JobRecords
  <2>2. ClearedBy(j)' = {}
    BY <2>1 DEF ClearedBy, InTx
  <2> QED BY <1>1, <2>1, <2>2
<1>8. CASE LoseRecord(j)
  <2>1. UNCHANGED <<row, disk, orphans>> /\ job'[j].pc = "lost"
    BY <1>0, <1>8 DEF LoseRecord, Step, IdleJob
  <2>2. ClearedBy(j)' = {}
    BY <2>1 DEF ClearedBy, InTx
  <2> QED BY <1>1, <2>1, <2>2
<1> QED BY <1>2, <1>3, <1>4, <1>5, <1>6, <1>7, <1>8 DEF Prove

\* Every object on disk is one an event holds, unless the append that wrote it
\* aborted or a job counted as its holder a row another was clearing: an
\* erasure by reclaimBlobs() leaves no object behind that it detached.
THEOREM NothingIsLeftBehind == Spec => []DetachedBytesAreGone
<1>1. Init => HeldInv
  <2> SUFFICES ASSUME Init PROVE HeldInv
    OBVIOUS
  <2>1. \A k \in Jobs : job[k] = IdleJob
    BY DEF Init
  <2>2. PicksWereLive /\ PicksAreCaptured /\ NothingReclaimedEarly
    BY <2>1 DEF PicksWereLive, PicksAreCaptured, NothingReclaimedEarly, IdleJob
  <2>3. ObjectsAreHeld
    BY DEF Init, ObjectsAreHeld
  <2> QED BY <2>2, <2>3, ErasureAssumption, InitShape DEF HeldInv
<1>2. ASSUME HeldInv, [Next]_vars PROVE HeldInv'
  <2>1. IInv'
    BY <1>2, ErasureAssumption, NextKeeps DEF HeldInv
  <2>2. CASE UNCHANGED vars
    <3>1. UNCHANGED <<row, disk, job, orphans>>
      BY <2>2 DEF vars
    <3>2. ObjectsAreHeld'
      BY <1>2, <3>1 DEF HeldInv, ObjectsAreHeld, Holds, ClearedBy, InTx, Owes, ToUnlink
    <3>3. PicksWereLive' /\ PicksAreCaptured' /\ NothingReclaimedEarly'
      BY <1>2, <3>1 DEF HeldInv, PicksWereLive, PicksAreCaptured, NothingReclaimedEarly
    <3> QED BY <2>1, <3>2, <3>3 DEF HeldInv
  <2>3. CASE Next
    BY <1>2, <2>1, <2>3, ErasureAssumption, OthersKeepHolders, ScrubKeepsHolders,
       ReclaimKeepsHolders, ProveKeepsHolders DEF Next, HeldInv
  <2> QED BY <1>2, <2>2, <2>3
<1>3. HeldInv => DetachedBytesAreGone
  BY DEF HeldInv, ObjectsAreHeld, Holds, DetachedBytesAreGone
<1> QED BY <1>1, <1>2, <1>3, PTL DEF Spec
=============================================================================
