------------------------------ MODULE Erasure ------------------------------
(***************************************************************************)
(* Forgetting (packages/retrieval/src/retention.ts) over the evidence      *)
(* bytes of packages/ledger/src/blobs.ts: a job clears the payloads of the *)
(* events it selects, revokes the claims it selects, unlinks the objects   *)
(* no event refers to any more, scans for survivors, commits, and records  *)
(* its manifest in a second transaction.  Appends and ingests go on        *)
(* meanwhile, and so do other jobs.                                        *)
(*                                                                         *)
(* The tables obey a READ COMMITTED transaction: what a job cleared or     *)
(* revoked is seen by others when it commits, and lost if it does not.     *)
(* The disk obeys nobody: an object is written or unlinked at once.        *)
(***************************************************************************)
EXTENDS Naturals

CONSTANTS
  Events,
  Jobs,                 \* requests to forget, one each
  Blobs,                \* content addresses of the payloads
  Inline,               \* a payload small enough for its row
  BlobOf,               \* the content address of an event's payload
  Home,                 \* an event's project, user and actor
  Selectors,            \* what a request may name
  All                   \* a field a request leaves out

Fields == {"project", "user", "actor"}

ASSUME ErasureAssumption ==
  /\ Inline \notin Blobs
  /\ BlobOf \in [Events -> Blobs \cup {Inline}]

VARIABLES
  row,                  \* events: the committed row, or the append under way
  disk,                 \* the objects of the blob store
  claim,                \* the committed status of the claim about an event
  reading,              \* ingests that hold an event's content
  job,                  \* in seen, only history: the events live at its count
  hit,                  \* history: events whose bytes a job unlinked unaware
  orphans,              \* history: objects no job is answerable for
  late                  \* history: rows committed after a job scanned for them

vars == <<row, disk, claim, reading, job, hit, orphans, late>>

IdleJob ==
  [pc |-> "idle", sel |-> All, picks |-> {}, claims |-> {}, refs |-> {},
   seen |-> {}, kept |-> {}, at |-> Inline, deleted |-> {}, other |-> {}, cleared |-> {},
   revoked |-> {}, residual |-> FALSE]

Init ==
  /\ row = [e \in Events |-> "absent"]
  /\ disk = {}
  /\ claim = [e \in Events |-> "none"]
  /\ reading = {}
  /\ job = [j \in Jobs |-> IdleJob]
  /\ hit = {}
  /\ orphans = {}
  /\ late = [j \in Jobs |-> {}]

-----------------------------------------------------------------------------
InTx(j) == job[j].pc \notin {"idle", "committed", "recorded", "lost", "aborted"}

\* The rows a job has written and holds until its transaction ends.
ClearedBy(j) == IF InTx(j) THEN job[j].cleared ELSE {}
RevokedBy(j) == IF InTx(j) THEN job[j].revoked ELSE {}
ClearedByOthers(j) == UNION {ClearedBy(k) : k \in Jobs \ {j}}
RevokedByOthers(j) == UNION {RevokedBy(k) : k \in Jobs \ {j}}

\* The rows as a statement of job j sees them.
Live(j) == {e \in Events : row[e] = "live"} \ ClearedBy(j)
Unrevoked(j) == {e \in Events : claim[e] \in {"proposed", "accepted"}} \ RevokedBy(j)

\* The fields fs of a request name event e; a field left out names them all.
Names(sel, e, fs) == \A f \in fs : sel[f] \in {All, Home[e][f]}

\* The scrub selects events by scope and actor, and claims by scope alone.
EventsOf(sel) == {e \in Events : Names(sel, e, Fields)}
ClaimsOf(sel) == {e \in Events : Names(sel, e, {"project", "user"})}

\* The scan asks for the user and the actor of an event, the user of a claim.
EventsScanned(sel) == {e \in Events : Names(sel, e, {"user", "actor"})}
ClaimsScanned(sel) == {e \in Events : Names(sel, e, {"user"})}

RefsOf(es) == {BlobOf[e] : e \in es} \ {Inline}

Step(j, from, to) == job[j].pc = from /\ job' = [job EXCEPT ![j] = to]

-----------------------------------------------------------------------------
\* Ledger.append: the object is written inside the transaction, before the
\* row.  An object that is there already is left as it is.
Put(e) ==
  /\ row[e] = "absent"
  /\ row' = [row EXCEPT ![e] = "putting"]
  /\ disk' = disk \cup RefsOf({e})
  /\ UNCHANGED <<claim, reading, job, hit, orphans, late>>

\* A row that becomes visible after a job looked for it and found nothing.
Late(r, after) ==
  late' = [j \in Jobs |-> IF job[j].pc \in after /\ ~ job[j].residual
                          THEN late[j] \cup {r} ELSE late[j]]

Closed == {"swept", "committed", "recorded"}

CommitAppend(e) ==
  /\ row[e] = "putting"
  /\ row' = [row EXCEPT ![e] = "live"]
  /\ Late(<<"event", e>>, Closed \cup {"scanned", "claims"})
  /\ UNCHANGED <<disk, claim, reading, job, hit, orphans>>

\* The rollback leaves the object behind.
AbortAppend(e) ==
  /\ row[e] = "putting"
  /\ row' = [row EXCEPT ![e] = "absent"]
  /\ orphans' = orphans \cup RefsOf({e})
  /\ UNCHANGED <<disk, claim, reading, job, hit, late>>

\* An ingest has read the event: content that is gone yields no candidate.
Read(e) ==
  /\ row[e] = "live"
  /\ claim[e] = "none"
  /\ RefsOf({e}) \subseteq disk
  /\ reading' = reading \cup {e}
  /\ UNCHANGED <<row, disk, claim, job, hit, orphans, late>>

\* It commits what it extracted from it, whatever became of the event.
CommitClaim(e, s) ==
  /\ e \in reading
  /\ claim' = [claim EXCEPT ![e] = s]
  /\ reading' = reading \ {e}
  /\ Late(<<"claim", e>>, Closed \cup {"claims"})
  /\ UNCHANGED <<row, disk, job, hit, orphans>>

AbortIngest(e) ==
  /\ e \in reading
  /\ reading' = reading \ {e}
  /\ UNCHANGED <<row, disk, claim, job, hit, orphans, late>>

-----------------------------------------------------------------------------
\* The request selects its events, then its claims.
Pick(j, sel) ==
  /\ Step(j, "idle", [job[j] EXCEPT
       !.pc = "picked", !.sel = sel, !.picks = {e \in EventsOf(sel) : row[e] \in {"live", "redacted"}}])
  /\ UNCHANGED <<row, disk, claim, reading, hit, orphans, late>>

\* A mistake: the references are read after the rows are cleared.
CapturedLate(j) == {}

\* The references the selected events hold before they are cleared.
Captured(j) == RefsOf(job[j].picks \cap Live(j))

Capture(j) ==
  /\ Step(j, "picked", [job[j] EXCEPT
       !.pc = "captured", !.refs = Captured(j),
       !.claims = {e \in ClaimsOf(job[j].sel) : claim[e] # "none"}])
  /\ UNCHANGED <<row, disk, claim, reading, hit, orphans, late>>

\* An UPDATE waits for the rows that another job has written.
RowsAreFree(es, held) == es \cap held = {}

\* What was cleared meanwhile is not cleared again.
Redact(j) ==
  /\ RowsAreFree(job[j].picks, ClearedByOthers(j))
  /\ Step(j, "captured", [job[j] EXCEPT
       !.pc = "redacted", !.cleared = job[j].picks \cap Live(j)])
  /\ UNCHANGED <<row, disk, claim, reading, hit, orphans, late>>

\* A proposed claim may not become revoked: the trigger fails the request,
\* which can then only abort.
Revoke(j) ==
  /\ RowsAreFree(job[j].claims, RevokedByOthers(j))
  /\ \A e \in job[j].claims : claim[e] # "proposed"
  /\ Step(j, "redacted", [job[j] EXCEPT
       !.pc = "revoked", !.revoked = job[j].claims \cap Unrevoked(j)])
  /\ UNCHANGED <<row, disk, claim, reading, hit, orphans, late>>

-----------------------------------------------------------------------------
\* A mistake: an object is deleted with the first reference to it.
NoHolders(j) == {}

\* reclaimBlobs: the events that still hold one of the objects.
Holders(j) == {e \in Live(j) : BlobOf[e] \in job[j].refs}

\* An object held only by rows that another job is clearing is kept, and
\* nobody unlinks it when that job commits.
Count(j) ==
  /\ Step(j, "revoked", [job[j] EXCEPT
       !.pc = "counted", !.kept = RefsOf(Holders(j)), !.seen = {e \in Events : row[e] = "live"}])
  /\ orphans' = orphans \cup
       (RefsOf(Holders(j)) \ RefsOf(Holders(j) \ ClearedByOthers(j)))
  /\ UNCHANGED <<row, disk, claim, reading, hit, late>>

ToUnlink(j) == job[j].refs \ (job[j].kept \cup job[j].deleted \cup job[j].other)

\* FilesystemBlobStore.delete: unlink.
Unlink(j, b) ==
  /\ job[j].at = Inline
  /\ b \in ToUnlink(j)
  /\ Step(j, "counted", [job[j] EXCEPT !.at = b])
  /\ disk' = disk \ {b}
  /\ orphans' = orphans \ {b}
  /\ hit' = hit \cup {e \in Events : /\ BlobOf[e] = b
                                     /\ row[e] \in {"putting", "live"}
                                     /\ e \in job[j].seen => e \in job[j].cleared}
  /\ UNCHANGED <<row, claim, reading, late>>

\* ... and then look whether it is there.
Verify(j) ==
  /\ job[j].at # Inline
  /\ Step(j, "counted", IF job[j].at \in disk
       THEN [job[j] EXCEPT !.other = @ \cup {job[j].at}, !.at = Inline]
       ELSE [job[j] EXCEPT !.deleted = @ \cup {job[j].at}, !.at = Inline])
  /\ UNCHANGED <<row, disk, claim, reading, hit, orphans, late>>

-----------------------------------------------------------------------------
\* A mistake: the scan asks about the rows that were selected.
SurvivorsAmongPicked(j) == job[j].picks \cap Live(j)

\* The residual scan: payloads, then claims, then the disk.
Survivors(j) == EventsScanned(job[j].sel) \cap Live(j)

ScanEvents(j) ==
  /\ job[j].at = Inline /\ ToUnlink(j) = {}
  /\ Step(j, "counted", [job[j] EXCEPT
       !.pc = "scanned", !.residual = Survivors(j) # {}, !.seen = {}])
  /\ UNCHANGED <<row, disk, claim, reading, hit, orphans, late>>

ScanClaims(j) ==
  /\ Step(j, "scanned", [job[j] EXCEPT
       !.pc = "claims", !.residual = @ \/ ClaimsScanned(job[j].sel) \cap Unrevoked(j) # {}])
  /\ UNCHANGED <<row, disk, claim, reading, hit, orphans, late>>

\* An object that outlived its deletion is in other, not in deleted.
Sweep(j) ==
  /\ Step(j, "claims", [job[j] EXCEPT
       !.pc = "swept", !.residual = @ \/ job[j].deleted \cap disk # {}])
  /\ UNCHANGED <<row, disk, claim, reading, hit, orphans, late>>

Finished(j, pc) ==
  [IdleJob EXCEPT !.pc = pc, !.sel = job[j].sel, !.cleared = job[j].cleared,
                  !.residual = job[j].residual]

CommitErasure(j) ==
  /\ Step(j, "swept", Finished(j, "committed"))
  /\ row' = [e \in Events |-> IF e \in job[j].cleared THEN "redacted" ELSE row[e]]
  /\ claim' = [e \in Events |-> IF e \in job[j].revoked THEN "revoked" ELSE claim[e]]
  /\ UNCHANGED <<disk, reading, hit, orphans, late>>

\* The request fails before its commit: the rows are as they were, the disk
\* is not.
AbortErasure(j) ==
  /\ InTx(j)
  /\ job' = [job EXCEPT ![j] = [IdleJob EXCEPT !.pc = "aborted"]]
  /\ UNCHANGED <<row, disk, claim, reading, hit, orphans, late>>

\* recordJob: the manifest is written in a transaction of its own ...
Record(j) ==
  /\ Step(j, "committed", [job[j] EXCEPT !.pc = "recorded"])
  /\ UNCHANGED <<row, disk, claim, reading, hit, orphans, late>>

\* ... or lost: nobody is told what the job found.
LoseRecord(j) ==
  /\ Step(j, "committed", [IdleJob EXCEPT !.pc = "lost"])
  /\ UNCHANGED <<row, disk, claim, reading, hit, orphans, late>>

-----------------------------------------------------------------------------
Append(e) == Put(e) \/ CommitAppend(e) \/ AbortAppend(e)

Ingest(e) ==
  \/ Read(e) \/ AbortIngest(e)
  \/ \E s \in {"proposed", "accepted"} : CommitClaim(e, s)

Scrub(j) ==
  \/ \E sel \in Selectors : Pick(j, sel)
  \/ Capture(j) \/ Redact(j) \/ Revoke(j)

Reclaim(j) == Count(j) \/ Verify(j) \/ \E b \in Blobs : Unlink(j, b)

Prove(j) ==
  \/ ScanEvents(j) \/ ScanClaims(j) \/ Sweep(j) \/ CommitErasure(j) \/ AbortErasure(j)
  \/ Record(j) \/ LoseRecord(j)

Next ==
  \/ \E e \in Events : Append(e) \/ Ingest(e)
  \/ \E j \in Jobs : Scrub(j) \/ Reclaim(j) \/ Prove(j)

Spec == Init /\ [][Next]_vars

-----------------------------------------------------------------------------
\* A job whose manifest says verified.
Verified(j) == job[j].pc = "recorded" /\ ~ job[j].residual

Phases == {"idle", "picked", "captured", "redacted", "revoked", "counted", "scanned",
           "claims", "swept", "committed", "recorded", "lost", "aborted"}

JobRecords ==
  [pc : Phases, sel : Selectors \cup {All}, picks : SUBSET Events, claims : SUBSET Events,
   refs : SUBSET Blobs, seen : SUBSET Events, kept : SUBSET Blobs,
   at : Blobs \cup {Inline}, deleted : SUBSET Blobs, other : SUBSET Blobs,
   cleared : SUBSET Events, revoked : SUBSET Events, residual : BOOLEAN]

\* The ledger, the disk and the jobs are what their tables say, and no two
\* jobs have cleared one event: the second waits for the first and then finds
\* nothing to clear (UPDATE ... WHERE payload IS NOT NULL).
TypeOK ==
  /\ row \in [Events -> {"absent", "putting", "live", "redacted"}]
  /\ disk \subseteq Blobs
  /\ claim \in [Events -> {"none", "proposed", "accepted", "revoked"}]
  /\ reading \subseteq Events
  /\ hit \subseteq Events
  /\ orphans \subseteq Blobs
  /\ late \in [Jobs -> SUBSET ({"event", "claim"} \X Events)]
  /\ job \in [Jobs -> JobRecords]
  /\ \A j, k \in Jobs : j # k => job[j].cleared \cap job[k].cleared = {}

\* An event that can be read has its bytes, however many jobs reclaim objects
\* it shares with others.  The exceptions are exact: its append committed
\* after a job had counted the holders of the object, or the job that cleared
\* it rolled back after the unlink (reclaimBlobs).
BytesOutliveReferences ==
  \A e \in Events \ hit : row[e] = "live" => RefsOf({e}) \subseteq disk

\* Every object on disk is one an event holds: an erasure that ends leaves none
\* behind that it detached.  The exceptions are exact: an append that aborted
\* left it, or a job counted as its holder a row that another job was just
\* clearing (reclaimBlobs).
DetachedBytesAreGone ==
  \A b \in disk \ orphans :
    \E e \in Events : BlobOf[e] = b /\ row[e] \in {"putting", "live"}

\* When a job is verified, whatever it asked to forget and is still there, a
\* payload or a claim, was committed after the job had looked for it
\* (the residual scan of runForget).
VerifiedMissesOnlyLateRows ==
  \A j \in Jobs : Verified(j) =>
    /\ \A e \in EventsOf(job[j].sel) : row[e] = "live" => <<"event", e>> \in late[j]
    /\ \A e \in ClaimsOf(job[j].sel) :
         claim[e] \in {"proposed", "accepted"} => <<"claim", e>> \in late[j]

\* What retention.ts says of an object: it is deleted only when no live row
\* still references those exact bytes.  A row whose clearing is about to commit
\* is not held to it.
LiveBytesSurvive ==
  \A e \in Events \ UNION {ClearedBy(j) : j \in Jobs} :
    row[e] = "live" => RefsOf({e}) \subseteq disk
=============================================================================
