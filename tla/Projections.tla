---------------------------- MODULE Projections ----------------------------
(***************************************************************************)
(* The dense and entity projections of one tenant                          *)
(* (packages/retrieval/src/projections.ts): outbox workers and extract     *)
(* requests index claims, corrections and erasures de-index them           *)
(* (retention.ts), a replay empties and rebuilds the tables (replay.ts and *)
(* the replay route of apps/server/src/routes/admin.ts).                   *)
(*                                                                         *)
(* Every writer is a READ COMMITTED transaction that reads a status,       *)
(* awaits something and writes rows.  A worker's writes take effect when   *)
(* it commits; what a rebuild or a retention transaction has done so far   *)
(* is kept in rebuild and in retire, with the row locks that implies.      *)
(***************************************************************************)
EXTENDS Naturals

CONSTANTS
  Claims,
  Projectors,           \* loops that handle project.claim
  MaxFaults,            \* bound on handlers that fail
  None                  \* no claim; no transaction

ASSUME ProjectionAssumption == MaxFaults \in Nat /\ None \notin Claims

VARIABLES
  status,               \* claims.status
  queue,                \* the project.claim message of a claim
  indexed,              \* claims with committed rows in claim_embeddings
  reading,              \* the claim whose embedding a projector awaits
  rebuild,              \* the replay in progress
  retire,               \* the correction or erasure in progress
  faults,
  believed              \* history: claims that were accepted or disputed

vars == <<status, queue, indexed, reading, rebuild, retire, faults, believed>>

\* A mistake: whatever is not revoked is projected.
IndexableUnlessRevoked(s) == s \notin {"absent", "revoked"}

\* The statuses projectClaim() and rebuildProjections() look for.
Indexable(s) == s \in {"accepted", "disputed"}

IdleRebuild ==
  [phase |-> "idle", truncates |-> FALSE, listed |-> {}, todo |-> {}, at |-> None,
   removed |-> {}, wrote |-> {}, gone |-> {}]

Init ==
  /\ status = [c \in Claims |-> "absent"]
  /\ queue = [c \in Claims |-> "none"]
  /\ indexed = {}
  /\ reading = [p \in Projectors |-> None]
  /\ rebuild = IdleRebuild
  /\ retire = None
  /\ faults = 0
  /\ believed = {}

-----------------------------------------------------------------------------
\* The rows a transaction in progress holds.
HeldByRebuild == rebuild.removed \cup rebuild.wrote
HeldByRetire == IF retire = None THEN {} ELSE retire.targets \ HeldByRebuild

\* A claim's status as its transaction commits it.
SetStatus(to) ==
  /\ status' = [c \in Claims |-> IF c \in DOMAIN to THEN to[c] ELSE status[c]]
  /\ believed' = believed \cup {c \in DOMAIN to : to[c] \in {"accepted", "disputed"}}

\* The ingest commits a claim with its message.  A quarantined claim has one
\* too.  The extract route projects in the same transaction.
Ingested(c, s, projects) ==
  /\ status[c] = "absent"
  /\ SetStatus([d \in {c} |-> s])
  /\ queue' = [queue EXCEPT ![c] = "open"]
  /\ indexed' = IF projects /\ Indexable(s) THEN indexed \cup {c} ELSE indexed
  /\ UNCHANGED <<reading, rebuild, retire, faults>>

\* A reviewer accepts a candidate: no message is enqueued.
Reviewed(c) ==
  /\ status[c] = "absent"
  /\ SetStatus([d \in {c} |-> "accepted"])
  /\ UNCHANGED <<queue, indexed, reading, rebuild, retire, faults>>

\* The gate closes an older claim: the index is not touched.
Superseded(c) ==
  /\ status[c] = "accepted"
  /\ retire # None => c \notin DOMAIN retire.to
  /\ SetStatus([d \in {c} |-> "superseded"])
  /\ UNCHANGED <<queue, indexed, reading, rebuild, retire, faults>>

-----------------------------------------------------------------------------
\* A message that was handled may be handled again: before it is completed,
\* or by a loop whose batch still holds it (module Outbox).
Handled(c) == [queue EXCEPT ![c] = "handled"]

\* projectClaim(), up to the embedding: the claim may be indexed.
Read(p, c) ==
  /\ reading[p] = None
  /\ queue[c] # "none"
  /\ Indexable(status[c])
  /\ reading' = [reading EXCEPT ![p] = c]
  /\ UNCHANGED <<status, queue, indexed, rebuild, retire, faults, believed>>

\* projectClaim() of any other claim removes its rows, and is done.
Deindex(p, c) ==
  /\ reading[p] = None
  /\ queue[c] # "none"
  /\ ~ Indexable(status[c])
  /\ c \in indexed => c \notin HeldByRebuild \cup HeldByRetire
  /\ indexed' = indexed \ {c}
  /\ queue' = Handled(c)
  /\ UNCHANGED <<status, reading, rebuild, retire, faults, believed>>

\* The rows are upserted, as soon as nobody holds them, and committed.
Index(p) ==
  LET c == reading[p] IN
  /\ c # None
  /\ c \notin HeldByRebuild \cup HeldByRetire
  /\ indexed' = indexed \cup {c}
  /\ queue' = Handled(c)
  /\ reading' = [reading EXCEPT ![p] = None]
  /\ UNCHANGED <<status, rebuild, retire, faults, believed>>

\* A mistake: a handler that fails is not tried again.
FailSwallowed(p) ==
  /\ reading[p] # None
  /\ faults < MaxFaults
  /\ faults' = faults + 1
  /\ queue' = Handled(reading[p])
  /\ reading' = [reading EXCEPT ![p] = None]
  /\ UNCHANGED <<status, indexed, rebuild, retire, believed>>

\* The embedding backend raises, the process dies, a deadlock is broken.
Fail(p) ==
  /\ reading[p] # None
  /\ faults < MaxFaults
  /\ faults' = faults + 1
  /\ reading' = [reading EXCEPT ![p] = None]
  /\ UNCHANGED <<status, queue, indexed, rebuild, retire, believed>>

-----------------------------------------------------------------------------
\* A replay is one transaction of one pass that empties the tables or not, or
\* of a pass that does not and one that does.  A pass lists the claims to
\* index, empties the tables, and projects claim after claim.
RebuildList(truncates) ==
  LET listed == {c \in Claims : Indexable(status[c])} IN
  /\ \/ rebuild.phase = "idle"
     \/ /\ rebuild.phase = "loop" /\ rebuild.todo = {} /\ rebuild.at = None
        /\ truncates /\ ~ rebuild.truncates
  /\ rebuild' =
       [rebuild EXCEPT
          !.phase = IF truncates THEN "listed" ELSE "loop",
          !.truncates = truncates, !.listed = listed, !.todo = listed,
          !.gone = {c \in Claims : /\ status[c] \in {"superseded", "revoked"}
                                   /\ \A p \in Projectors : reading[p] # c}]
  /\ UNCHANGED <<status, queue, indexed, reading, retire, faults, believed>>

\* A mistake: only the rows of the claims listed are deleted.
RebuildTruncateListed ==
  /\ rebuild.phase = "listed"
  /\ HeldByRetire = {}
  /\ rebuild' = [rebuild EXCEPT !.phase = "loop", !.wrote = {},
                                !.removed = @ \cup (indexed \cap rebuild.listed)]
  /\ UNCHANGED <<status, queue, indexed, reading, retire, faults, believed>>

\* All rows it sees, others' committed and its own, are deleted.
RebuildTruncate ==
  /\ rebuild.phase = "listed"
  /\ HeldByRetire = {}
  /\ rebuild' = [rebuild EXCEPT !.phase = "loop", !.removed = @ \cup indexed, !.wrote = {}]
  /\ UNCHANGED <<status, queue, indexed, reading, retire, faults, believed>>

InLoop == rebuild.phase = "loop" /\ rebuild.at = None

\* projectClaim() for a listed claim reads its status again.
RebuildRead(c) ==
  /\ InLoop
  /\ c \in rebuild.todo
  /\ Indexable(status[c])
  /\ rebuild' = [rebuild EXCEPT !.at = c, !.todo = @ \ {c}]
  /\ UNCHANGED <<status, queue, indexed, reading, retire, faults, believed>>

\* A claim that was retired since it was listed is de-indexed.
RebuildSkip(c) ==
  /\ InLoop
  /\ c \in rebuild.todo
  /\ ~ Indexable(status[c])
  /\ c \notin HeldByRetire
  /\ rebuild' = [rebuild EXCEPT !.todo = @ \ {c}, !.wrote = @ \ {c},
                                !.removed = @ \cup (indexed \cap {c})]
  /\ UNCHANGED <<status, queue, indexed, reading, retire, faults, believed>>

RebuildWrite ==
  /\ rebuild.at # None
  /\ rebuild.at \notin HeldByRetire
  /\ rebuild' = [rebuild EXCEPT !.at = None, !.wrote = @ \cup {rebuild.at}]
  /\ UNCHANGED <<status, queue, indexed, reading, retire, faults, believed>>

\* A deletion that waited for a row the rebuild replaced deletes nothing.
RebuildCommit ==
  /\ InLoop
  /\ rebuild.todo = {}
  /\ indexed' = (indexed \ rebuild.removed) \cup rebuild.wrote
  /\ retire' = IF retire = None THEN None
               ELSE [retire EXCEPT !.targets = @ \ rebuild.removed]
  /\ rebuild' = IdleRebuild
  /\ UNCHANGED <<status, queue, reading, faults, believed>>

\* A mistake: the tables are emptied in a transaction of its own.
RebuildAbortEmptied ==
  /\ rebuild.phase # "idle"
  /\ rebuild' = IdleRebuild
  /\ indexed' = indexed \ rebuild.removed
  /\ UNCHANGED <<status, queue, reading, retire, faults, believed>>

\* A statement fails, the client is lost, a deadlock is broken.
RebuildAbort ==
  /\ rebuild.phase # "idle"
  /\ rebuild' = IdleRebuild
  /\ UNCHANGED <<status, queue, indexed, reading, retire, faults, believed>>

-----------------------------------------------------------------------------
\* A retention transaction decides what becomes of claims and deletes the
\* rows it sees of those whose evidence it touches; the deletion waits for
\* a rebuild that holds one of them.
Retire(to, touched, erases) ==
  /\ retire = None
  /\ retire' = [to |-> to, erases |-> erases, targets |-> touched \cap indexed]
  /\ UNCHANGED <<status, queue, indexed, reading, rebuild, faults, believed>>

\* correctClaim(): the update matches an open claim, the deletion any.
Correct(c) ==
  /\ status[c] # "absent"
  /\ IF status[c] \in {"proposed", "accepted"}
     THEN \E s \in {"superseded", "disputed"} : Retire([d \in {c} |-> s], {c}, FALSE)
     ELSE Retire([d \in {} |-> status[d]], {c}, FALSE)

\* forget(): the claims selected are revoked, or the job fails on one that
\* cannot be; the rows of the claims that rest on erased events are deleted.
Forget(selected, rested) ==
  /\ selected \cup rested # {}
  /\ \A c \in selected : status[c] \notin {"absent", "proposed"}
  /\ \A c \in rested : status[c] # "absent"
  /\ Retire([c \in selected |-> "revoked"], rested, TRUE)

RetireCommit ==
  /\ retire # None
  /\ retire.targets \cap HeldByRebuild = {}
  /\ SetStatus(retire.to)
  /\ indexed' = indexed \ retire.targets
  /\ retire' = None
  /\ UNCHANGED <<queue, reading, rebuild, faults>>

RetireAbort ==
  /\ retire # None
  /\ retire' = None
  /\ UNCHANGED <<status, queue, indexed, reading, rebuild, faults, believed>>

-----------------------------------------------------------------------------
Store == \E c \in Claims :
  \/ \E s \in {"proposed", "accepted"}, projects \in BOOLEAN : Ingested(c, s, projects)
  \/ Reviewed(c) \/ Superseded(c)

Work == \E p \in Projectors :
  \/ \E c \in Claims : Read(p, c) \/ Deindex(p, c)
  \/ Index(p) \/ Fail(p)

Rebuild ==
  \/ \E truncates \in BOOLEAN : RebuildList(truncates)
  \/ RebuildTruncate
  \/ \E c \in Claims : RebuildRead(c) \/ RebuildSkip(c)
  \/ RebuildWrite \/ RebuildCommit \/ RebuildAbort

Retention ==
  \/ \E c \in Claims : Correct(c)
  \/ \E selected, rested \in SUBSET Claims : Forget(selected, rested)
  \/ RetireCommit \/ RetireAbort

Next == Store \/ Work \/ Rebuild \/ Retention

\* The loops poll as long as a message is open, and come to each of them; a
\* statement that waits for a row gets it when the holder ends, however often
\* others come and go; the transactions of a replay and of retention end.
Fairness ==
  /\ \A p \in Projectors :
       /\ SF_vars(Index(p))
       /\ \A c \in Claims : SF_vars(queue[c] = "open" /\ (Read(p, c) \/ Deindex(p, c)))
  /\ WF_vars(\/ RebuildTruncate \/ RebuildWrite \/ RebuildCommit \/ RebuildAbort
             \/ \E c \in Claims : RebuildRead(c) \/ RebuildSkip(c))
  /\ WF_vars(RetireCommit \/ RetireAbort)

Spec == Init /\ [][Next]_vars

FairSpec == Spec /\ Fairness

-----------------------------------------------------------------------------
Statuses == {"absent", "proposed", "accepted", "disputed", "superseded", "revoked"}

Replays ==
  [phase : {"idle", "listed", "loop"}, truncates : BOOLEAN,
   listed : SUBSET Claims, todo : SUBSET Claims, at : Claims \cup {None},
   removed : SUBSET Claims, wrote : SUBSET Claims, gone : SUBSET Claims]

Retirements ==
  [to : UNION {[changed -> Statuses] : changed \in SUBSET Claims},
   erases : BOOLEAN, targets : SUBSET Claims]

\* Statuses, messages and transactions have the shape of their tables and
\* loops, and a rebuild handles what it listed, each claim once.
TypeOK ==
  /\ status \in [Claims -> Statuses]
  /\ queue \in [Claims -> {"none", "open", "handled"}]
  /\ indexed \subseteq Claims /\ believed \subseteq Claims
  /\ reading \in [Projectors -> Claims \cup {None}]
  /\ rebuild \in Replays
  /\ rebuild.todo \subseteq rebuild.listed
  /\ rebuild.at \in (rebuild.listed \ rebuild.todo) \cup {None}
  /\ retire \in Retirements \cup {None}
  /\ faults \in 0 .. MaxFaults

\* "A quarantined or proposed claim is not indexed and then filtered at query
\* time - it is never indexed at all" (projections.ts 13): whatever is in the
\* index, or is about to be written to it, was believed.
IndexedWasBelieved ==
  indexed \cup rebuild.wrote \cup {rebuild.at} \cup {reading[p] : p \in Projectors}
    \subseteq believed \cup {None}

\* A claim that stays accepted stays indexed, through redeliveries, rebuilds
\* that fail and retirements of other claims.  It leaves the index if its
\* evidence is erased, or when a rebuild that did not list it commits.
AcceptedStaysIndexed ==
  [][\A c \in indexed \ indexed' :
       status'[c] = "accepted" =>
         \/ RebuildCommit /\ c \notin rebuild.listed
         \/ RetireCommit /\ retire.erases /\ c \in retire.targets]_vars

\* A replay heals the index: when one that empties the tables has committed,
\* no claim is indexed that was retired, and in nobody's hands, when it began.
RebuildClears ==
  [][RebuildCommit /\ rebuild.truncates => indexed' \cap rebuild.gone = {}]_vars

\* A claim the ingest announces becomes indexed, unless it stops being
\* believed, whatever rebuilds and retirements do meanwhile.
AnnouncedBecomesIndexed ==
  \A c \in Claims :
    queue[c] = "open" ~> c \in indexed \/ ~ Indexable(status[c])
=============================================================================
