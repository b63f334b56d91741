---------------------------- MODULE CorpusLoad ----------------------------
(***************************************************************************)
(* The resumable bulk loader of the performance harness                    *)
(* (packages/perf/src/load.ts).  A load copies a corpus of numbered claims *)
(* into eight tables, one phase per table, one transaction per batch, and  *)
(* saves a checkpoint file after each commit.  Loads are killed, repeated  *)
(* with other counts and index strategies, and checkpoints get lost.       *)
(*                                                                         *)
(* A row is the number of its claim and what it says.  The keys derive     *)
(* from the tenant and the number, not from the corpus, and every insert   *)
(* ends in ON CONFLICT DO NOTHING: the first corpus to load a claim keeps  *)
(* its row, and a load of another one over it succeeds without writing.    *)
(***************************************************************************)
EXTENDS Naturals, Sequences

CONSTANTS
  MaxClaims,            \* bound on the claims a load may ask for
  Sizes,                \* the counts the operator asks for
  Corpora,              \* seed, anchor and embedding model, all told apart
  Edges,                \* the claims that contradict the one before them
  Window,               \* GENERATION_WINDOW: claims per batch, at least 4000
  MaxChanges,           \* bound on changes of the options between loads
  MaxFaults,            \* bound on kills, database errors and lost files
  None                  \* no checkpoint, no content, no model recorded

\* A batch of one claim could not be told from a complete phase: both are 1.
ASSUME LoadAssumption ==
  /\ MaxClaims \in Nat /\ Sizes \subseteq 1 .. MaxClaims /\ Sizes # {}
  /\ Edges \subseteq Nat \ {0} /\ Corpora # {}
  /\ Window \in Nat \ {0, 1} /\ MaxChanges \in Nat /\ MaxFaults \in Nat

VARIABLES
  rows,                 \* the committed rows of each table
  recorded,             \* projection_versions: the corpus whose model it names
  hnsw,                 \* claim_embeddings_hnsw_idx exists
  file,                 \* load-state.json
  older,                \* the checkpoint the file replaced
  want,                 \* the options of the next load
  load,                 \* the load in progress, or how the last one ended
  changes, faults

vars == <<rows, recorded, hnsw, file, older, want, load, changes, faults>>

\* A mistake: evidence is loaded before the claims it belongs to.
EvidenceFirst == <<"events", "spans", "claim_evidence", "claims",
                   "embeddings", "relations", "aliases", "claim_entities">>

LOAD_PHASES == <<"events", "spans", "claims", "claim_evidence",
                 "embeddings", "relations", "aliases", "claim_entities">>

Phases == {LOAD_PHASES[i] : i \in DOMAIN LOAD_PHASES}

\* The foreign keys of a row: the tables that must hold the same claim's row.
References(p) ==
  CASE p = "spans" -> {"events"}
    [] p = "claims" -> {"events"}
    [] p = "claim_evidence" -> {"claims", "spans"}
    [] p \in {"embeddings", "relations", "claim_entities"} -> {"claims"}
    [] OTHER -> {}

\* The claims of from .. upto - 1 that contribute to a phase.
Claims(p, from, upto) ==
  {i \in 0 .. MaxClaims - 1 : from <= i /\ i < upto /\ (p = "relations" => i \in Edges)}

\* What a row says beside its key.  Evidence and relations are keys only.
Content(p, corpus) == IF p \in {"claim_evidence", "relations"} THEN None ELSE corpus

\* Names are part of the key: each corpus has rows of its own.
KeyedByContent == {"aliases", "claim_entities"}

\* The claims that have a row.
Held(p) == {row[1] : row \in rows[p]}

\* ON CONFLICT DO NOTHING: what is inserted of the rows of some claims.
Inserted(p, claims, corpus) ==
  {i \in claims : p \in KeyedByContent \/ i \notin Held(p)} \X {Content(p, corpus)}

\* Every foreign key of the rows is satisfied; a relation points one claim back.
Satisfied(p, claims) ==
  /\ \A q \in References(p) : claims \subseteq Held(q)
  /\ p = "relations" => \A i \in claims : i - 1 \in Held("claims")

\* LoadCheckpoint: 1 is a complete phase, any other number the next claim.
\* early is history: the phases completed when fewer claims were requested.
Fresh(options) ==
  [corpus |-> options.corpus, requested |-> options.size,
   phases |-> [p \in Phases |-> 0], early |-> {}]

\* A mistake: the checkpoint of another corpus is resumed.
ResumableByCount(options) == file # None /\ file.requested <= options.size

Resumable(options) ==
  /\ file # None
  /\ file.corpus = options.corpus
  /\ file.requested <= options.size

Resumed(options) ==
  [file EXCEPT !.requested = options.size,
               !.early = IF file.requested < options.size
                           THEN @ \cup {p \in Phases : file.phases[p] = 1} ELSE @]

Idle == [pc |-> "idle"]

Init ==
  /\ rows = [p \in Phases |-> {}]
  /\ recorded = None
  /\ hnsw = TRUE
  /\ file = None
  /\ older = None
  /\ want \in [size : Sizes, corpus : Corpora, strategy : {"maintain", "defer"}]
  /\ load = Idle
  /\ changes = 0
  /\ faults = 0

Running == load.pc \in {"phase", "batch", "committed", "verify", "recorded"}

\* The loader runs with other options: another count, corpus or strategy.
Change ==
  /\ ~Running
  /\ changes < MaxChanges
  /\ \E options \in [size : Sizes, corpus : Corpora, strategy : {"maintain", "defer"}] :
       want' = options
  /\ load' = Idle
  /\ changes' = changes + 1
  /\ UNCHANGED <<rows, recorded, hnsw, file, older, faults>>

-----------------------------------------------------------------------------
\* loadCorpus() reads the checkpoint and resumes it, or starts over.
Begin ==
  /\ load.pc \in {"idle", "failed", "refused"}
  /\ load' = [pc |-> "phase", number |-> 1, options |-> want,
              state |-> IF Resumable(want) THEN Resumed(want) ELSE Fresh(want)]
  /\ UNCHANGED <<rows, recorded, hnsw, file, older, want, changes, faults>>

Phase == LOAD_PHASES[load.number]
\* A mistake: the index is dropped and built only by a load that writes embeddings.
DeferredIfPending ==
  /\ load.options.strategy = "defer" /\ Phase = "embeddings"
  /\ load.state.phases[Phase] # 1

Deferred == load.options.strategy = "defer" /\ Phase = "embeddings"

\* A deferred load drops the index before the embeddings, finished or not.
Enter ==
  /\ load.pc = "phase"
  /\ hnsw' = IF Deferred THEN FALSE ELSE hnsw
  /\ load' = [load EXCEPT !.pc = "batch"]
  /\ UNCHANGED <<rows, recorded, file, older, want, changes, faults>>

\* resumeIndex(): nothing is left of a complete phase.
Pending(state, p, total) == state.phases[p] # 1 /\ state.phases[p] < total

\* runPhase(): the end of the batch that starts at index.
BatchEnd(index, total) == IF index + Window < total THEN index + Window ELSE total

\* A mistake: the last batch but one is taken for the last.
MarkedEarly(state, p, index, total) ==
  [state EXCEPT !.phases[p] = IF index + Window >= total THEN 1 ELSE index]

\* A mistake: the end of the corpus itself is not recognised as complete.
MarkedPast(state, p, index, total) ==
  [state EXCEPT !.phases[p] = IF index > total THEN 1 ELSE index + 1]

\* markPhase()
Marked(state, p, index, total) ==
  [state EXCEPT !.phases[p] = IF index >= total THEN 1 ELSE index]

Batch ==
  LET from == load.state.phases[Phase]
  IN  Claims(Phase, from, BatchEnd(from, load.options.size))

\* A batch is inserted, as far as its keys are free, and committed.
Commit ==
  /\ load.pc = "batch"
  /\ Pending(load.state, Phase, load.options.size)
  /\ Satisfied(Phase, Batch)
  /\ rows' = [rows EXCEPT ![Phase] = @ \cup Inserted(Phase, Batch, load.options.corpus)]
  /\ load' = [load EXCEPT !.pc = "committed"]
  /\ UNCHANGED <<recorded, hnsw, file, older, want, changes, faults>>

\* A foreign key is missing: the batch is rolled back and the load throws.
Reject ==
  /\ load.pc = "batch"
  /\ Pending(load.state, Phase, load.options.size)
  /\ ~Satisfied(Phase, Batch)
  /\ load' = [pc |-> "failed"]
  /\ UNCHANGED <<rows, recorded, hnsw, file, older, want, changes, faults>>

\* The checkpoint is written beside the file and renamed over it.
Checkpoint ==
  /\ load.pc = "committed"
  /\ LET total == load.options.size
         next == Marked(load.state, Phase, BatchEnd(load.state.phases[Phase], total), total)
     IN  /\ load' = [load EXCEPT !.pc = "batch", !.state = next]
         /\ file' = next
  /\ older' = file
  /\ UNCHANGED <<rows, recorded, hnsw, want, changes, faults>>

\* The next phase, or the counts after the last one.
Following ==
  IF load.number < Len(LOAD_PHASES)
    THEN [load EXCEPT !.pc = "phase", !.number = @ + 1]
    ELSE [load EXCEPT !.pc = "verify"]

\* The phase has no batch left; a deferred load builds the index again.
Leave ==
  /\ load.pc = "batch"
  /\ ~Pending(load.state, Phase, load.options.size)
  /\ hnsw' = IF Deferred THEN TRUE ELSE hnsw
  /\ load' = Following
  /\ UNCHANGED <<rows, recorded, file, older, want, changes, faults>>

\* readCounts(): a table without a row of any corpus fails the load.
Refuse ==
  /\ load.pc = "verify"
  /\ \E p \in Phases : rows[p] = {}
  /\ load' = [pc |-> "refused"]
  /\ UNCHANGED <<rows, recorded, hnsw, file, older, want, changes, faults>>

\* Otherwise the model of the load is recorded as the one of the vectors.
Verify ==
  /\ load.pc = "verify"
  /\ \A p \in Phases : rows[p] # {}
  /\ recorded' = load.options.corpus
  /\ load' = [load EXCEPT !.pc = "recorded"]
  /\ UNCHANGED <<rows, hnsw, file, older, want, changes, faults>>

\* The tables are counted once more, for the result.
Report ==
  /\ load.pc = "recorded"
  /\ load' = [load EXCEPT !.pc = "loaded"]
  /\ UNCHANGED <<rows, recorded, hnsw, file, older, want, changes, faults>>

-----------------------------------------------------------------------------
\* The loader is killed, or a statement or the checkpoint's write fails.
Crash ==
  /\ Running
  /\ faults < MaxFaults
  /\ load' = [pc |-> "failed"]
  /\ faults' = faults + 1
  /\ UNCHANGED <<rows, recorded, hnsw, file, older, want, changes>>

\* The checkpoint is lost, or an earlier one is put back.
Misplace ==
  /\ faults < MaxFaults
  /\ file' \in {None, older}
  /\ faults' = faults + 1
  /\ UNCHANGED <<rows, recorded, hnsw, older, want, load, changes>>

Next ==
  \/ Change \/ Begin \/ Enter \/ Commit \/ Reject \/ Checkpoint \/ Leave
  \/ Refuse \/ Verify \/ Report \/ Crash \/ Misplace

Spec == Init /\ [][Next]_vars

\* The operator repeats a load until it succeeds, and a running load goes on.
Fairness ==
  WF_vars(\/ Begin \/ Enter \/ Commit \/ Reject \/ Checkpoint \/ Leave
          \/ Refuse \/ Verify \/ Report)

FairSpec == Spec /\ Fairness

-----------------------------------------------------------------------------
Checkpoints ==
  [corpus : Corpora, requested : Sizes, phases : [Phases -> 0 .. MaxClaims],
   early : SUBSET Phases]

Options == [size : Sizes, corpus : Corpora, strategy : {"maintain", "defer"}]

Loads ==
  [pc : {"phase", "batch", "committed", "verify", "recorded", "loaded"},
   number : DOMAIN LOAD_PHASES, options : Options, state : Checkpoints]
    \cup [pc : {"idle", "failed", "refused"}]

\* Every variable keeps to its type: a checkpoint never points past the bound.
TypeOK ==
  /\ rows \in [Phases -> SUBSET ((0 .. MaxClaims - 1) \X (Corpora \cup {None}))]
  /\ \A p \in Phases : \A row \in rows[p] : \E c \in Corpora : row[2] = Content(p, c)
  /\ recorded \in Corpora \cup {None}
  /\ hnsw \in BOOLEAN
  /\ file \in Checkpoints \cup {None} /\ older \in Checkpoints \cup {None}
  /\ want \in Options
  /\ load \in Loads
  /\ changes \in 0 .. MaxChanges /\ faults \in 0 .. MaxFaults

\* Whatever is killed, repeated, lost or put back, no table ever has a gap:
\* the claims it holds are the first ones.  A checkpoint ahead of the commit
\* it stands for would leave one behind that no later load fills
\* (load.ts: "A lost or stale checkpoint costs time, never correctness").
TablesHaveNoGaps ==
  \A p \in Phases : \E n \in 0 .. MaxClaims : Held(p) = Claims(p, 0, n)

\* The row a corpus has for a claim, and a row that keeps it out.
Written(p, corpus, i) == <<i, Content(p, corpus)>> \in rows[p]

Taken(p, corpus, i) ==
  p \notin KeyedByContent /\ \E c \in Corpora \ {corpus} : <<i, c>> \in rows[p]

\* A load that reports success has put every requested claim of its corpus
\* into every table, and its model is the one that is recorded.  Two
\* exceptions are the code's: the phases that were complete when fewer claims
\* were requested, which runPhase() skips although loadCorpus() promises "the
\* missing tail"; and the events, spans, claims and vectors of the claims that
\* another corpus had loaded into the tenant before, which stay as they were.
SuccessMeansWhole ==
  load.pc = "loaded" =>
    LET corpus == load.options.corpus
    IN  /\ recorded = corpus
        /\ \A p \in Phases \ load.state.early : \A i \in Claims(p, 0, load.options.size) :
             Written(p, corpus, i) \/ Taken(p, corpus, i)

\* A deferred load that reports success leaves the vector index behind, also
\* when an earlier one was killed between dropping and building it.  (A load
\* that maintains the index does not notice that it is missing.)
DeferredIndexReturns ==
  load.pc = "loaded" /\ load.options.strategy = "defer" => hnsw

\* A phase that was complete for fewer claims than the next load asks for.
Outgrown ==
  /\ Resumable(want)
  /\ \/ file.early # {}
     \/ file.requested < want.size /\ \E p \in Phases : file.phases[p] = 1

\* Repeated after every failure, a load in the end succeeds - unless it asks
\* for more than a phase was complete for, when its rows miss the tail they
\* refer to at every attempt, or the corpus is too small to contain a
\* contradiction and readCounts() refuses it.
LoadsFinish ==
  []<>(\/ load.pc = "loaded"
       \/ Edges \cap (0 .. want.size - 1) = {}
       \/ Outgrown)

=============================================================================
