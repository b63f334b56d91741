# Verification of verity-mem

verity-mem is a memory layer for agents on TypeScript and PostgreSQL. Evidence is
appended to a ledger, an outbox hands it to workers, extractors propose claims, a
commit gate decides which of them become beliefs, projections index the beliefs, and
retrieval answers queries under a policy. What is hard in it is mostly not in one
function: it is what concurrent READ COMMITTED transactions, row-level security,
triggers and an at-least-once queue do to each other. That is what this directory
models, checks with TLC and proves with TLAPS.

Paths below are relative to `src/`. `PROJECT.json` maps every definition that models
code to the lines it stands for.

## 1. The system

| Part | State it keeps | Operations | Hard behaviour | Modelled in |
| --- | --- | --- | --- | --- |
| Ledger (`packages/ledger/src/ledger.ts`) | `streams.last_seq`, `events` with the hash chain, an `extract.event` message per event | `append`, `findByIdempotencyKey`, `verifyChain`, hydration of content and spans | two appends to one stream, retries of an append that has not committed, lookups under row-level security | `Ledger` (append, verifyChain), `EventLog` |
| Outbox (`packages/ledger/src/outbox.ts`, `migrations/0011`, `0012`) | `outbox`: attempts, `available_at`, `locked_by`, `completed_at` | claim, handle, complete, fail, lag | nothing leases a row: overlapping claims, crashes between any two statements, poison messages | `Outbox`, `Delivery` |
| Worker (`apps/worker/src`) | the loop in progress | polling loop, `--once` drain, shutdown | the two loops of one process run together | `Outbox` (loops), shutdown not modelled |
| Database contexts (`packages/ledger/src/db.ts`, `migrations/0014`) | the request context of a transaction: tenant, scopes held, closure of scopes reached; a pool of connections | `withRequest`, `systemQuery`, `set_request_context` | the closure is computed once and goes stale inside the transaction; a request that holds a connection asks for another | `ScopeCatalog`, `Retrieval` (reach and pool), the transactions of `Ledger` and `CommitGate` |
| Scopes (`migrations/0005`, `0007`, `resolveRequestedScope` in `packages/model-adapters/src/pipeline.ts`) | `scopes` | `ensure_scope`, containment, reach, resolution of what an extractor asks for | the gate and the database have different rules about the same rows | `ScopePolicy`, `ScopeCatalog` |
| Extraction pipeline (`pipeline.ts`) | `claim_candidates` | `ingest`, `persistCandidate` | redelivery, two ingests of one event | `CommitGate` |
| Commit gate (`packages/gate/src/commit-gate.ts`) | `claims`, `gate_decisions`, `relations` | `evaluate`, `findConflicts`, `insertClaim` | search and write are separate statements; triggers refuse updates | `CommitGate`, `BeliefStore` |
| Claim guards (`migrations/0002`, `0010`) | - | `valid_claim_transition`, `guard_claim_mutation`, CHECKs | a refused update rolls the whole ingest back | `CommitGate` |
| Review and reverification (`apps/server/src/routes/candidates.ts`, `claims.ts`) | the same tables | decide a candidate, reverify a claim | decides without looking at the state of the candidate | `CommitGate` |
| Retention (`packages/retrieval/src/retention.ts`) | redacted events, revoked claims, blobs, `retention_jobs` | `forget`, `correctClaim`, `reclaimBlobs`, `recordJob` | partial failure of a large transaction, files deleted before the commit, two jobs over the same bytes, a residual scan with its own filter | `Erasure`; `CommitGate` (status of claims), `Projections` (de-indexing) |
| Projections, replay (`packages/retrieval/src/projections.ts`, `replay.ts`) | embeddings, entity edges, projection versions | project, de-index, rebuild | the status is read, an embedding is awaited, the row is written; a rebuild empties the tables in between | `Projections` |
| Claims (`packages/claims/src/index.ts`) | reads of `claims` | history, `as of` queries, `readRelations`, `evaluateUse` | the status of a claim and of what contradicts it are read by different statements | `UsePolicy` (`evaluateUse`), `Retrieval` (the reads) |
| Retrieval (`packages/retrieval/src/compose.ts`, `channels.ts`, `planner.ts`, `action-gate.ts`, `apps/server/src/routes/queries.ts`, `actions.ts`) | packets, `query_traces` | plan, search in two lanes, compose, authorise an action, record the check | a request is several transactions of several statements, and claims are retired, contradicted and erased between any two of them | `Retrieval` |
| Blob store (`packages/ledger/src/blobs.ts`) | content-addressed files | put, get, delete, sweep | put of a hash that is being deleted | `Erasure` (`disk`) |
| HTTP server, identity (`apps/server/src`) | - | routes over the operations above | - | `Agent` (event routes), `Retrieval` (query and action routes); identity and validation are not |
| Extractors and entailment (`packages/model-adapters`, `packages/gate/src/entailment.ts`) | - | text matching, model calls, numeric scores | - | no: a nondeterministic input of `CommitGate` |
| Clients: SDK, MCP server, LangGraph adapter (`packages/sdk-ts`, `mcp-server`, `langgraph-js`) | idempotency keys, the events a run has recorded | record an event, `put`, `batch`, `afterTool`, `afterRun`, `beforeAction` | an answer that never comes, a request that arrives after it was given up, a node that is run again | `Agent` (writing), `Retrieval` (asking and acting) |
| Corpus loader (`packages/perf/src/load.ts`) | eight tables, a vector index, `load-state.json` | load in phases and batches, resume, defer the index | killed between a commit and its checkpoint, a lost checkpoint, other options the next time | `CorpusLoad` |
| Contracts and policy (`packages/contracts`) | - | enumerations, tables of the default policy, schemas | - | `UsePolicy` (the tables); schemas are not |
| LedgerBench, evaluations, demo, deployment | - | measurement, demonstration, configuration | - | no |

How they interact: `append` writes the event and its `extract.event` row in one
transaction; a worker claims the row on a connection of its own, runs the handler in a
transaction of its own, and completes the row on a third; the handler is an ingest, which
persists candidates and lets the gate decide each of them; the gate enqueues projection
messages in the same outbox; retrieval reads claims and projections under row-level
security. Nothing but the database connects the parts.

What makes each part correct is listed with its runs in section 3, and what can go wrong
in each, line by line, under `hazards` in `PROJECT.json`.

## 2. The modules

**`Delivery`** is what the outbox promises a producer: a message is absent, pending or
retired; handlers take effect any number of times; it is retired only after an effect, and
for good.

**`Outbox`** models the table (`outbox`), the loops of the workers (`pc`, `batch`,
`current`, `mode`) and the transactions the handlers commit (`effects`). Every statement
commits by itself, so each is an action: `ClaimBegin`/`ClaimCommit` (two steps, because
`SKIP LOCKED` excludes a second claim only while the first runs), `HandlerCommits` or
`HandlerRaises`, `Complete` or `CompleteRaises`, `Fail` or `FailRaises`, and `Crash` and
`Restart` between any two. `available_at` is the boolean `due`, which a failure clears and
`BackoffExpires` sets. `outbox_claim` does not read `locked_by`, and neither does
`Claimable`: the column is recorded and never consulted.

**`Ledger`** models `append` statement by statement under READ COMMITTED: the lookup of
the idempotency key under row-level security, the upsert of the stream row that allocates
the sequence and takes its lock, the read of the predecessor, the insert that waits for
another transaction with the same key, the second lookup of the loser, and the commit of
event and outbox row. A content hash stands for its content. `VerifyChain` is the loop of
`verifyChain` as an operator over the rows of a stream.

**`EventLog`** is what the ledger promises its callers: an append happens at one instant, with
the next number of its stream, its link and its announcement, and a repeated key is told of
the event that has it. `Ledger` implements it with the same variables; what is left out is
everything a transaction holds before it commits. `Agent` takes the append of a request as
one step, which is what this promise allows.

**`ScopePolicy`** holds the rules as operators: `Contained` (the gate), `Covers` and
`Reaches` (row-level security), `ResolveRequested` (what becomes of the scope an extractor
asks for). **`ScopeCatalog`** puts them in motion: appends create scopes while extractions
hold a closure that was computed when their context was bound. `known`, in a transaction's
record, is history: the scopes there were at that moment.

**`CommitGate`** extends `ScopePolicy` and models the claims of one subject and predicate.
An ingest is a transaction of steps (`Deliver`, `Evaluate`, then `Reject`, `Write` or
`Refuse` for each candidate, `CommitTx`, `Abort`), whose uncommitted rows only it sees.
`Evaluate` searches for conflicts; `Write` inserts the claim and closes what it supersedes,
so that other transactions commit in between. `Objection` is the trigger that refuses an
update. `Review`, `Reverify`, `Revoke` and `Correct` are what else writes claims; each is
one step. The checks of evidence, entailment and authority are one nondeterministic
`grade` per evaluation. `View` is what a transaction sees, its own rows `Over` the committed
ones.

**`BeliefStore`** is what the claim store promises its readers: all that extraction makes of
an event appears at one instant, open claims with one decision each, and with them the end
of exactly those accepted claims that they replace, as these stood at that instant; whoever
else closes a claim changes its status and its end only, once, and leaves a decision.
`CommitGate` implements it.

**`Projections`** models the index of one tenant: the claims' statuses, their
`project.claim` messages and the committed rows (`indexed`; embeddings and entity edges are
written and deleted together, so they are one set). A projector reads a status (`Read`),
awaits the embedding (`reading`) and upserts (`Index`), or de-indexes. A rebuild is one
transaction (`rebuild`): `RebuildList`, `RebuildTruncate`, then `RebuildRead` and
`RebuildWrite` or `RebuildSkip` for each claim, `RebuildCommit` or `RebuildAbort`; its
deletions and writes are locks until then. A retention transaction (`retire`) has chosen
what becomes of claims and deleted the rows it saw. A deletion that waited for a row the
rebuild replaced deletes nothing, which is READ COMMITTED and is in `RebuildCommit`.

**`Erasure`** models `forget` statement by statement: `Pick` and `Capture` select events,
claims and references, `Redact` and `Revoke` write rows that others see at `CommitErasure`,
`Count` looks for events that still hold an object, `Unlink` and `Verify` are the two system
calls of `delete`, `ScanEvents`, `ScanClaims` and `Sweep` are the residual scan, `Record` is
the transaction that writes the manifest. Appends are `Put` (the object, before the row) and
a commit or an abort; ingests read the content of an event and later commit the claim. What
is uncommitted is kept in the job (`cleared`, `revoked`), what is on disk is on disk. A claim
is taken to be in the scope of its event; of the six fields of a request the model has
project (for project, agent and session, which the code treats alike), user and actor.

**`Agent`** models what a graph's nodes write through a client: each run of a node
(`afterRun`, a `batch`, an `add`) sends its events one by one (`Begin`, `Send`, `Serve`,
`Receive`), with a key where the code has one and with the time where the content has it.
The key of a keyed write is its payload; the content that the ledger compares is payload and
stamp. A request may be given up (`GiveUp`), and then reaches the server later or never
(`ArriveLate`), while the run is started again. `Failed` is what differs between the kinds
of run: `afterRun` throws and what comes after is not sent, `batch` goes on with the other
operations and reports how many failed.

**`UsePolicy`** holds `evaluateUse` and the rules of the action gate as operators over what
they look at. **`Retrieval`** extends it and puts them in motion: every agent has at most one
request, a query or an action check, that goes through the transactions of `compose` or
`evaluateAction`, with one action for each statement that reads what others write (`Plan`,
`Retrieve` for each lane, `ReadClaims`, `ReadRelations`, `ReadEvidence`, `Probe`, `Trace`,
`Record`), each of which needs a connection of the pool or the one the request holds.
Meanwhile claims change status, are contradicted, expire and lose their evidence, and grants
are withdrawn (`Happen`). `gone`, `hidden` and `opposed` in a request are history: what no
request that begins now may rest on.

**`CorpusLoad`** models the loader of the performance harness: `Begin` reads the checkpoint
and resumes it or starts over, `Enter` drops the vector index if asked to, `Batch`, `Commit`
or `Reject` and `Checkpoint` are a batch, `Leave` builds the index again, `Refuse` finds an
empty table, `Verify` records the model in `projection_versions` and `Report` returns. A row
is the number of its claim and the corpus it comes from. Keys derive from the tenant and the
number, so the first corpus to load a claim keeps its events, spans, claims and vectors
(`Inserted`); the rows of `claim_evidence` and `claim_relations` consist of keys and say
nothing of a corpus; aliases and entities are keyed by what they say. Corpora are told apart
as a whole: two that differ only in the anchor or the model are taken to have other names as
well, which adds rows that the code would find there already. `Crash` may come between any two of them, `Misplace` loses the checkpoint file
or brings back an older one, and `Change` runs the loader with other options.

`OutboxProofs`, `LedgerProofs`, `GateProofs`, `ProjectionsProofs`, `ErasureProofs`,
`AgentProofs`, `RetrievalProofs` and `CorpusLoadProofs` hold the theorems; `GateProofs` those of
the claim store and of the scope catalogue, which rest on the same `ScopePolicy`. The `MC`
modules give the constants their values.

## 3. The runs

| Run | Question | States | Result |
| --- | --- | --- | --- |
| `MCOutbox` | Is anything lost, retired early, re-opened or miscounted when two loops claim overlapping batches, handlers fail, statements fail and processes die? Does the queue implement `Delivery`? Does a healthy message complete and a poison one stop consuming capacity? | 117,746 | holds |
| `MCLedger` | Do concurrent appends implement `EventLog`? Is an acknowledged append durable and queued, does a key name one event, is an event linked to its predecessor wherever its writer could see it, does `verifyChain` accept what appends leave and reject a rewrite? Does every append end, whatever it waits for? | 99,403 | holds |
| `MCScopeCatalog` | Does a candidate stay within its evidence and within reach of those who may read it, and is a narrower scope that existed granted to an extractor that asks for it? | 34,900 | holds |
| `MCCommitGate` | Do ingests, reviews and retirements implement `BeliefStore`? Does what has ended stay as it ended, is every superseded claim explained, is no contradiction that could be seen believed, can only a missing decision make an ingest fail? | 347,367 | holds |
| `MCCommitGate_NoDoubleExtraction` | Does a retry not extract twice, as `pipeline.ts` says? | - | violated |
| `MCProjections` | Is only what was believed in the index, does what stays accepted stay indexed through failing rebuilds, does a replay heal the index, and does an announced claim become indexed unless it stops being believed? | 17,571 | holds |
| `MCErasure` | Which live events may lose their bytes, which erased bytes may stay, and what may a verified job have missed, when jobs, appends and ingests run together and fail anywhere? | 1,562,792 | holds |
| `MCErasure_LiveBytesSurvive` | Is an object deleted only when no live row refers to it, as `retention.ts` says? | - | violated |
| `MCRetrieval` | What may a packet and an action rest on when claims and grants change between any two reads, does the trace record what was allowed, is every request answered although checks hold one connection and wait for another? | 248,176 | holds |
| `MCAgent` | Is a keyed write one event however often it is sent, does success mean that the events are there, does no proposal precede its transcript, does a run that writes the same at every attempt finish? | 94,410 | holds |
| `MCAgent_RetryIsDeduplicated` | Is an identical rewrite deduplicated, as `store.ts` says? | - | violated |
| `MCCorpusLoad` | Is there ever a gap below what was loaded, does success mean whole tables of the requested corpus, does a deferred index come back, does a load that is repeated succeed? | 1,295,258 | holds |

### Bounds

* `MCOutbox`: two messages, one of them poison, a polling loop and a draining one, batches
  of two, three attempts, two faults. Two messages make a batch in which one fails and one
  completes; two loops make every overlap of claims; three attempts let two faults and a
  success happen to one message. Fewer faults than attempts is what the
  liveness property needs.
* `MCLedger`: two clients and four appends out of a keyed append, its retry with the same
  and with other content, from another scope and on another stream, an unkeyed append and
  one with `expected_seq`. Two scopes that do not see each other make the case in which
  the key is taken by an event the caller cannot see. The number of appends is bounded, so the system stops.
* `MCScopeCatalog`: two dimensions, two values, two purposes, a catalogue that starts with
  a project scope and the narrower scope of one of its users and grows by one; every kind
  of request: nothing, narrower, another value, a purpose the event has and one it has not;
  two contexts, so that one commits what the other has bound too early to see.
* `MCCommitGate`: two workers; three events at instants 1, 3 and 2, so that evidence
  arrives out of order and one event lies after the server's clock (2); the third event
  belongs to a narrower scope; a record, the record with one more field, and one that
  contradicts both; three deliveries, three claims and two interventions, enough for a
  redelivery during a concurrent ingest and for a revocation or correction between a
  conflict search and the write that relies on it.
* `MCProjections`: one claim, two projectors that may handle its message at the same time,
  two faults, one rebuild and one retention transaction at a time. No action looks at two
  claims except through the list of a rebuild and the targets of a retention, which with one
  claim have it or do not.
* `MCErasure`: two jobs, two events of two users and one actor with the same content. Two
  holders of one object are what reference counting is about; the user selector takes one
  and the actor selector both. Each job runs once, so the system stops. Jobs are
  interchangeable, hence symmetry.
* `MCRetrieval`: two agents, one that reaches everything and acts at medium risk and one
  with a grant for one claim that acts at high risk, two claims and an id that names none, a
  pool of two connections, one change and one fault. Two connections are what two checks need
  to hold one each and wait for another; the first agent has two requests, so that an action
  follows a query. The change comes before, between or after any two statements of both
  requests, and with the liveness property a second one is too much for a run of a few
  minutes; the invariants were checked with two (3,801,462 states) and are proved for any
  number. Requests are bounded, so the system stops.
* `MCAgent`: `afterRun` with a transcript and a claim, pinned to a time, a batch of two
  values, and an `add` without a key of one of them; one fault and a clock of two instants:
  enough for a retry at another time while the request that was given up is on its way.
* `MCCorpusLoad`: two corpora of one or three claims in batches of two, so that the bigger
  has a full batch and a last one, one contradiction, two changes of options (size, corpus
  or index strategy) and two faults: enough to load a corpus, another over it and the first
  again. With a size of two as well no error is found either (3,330,052 states), in more
  than five minutes.

### Fairness

Safety runs assume none. `Outbox!Fairness` is weak fairness of the steps of a loop that is
up and of the expiry of a backoff: the polling loop of `main.ts` never stops by itself and
time passes. Faults, crashes, producers and restarts are not fair; the liveness properties
are stated for a loop that eventually stays up. `Ledger!FairSpec` is weak fairness of each
client's next statement: PostgreSQL wakes a waiting statement when its lock is released.
`Projections!Fairness` is weak fairness of the statements of a rebuild and of the end of a
retention transaction, and strong fairness of an upsert that waits for a row (PostgreSQL's
lock queue is first come, first served, and rebuilds may come back for ever) and of the
handling of each open message (a polling loop reaches every message, whatever else it does).
`Agent!FairSpec` is weak fairness of each run's next step: a graph goes on with its nodes,
which are run again after a failure, and a server with its requests. Nothing makes a request
that was given up arrive. `Retrieval!FairSpec` is weak fairness of what the server does next
for a request (its statements, the timer of the pool) and of the answer. `CorpusLoad!Fairness`
is weak fairness of the loader's steps and of its being started again by the operator.

### Disagreements found

Each `violation` run states what a document, comment or test says, and TLC's
counterexample shows what the code does instead:

1. A redelivered event sends its gated candidate through the gate again; the second claim
   has the same instant, so nothing supersedes the first (`pipeline.ts:305`; the SDK's
   `facade.ts:312` says re-extraction is idempotent).
2. `reclaimBlobs` unlinks objects inside a transaction that may still roll back, and while
   appends that found the object there have not committed: a live row then refers to bytes
   that are gone. `BytesOutliveReferences` says that these are the only two ways.
3. `put` of the store adapter writes the time of the call into the content and derives the
   key without it: an identical rewrite, or a retry whose first attempt got through, is
   refused as an idempotency conflict (`store.ts:264` says it is deduplicated).

Found with the models too, without a run of their own:

* The predecessor's hash is read under the request's scope; a stream written from two
  scopes that do not see each other has rows without a link, which `verifyChain` then
  reports as broken (`ledger.test.ts:70` says append links each event to its predecessor).
  `LinksReachPredecessors` is what does hold.
* A narrower scope that is created because an extractor asks for it comes too late for the
  closure its context computed; row-level security refuses the candidate and the extraction
  fails (`pipeline.ts:403`). `KnownScopesAreGranted` is what does hold.
* A claim a reviewer accepted with `accept_limited_scope` cannot be superseded: the guard
  wants a decision `accept`, so an ingest that duplicates it fails on every delivery
  (`migrations/0010:21`). `OnlyMissingDecisionsBlock` says that nothing else does that.
* A second check of one query replaces the first in the trace (`action-gate.ts:280`), so the
  trace explains the last action and not the earlier ones (`action-gate.ts:227`); the update
  is silent when it matches no row, and a verdict is lost when it fails.
* Growing the corpus of a completed load skips every phase and reports success
  (`load.ts:282` says it appends the missing tail), and growing a partly completed one fails
  on foreign keys at every attempt. `SuccessMeansWhole` and `LoadsFinish` name
  these as exceptions. A load that maintains the index does not notice that a killed one dropped it, so
  other phases may run without it (`load.ts:339` says none ever does).
* A load over a tenant that holds another corpus discards the events, spans, claims and
  vectors of every claim the other one has (`ON CONFLICT DO NOTHING` on keys of tenant and
  number, `corpus.ts:390-392`), finds no table empty and reports success. So it "reports
  success while writing nothing" into these tables, which `load.ts:366` calls the failure
  the check is for, and then records its own model for vectors of another one (`load.ts:381-393`
  means it to be "the writer's id"). A killed load of one corpus that is followed by another
  leaves events of the first with spans of the second. A changed seed needs `--tenant` for
  this, since the default tenant is named after it; a changed `--anchor` or embedding model
  does not. `perf/README.md:103` says that these invalidate the checkpoint, which is so; the
  rows stay. `SuccessMeansWhole` excepts the claims whose keys were `Taken`, and without the
  exception TLC finds such a load.
* The guard on claims refuses an end that is earlier than the one a claim has, and says that
  an interval "cannot be extended by moving its end later" (`migrations/0010:60-62`); a later one
  it lets pass. Nothing in the code moves an end either way: `ClosureIsFinal`.
* `outbox_claim` does not look at locks (`0011:32` says only unlocked rows are claimed), so
  a row in the hands of one loop is claimed by the next statement of another. Delivery stays
  at-least-once; attempts are spent on messages that are being handled.
* Two ingests that run together do not see each other's claim and accept contradicting
  values (`docs/policy-cookbook.md:160` says they are blocked). `NoKnownContradiction` is
  what does hold.
* `db.ts:240` says one lock serialises projection builds, replay and retention; nothing
  takes it, and a replay can index a claim that a retention revoked meanwhile.
* Two jobs that clear the last two holders of an object see each other's rows as live; both
  keep the object as shared and both may be verified (`blobs.ts:10-13` says a job cannot
  report complete erasure while the bytes it detached are on disk). The exception
  `orphans` of `DetachedBytesAreGone` names it.
* An object that survives its deletion counts as `objects_retained_other`, which
  `BlobOutcome` calls a failure to report, and not as residual: the job is verified.

Other places where the text and the code differ, read and not stated by a run:
`outbox_complete` and `outbox_fail` take any row id although `0011:34` says they are scoped
to the caller's; the lag logged after a drain (`main.ts:213`) counts messages that are
backing off; a retry that loses the race on its key keeps the sequence it allocated
(`ledger.test.ts:102`); `verifyChain` from a later sequence accepts any first link; a
replay that lost the race reports `extraction_queued: false`; `resolveRequestedScope` turns
a request for another value into a wider row; `correctClaim` writes no relation
(`retention.ts:569`); `classifyConflict` calls two records with the same number of fields
duplicates when the shared fields agree, and a superset `supersedes` (`commit-gate.ts:325`
says identical and `narrows`); quarantined claims have a `project.claim` message and claims a
reviewer accepts have none (`processors.ts:18-21` says one per accepted claim); supersession
de-indexes nothing; `deindexClaimsWithRedactedEvidence` has no caller, so a rebuild indexes
claims that rest on redacted evidence; `correctClaim` with `contradicts` makes a proposed
claim disputed, which projections index; the residual scan ignores project, agent and
session, so such a request is not verified while any other payload exists, and asks about
neither the quotes of evidence spans nor candidates; a request that names only an actor
revokes every claim of the tenant, one that names only a subject redacts every event; a
crash between the erasure and `recordJob` leaves no record (`data-model.md:727` says a
forget request leaves one); the answer of `batch` counts operations as failed that may have
been applied; a value that is put again after another was put meets the key of its first
event; a repeated `afterRun` whose stamp is not passed conflicts with what its first attempt
recorded, and `proposeClaims` never passes one; a client that is told `extraction_queued:
false` says that nothing will reach the gate, which is false for the loser of a race on the
key; `combineDecisions` and the gate's `weakestDecision` differ on an empty list (`clarify`
and `verify`); contradictions from claims out of reach do not count; `valid_to` is handed to
`evaluateUse`, which does not look at it, and `query_purpose_matches` is always true; the
watermark of a packet is read after the channels it describes; the loader's count of 1 means
both "complete" and "next is claim 1", and is safe because a batch has more than one claim;
corpora of fewer than eight claims are refused because they hold no contradiction.

## 4. The proofs

Every theorem holds for all values of the constants that satisfy the named assumptions
(`QueueAssumption`, `LoopAssumption`, `LedgerAssumption`, `ScopeAssumption`,
`CatalogAssumption`, `GateAssumption`, `ProjectionAssumption`, `ErasureAssumption`, `AgentAssumption`,
`RetrievalAssumption`, `LoadAssumption`): any number of messages, loops, clients, streams,
scopes, dimensions, claims, projectors, jobs, objects, runs, agents and corpora.

A run spends its properties on what could be wrong: `TypeOK` is proved for every component
and checked by a run only for `Retrieval`, where it says that the pool is not overdrawn;
`NoSilentLoss` is left to its proof and to `ImplementsDelivery`, which implies it, and
`AppendsInOrder` to its proof and to `ImplementsEventLog`. The inductive invariants
of the claim store, the largest, were checked with TLC on the instance of its run as well.

* `OutboxProofs`: `TypeCorrect`, `RetiredHasEffect` (`NoSilentLoss`), `RetirementIsFinal`
  (`CompletedIsFinal`) and `OutboxImplementsDelivery`. `NoSilentLoss` is not inductive: a
  completion is justified by an effect that was committed two steps earlier. `IInv` adds
  that a loop in `committed` has an effect for its current message, that the current
  message is in its batch, that batches hold queued messages and that the rows of a claim in
  progress were claimable when it locked them, since nothing else settles them before it
  commits. `AttemptsAreAccounted` (`AttemptAccounting`) counts: the attempts of an open
  message are the claims that lapsed and the loops that hold it. It needs that the holders of
  a message are finitely many, although there may be any number of loops, and that a loop
  between two cycles or down holds nothing; each step then adds one holder, or turns one into
  a lapse, or changes neither.
* `LedgerProofs`: `TypeCorrect`, `AcknowledgementsAreDurable`, `KeysAreIdempotent`,
  `StreamsGrowAtTheEnd`, `ChainsLink` (`LinksReachPredecessors`), `ChainsAreVerified`
  (`ChainVerdict`), `LedgerImplementsEventLog`. `IInv` relates the locks
  to the data: no event lies above `last_seq` (`StreamBounds`), the holder of a stream has the next sequence and there is one
  (`StreamNext`, `StreamExclusive`), a key has one event, or one transaction that will
  write it (`KeyUnique`, `KeyExclusive`), every event is queued (`EventsQueued`), and a
  receipt names the event that carries its key (`ReceiptsHonoured`). For the links it adds
  that a number in a stream names one event (`NumberUnique`) and that the hash a transaction
  read before its insert is still the predecessor's when it inserts (`LinksHeld`), because
  it holds the stream.
  `ChainsAreVerified` says what `verifyChain` is for: it accepts the rows that appends leave
  in a stream without gaps whose writers reach each other, and rejects them when an event
  that has a successor is given other content. The argument is about neighbours, not about
  the length of the stream: links and dense numbers make every step of the loop pass, and the
  smallest number above a rewritten event, which exists because numbers are well-founded, is
  where it fails. For `LedgerImplementsEventLog` the commit is the instant of an append; the
  invariant keeps for it what was looked up earlier, that there was no predecessor in reach
  (`UnlinkedHeld`, `UnlinkedStored`) and that the expected number is the one taken
  (`ExpectedHeld`). What a lost race or a replay tells is a repetition; all other statements
  change nothing that a caller can see.
* `GateProofs`, about the claim store: `TypeCorrect`, `GateExplainsSupersession`
  (`SupersessionIsExplained`), `GateBelievesNoKnownContradiction` (`NoKnownContradiction`),
  `GuardsAskForDecisions` (`OnlyMissingDecisionsBlock`), `ClosedClaimsStay`
  (`ClosureIsFinal`), `GateImplementsBeliefStore`. A gate decides on what it saw and writes
  later, so the invariant has a part about what is committed (`StoreInv`) and a part about
  each transaction as it sees the store (`DraftInv`). Rows only age (`Ages`): proposal, scope
  and author stay, and what is not believed is never believed again, so a verdict in favour
  stays clear of what it knew (`Standing`, `Informed`). The rows a transaction closes are
  open in the table and locked (`Locked`, `Exclusive`), so nobody else ends them first, and a
  claim of its own replaces them (`Replaced`). For the refinement, `Whole` says what the commit
  of a transaction would be: one decision for each new row, the other rows as they stand in
  the table but for their end, authorised by a decision that is committed already, and only
  new rows speak in decisions and relations.
* `GateProofs`, about the scope catalogue: `CatalogTypeCorrect`,
  `AdmissionStaysWithinEvidence` (`AdmittedWithinEvidence`), `ReadersReachCandidates`
  (`ReadersFollowEvidence`), `NarrowRequestsAreGranted` (`KnownScopesAreGranted`).
  The invariant says that what a transaction wrote was both resolved from the event's scope
  and in the closure of its context; `CoversIsContainment` and `CoversIsTransitive` relate
  the rule of the gate to the rule of the database.
* `ProjectionsProofs`: `TypeCorrect`, `OnlyBelievedIsIndexed` (`IndexedWasBelieved`),
  `AcceptedIsKept` (`AcceptedStaysIndexed`). A rebuild decides at its commit what leaves the
  index, so the invariant has to follow it: what it removed and has not written again is
  still to be done, was skipped because it was retired, or was not listed
  (`RebuildProgress`); and a retention transaction only holds rows of claims it retires or
  whose evidence it erases (`RetirementPending`). `ReplayHeals` (`RebuildClears`) adds that
  no claim that was gone when a replay began is being written by anyone before it commits.
* `ErasureProofs`: `TypeCorrect`, `BytesAreKept` (`BytesOutliveReferences`),
  `VerificationIsSound` (`VerifiedMissesOnlyLateRows`), `NothingIsLeftBehind`
  (`DetachedBytesAreGone`). All rest on the row locks: what a job has cleared stays live for
  others until it commits, and no other job clears it (`ClearedRows`, `OneJobClears`). Each
  adds its own part. Bytes: an append under way may not lose its object either
  (`HeldBytesOnDisk`), and the holders a job has counted cover what it keeps
  (`CountIsComplete`). Verification: what a scan missed from the moment it ran
  (`NoEventMissed`, `NoClaimMissed`). Leftovers: every object has a holder, and whoever has
  cleared that holder has the object still to unlink (`ObjectsAreHeld`, `Owes`), which needs
  that references are captured while the rows are live (`PicksAreCaptured`).
* `AgentProofs`: `TypeCorrect`, `RetriesAreDeduplicated` (`KeyedOnce`), `SuccessIsReceipted`
  (`ReceiptsNameTheirEvents`), `TranscriptComesFirst` (`ProposalsFollowTheTranscript`). The
  invariant says what a position means: a run that has come to its k-th write has a receipt
  for each earlier one, and each receipt names an event of its payload; and whatever is on
  its way, or was given up and may still arrive, was sent by a run that had come that far,
  so that an event that turns up late still finds its predecessors recorded.
* `RetrievalProofs`: `TypeCorrect`, `PacketsAreCurrent` (`PacketDeniesWhatIsGone`),
  `ActionsAreGrounded` (`ActionsRestOnStandingClaims`), `ContradictionStops`
  (`NoActionAgainstContradiction`), `TracesExplainActions` (`ActionsAreOnRecord`), and of the
  policy alone `RiskOnlyTightens` and `BlockedStaysBlocked`. A request reads in statements
  that see different states, so the invariant says of each phase what has been read since
  the request began and cannot have become better: what was gone stays gone or was read as
  gone, what was hidden is not visible to the reach that was computed later, and an
  opposition that still stands is among the rivals once they are read.
* `CorpusLoadProofs`: `TypeCorrect`, `LoadsLeaveNoGaps` (`TablesHaveNoGaps`),
  `LoadsAreWhole` (`SuccessMeansWhole`), `IndexReturns` (`DeferredIndexReturns`). The
  invariant ties every checkpoint there is, the loader's, the file and the older one, to the
  rows: what it counts as loaded has landed (`Landed`), as the row of its corpus or behind a
  row of another one with the same key, because it is written after the commit and rows are
  never taken away or changed.

Only model-checked are the liveness properties, since fairness and ENABLED are beyond the
prover: `HealthyMessagesComplete`, `PoisonRetires`, `AppendsFinish`,
`AnnouncedBecomesIndexed`, `EveryRequestIsAnswered`, `SteadyRunsFinish` and `LoadsFinish`.
Every safety property that a passing run checks is the statement of a theorem.

## 5. What is left out, and why

* Numbers and text: entailment scores, thresholds, string normalisation and numeric
  equality of objects are a nondeterministic grade or equality of model values.
* `CommitGate` has one subject and predicate, since the conflict search never crosses them;
  the `LIMIT 64` of the search is not reached; reviewer outcomes that create no claim change
  only the candidate's state, which nothing reads; `applyStatus` has no caller but tests.
* `accept_limited_scope` is not reachable from an ingest, because row-level security refuses
  a candidate whose scope exceeds its event's before the gate sees it (`MCScopeCatalog`);
  a reviewer can choose it, and the model lets him.
* Graceful shutdown waits for the polling loop's batch and not for a drain's; in the model
  that is a crash of the loop.
* Backoff intervals, poll intervals and clocks are reduced to order: due or not, earlier or
  later.
* `Projections` leaves out entity aliases, which nothing de-indexes, model ids, digests and
  watermarks. `Erasure` leaves out aliases and query traces, which a job clears for the whole
  tenant, other claim statuses than proposed, accepted and revoked, and stores that cannot
  delete.
* `Retrieval` has the time mode "current"; ranking, fusion, reranking, budgets and the slice
  to the limit are left out (a lane finds any subset of what it may see, a packet keeps all
  that was found), and several probes of one check are one step. The reach of a request is
  computed by `Plan` and used until the request ends, as in the code. Age and authority of a
  claim are constants.
* `Agent` leaves out reading, rendering and the namespaces of the store adapter, and queues
  no extraction (that is `Ledger`).
* LedgerBench, the capture of query plans, the evaluations and the demo are programs that
  measure the system, sequential and half of the repository's lines; entailment and
  extraction are arithmetic and text. They hold no state of the system that others depend
  on, which is why most lines of the repository are not mapped.

## 6. Plan

Done, in this order: `Delivery` and `Outbox`; `Ledger`; `ScopePolicy` and `ScopeCatalog`;
`CommitGate`; `Projections`; `Erasure`; `Agent`; `UsePolicy` and `Retrieval`; `CorpusLoad`;
`EventLog` and `BeliefStore`; the proofs of all of them.

Next:

1. An abstract index and an abstract answer, which `Projections` and `Retrieval` would
   implement as `Ledger` does `EventLog`.
2. `Pipeline`: `EventLog`, `Delivery` and `BeliefStore` composed: every acknowledged event is
   eventually gated or its message exhausted.
3. The time modes `as_of` and `during` of `packages/claims`, against the history a claim had.
