------------------------------- MODULE Ledger -------------------------------
(***************************************************************************)
(* Appending to the evidence ledger: Ledger.append, the idempotency key    *)
(* lookup it makes twice, the stream row that allocates sequence numbers,  *)
(* and Ledger.verifyChain (packages/ledger/src/ledger.ts).                 *)
(*                                                                         *)
(* An append is one READ COMMITTED transaction.  Its statements are the    *)
(* steps of this module: a read sees what is committed at that moment and  *)
(* what the transaction's scope reaches (row_authorized), the upsert of    *)
(* the stream row takes a lock that is held until the end, and an insert   *)
(* waits for another transaction that has inserted the same idempotency    *)
(* key.  A rollback, for whatever reason, leaves no trace.                 *)
(*                                                                         *)
(* A content hash is represented by the content (SHA-256 is taken as       *)
(* injective) and the event id by the pair of stream and sequence.         *)
(***************************************************************************)
EXTENDS Integers, FiniteSets

CONSTANTS
  Clients,              \* concurrent callers of append()
  Streams, Contents, Scopes,
  Keys,                 \* idempotency keys of the tenant
  Reaches,              \* Reaches[s]: scopes whose rows a request in s can see
  Requests,             \* the append requests clients make, and make again
  MaxRequests,          \* bound on the appends started in a behaviour
  NoKey, NoSeq, NoHash  \* an absent key, expected_seq, prev_hash

Request == [stream: Streams, content: Contents, scope: Scopes,
            key: Keys \cup {NoKey}, expected: (Nat \ {0}) \cup {NoSeq}]

ASSUME LedgerAssumption ==
  /\ Requests \subseteq Request
  /\ MaxRequests \in Nat
  /\ NoKey \notin Keys /\ NoHash \notin Contents /\ NoSeq \notin Nat
  /\ Reaches \in [Scopes -> SUBSET Scopes]
  /\ \A s \in Scopes : s \in Reaches[s]

VARIABLES
  events,               \* committed rows of table events
  lastSeq,              \* column streams.last_seq
  queued,               \* events with a committed extract.event message
  phase,                \* the statement each client's transaction is at
  req,                  \* the request it executes
  seq, prev,            \* the sequence and predecessor hash it holds
  receipts,             \* history: receipts returned to clients
  started               \* history: appends started

txVars == <<phase, req, seq, prev>>
vars == <<events, lastSeq, queued, txVars, receipts, started>>

Event == [stream: Streams, seq: Nat \ {0}, content: Contents, scope: Scopes,
          key: Keys \cup {NoKey}, prev: Contents \cup {NoHash}]
EventId == Streams \X (Nat \ {0})
Receipt == [request: Request, event: EventId, deduplicated: BOOLEAN,
            queued: BOOLEAN]

TypeOK ==
  /\ events \subseteq Event
  /\ lastSeq \in [Streams -> Nat]
  /\ queued \subseteq EventId
  /\ phase \in [Clients -> {"idle", "lookup", "allocate", "insert", "inserted"}]
  /\ req \in [Clients -> Requests]
  /\ seq \in [Clients -> Nat]
  /\ prev \in [Clients -> Contents \cup {NoHash}]
  /\ receipts \subseteq Receipt
  /\ started \in 0..MaxRequests

Init ==
  /\ events = {} /\ queued = {} /\ receipts = {} /\ started = 0
  /\ lastSeq = [s \in Streams |-> 0]
  /\ phase = [c \in Clients |-> "idle"]
  /\ req \in [Clients -> Requests]
  /\ seq = [c \in Clients |-> 0]
  /\ prev = [c \in Clients |-> NoHash]

-----------------------------------------------------------------------------
IdOf(e) == <<e.stream, e.seq>>

\* Row-level security: the committed events a request can see.
Visible(r) == {e \in events : e.scope \in Reaches[r.scope]}

\* findByIdempotencyKey.
Replays(r) == {e \in Visible(r) : r.key # NoKey /\ e.key = r.key}

\* A mistake: only the lookup guards the key.
KeyTakenVisible(r) == \E e \in Replays(r) : e.stream = r.stream

\* The unique index on (tenant_id, idempotency_key) is not subject to RLS.
KeyTaken(r) == r.key # NoKey /\ \E e \in events : e.key = r.key

\* A mistake: the key is held while its transaction still waits for it.
KeyHeldEarly(c) ==
  /\ req[c].key # NoKey
  /\ \E d \in Clients \ {c} : /\ phase[d] \in {"insert", "inserted"}
                            /\ req[d].key = req[c].key

KeyHeld(c) ==
  /\ req[c].key # NoKey
  /\ \E d \in Clients \ {c} : phase[d] = "inserted" /\ req[d].key = req[c].key

HoldsStream(c) == phase[c] \in {"insert", "inserted"}

\* A mistake: the sequence is read without a lock on the stream row.
NothingLocked(s) == \E c \in {} : HoldsStream(c) /\ req[c].stream = s

StreamLocked(s) == \E c \in Clients : HoldsStream(c) /\ req[c].stream = s

\* A mistake: the predecessor is looked up under the number just allocated.
PrevHashOfItself(r, n) ==
  LET found == {e \in Visible(r) : e.stream = r.stream /\ e.seq = n} IN
  IF found = {} THEN NoHash ELSE (CHOOSE e \in found : TRUE).content

\* SELECT content_hash ... WHERE seq = $3, in the transaction's own scope.
PrevHash(r, n) ==
  LET found == {e \in Visible(r) : e.stream = r.stream /\ e.seq = n - 1} IN
  IF found = {} THEN NoHash ELSE (CHOOSE e \in found : TRUE).content

End(c) == phase' = [phase EXCEPT ![c] = "idle"]

Acknowledge(r, e, dedup, q) ==
  receipts' = receipts \cup {[request |-> r, event |-> IdOf(e),
                              deduplicated |-> dedup, queued |-> q]}

Rollback(c) ==
  /\ End(c)
  /\ UNCHANGED <<events, lastSeq, queued, req, seq, prev, receipts, started>>
-----------------------------------------------------------------------------
Begin(c, r) ==
  /\ phase[c] = "idle" /\ started < MaxRequests
  /\ started' = started + 1
  /\ req' = [req EXCEPT ![c] = r]
  /\ phase' = [phase EXCEPT ![c] = IF r.key = NoKey THEN "allocate" ELSE "lookup"]
  /\ UNCHANGED <<events, lastSeq, queued, seq, prev, receipts>>

\* The key was used before: the stored event answers, if the content agrees.
Replay(c) ==
  /\ phase[c] = "lookup"
  /\ \E e \in Replays(req[c]) :
       /\ e.content = req[c].content
       /\ Acknowledge(req[c], e, TRUE, TRUE)
  /\ End(c)
  /\ UNCHANGED <<events, lastSeq, queued, req, seq, prev, started>>

\* idempotency_conflict.
ReplayConflict(c) ==
  /\ phase[c] = "lookup"
  /\ \E e \in Replays(req[c]) : e.content # req[c].content
  /\ Rollback(c)

LookupMisses(c) ==
  /\ phase[c] = "lookup" /\ Replays(req[c]) = {}
  /\ phase' = [phase EXCEPT ![c] = "allocate"]
  /\ UNCHANGED <<events, lastSeq, queued, req, seq, prev, receipts, started>>

\* The upsert of the stream row, the check of expected_seq and the read of the
\* predecessor, which the row lock keeps together.
Allocate(c) ==
  LET n == lastSeq[req[c].stream] + 1 IN
  /\ phase[c] = "allocate" /\ ~StreamLocked(req[c].stream)
  /\ req[c].expected \in {NoSeq, n}
  /\ seq' = [seq EXCEPT ![c] = n]
  /\ prev' = [prev EXCEPT ![c] = PrevHash(req[c], n)]
  /\ phase' = [phase EXCEPT ![c] = "insert"]
  /\ UNCHANGED <<events, lastSeq, queued, req, receipts, started>>

\* sequence_conflict.
AllocateConflict(c) ==
  /\ phase[c] = "allocate" /\ ~StreamLocked(req[c].stream)
  /\ req[c].expected \notin {NoSeq, lastSeq[req[c].stream] + 1}
  /\ Rollback(c)

Insert(c) ==
  /\ phase[c] = "insert" /\ ~KeyHeld(c) /\ ~KeyTaken(req[c])
  /\ phase' = [phase EXCEPT ![c] = "inserted"]
  /\ UNCHANGED <<events, lastSeq, queued, req, seq, prev, receipts, started>>

\* A mistake: the loser acknowledges the sequence it had allocated itself.
LoseRaceOwnSeq(c) ==
  /\ phase[c] = "insert" /\ ~KeyHeld(c) /\ KeyTaken(req[c])
  /\ \E e \in Replays(req[c]) :
       /\ e.content = req[c].content
       /\ Acknowledge(req[c], [e EXCEPT !.seq = seq[c]], TRUE, FALSE)
  /\ lastSeq' = [lastSeq EXCEPT ![req[c].stream] = seq[c]]
  /\ End(c)
  /\ UNCHANGED <<events, queued, req, seq, prev, started>>

\* ON CONFLICT DO NOTHING: another writer's event is the answer.  The
\* transaction commits, and with it the increment of last_seq.
LoseRace(c) ==
  /\ phase[c] = "insert" /\ ~KeyHeld(c) /\ KeyTaken(req[c])
  /\ \E e \in Replays(req[c]) :
       /\ e.content = req[c].content
       /\ Acknowledge(req[c], e, TRUE, FALSE)
  /\ lastSeq' = [lastSeq EXCEPT ![req[c].stream] = seq[c]]
  /\ End(c)
  /\ UNCHANGED <<events, queued, req, seq, prev, started>>

\* The winner is out of the request's reach, or has other content.
LoseRaceConflict(c) ==
  /\ phase[c] = "insert" /\ ~KeyHeld(c) /\ KeyTaken(req[c])
  /\ \A e \in Replays(req[c]) : e.content # req[c].content
  /\ Rollback(c)

NewEvent(c) == [stream |-> req[c].stream, seq |-> seq[c], key |-> req[c].key,
                content |-> req[c].content, scope |-> req[c].scope,
                prev |-> prev[c]]

\* The event and its extract.event message are committed together.
Commit(c) ==
  /\ phase[c] = "inserted"
  /\ events' = events \cup {NewEvent(c)}
  /\ queued' = queued \cup {IdOf(NewEvent(c))}
  /\ lastSeq' = [lastSeq EXCEPT ![req[c].stream] = seq[c]]
  /\ Acknowledge(req[c], NewEvent(c), FALSE, TRUE)
  /\ End(c)
  /\ UNCHANGED <<req, seq, prev, started>>

\* A crash, a lost connection or a failing statement.
Abort(c) == phase[c] # "idle" /\ Rollback(c)

Step(c) ==
  \/ Replay(c) \/ ReplayConflict(c) \/ LookupMisses(c)
  \/ Allocate(c) \/ AllocateConflict(c)
  \/ Insert(c) \/ LoseRace(c) \/ LoseRaceConflict(c) \/ Commit(c)

Next ==
  \E c \in Clients : \/ \E r \in Requests : Begin(c, r)
                     \/ Step(c)
                     \/ Abort(c)

Spec == Init /\ [][Next]_vars

\* A transaction that can take its next statement takes it.
FairSpec == Spec /\ \A c \in Clients : WF_vars(Step(c))
-----------------------------------------------------------------------------
(* Ledger.verifyChain over the rows S of a stream, from sequence "from" on.
   The link hash recomputes in every row append() wrote and is left out.    *)

IsFirst(e, S) == \A f \in S : f.seq >= e.seq

Pred(e, S) == CHOOSE p \in S : /\ p.seq < e.seq
                               /\ \A f \in S : f.seq < e.seq => f.seq <= p.seq

\* The value the loop of verifyChain carries to the row after p.
ExpectedAfter(p, S, from) ==
  IF IsFirst(p, S) /\ from > 1 THEN p.prev ELSE p.content

\* A mistake: each row is compared with itself rather than its predecessor.
VerifyChainLoose(S, from) == \A e \in S : IsFirst(e, S) => from > 1 \/ e.prev = NoHash

VerifyChain(S, from) ==
  LET rows == {e \in S : e.seq >= from} IN
  \A e \in rows :
    IF IsFirst(e, rows) THEN from > 1 \/ e.prev = NoHash
    ELSE e.prev = ExpectedAfter(Pred(e, rows), rows, from)

Rows(s) == {e \in events : e.stream = s}
-----------------------------------------------------------------------------
(* Properties                                                              *)

\* A caller is acknowledged only for an event that is stored with the content
\* it sent and that has its extract.event message, however its append raced
\* with others and whoever wrote the event.
AcknowledgedIsDurable ==
  \A r \in receipts :
    /\ r.event \in queued
    /\ \E e \in events : IdOf(e) = r.event /\ e.content = r.request.content

\* An idempotency key names one event for the whole tenant: all callers that
\* present it and are acknowledged are told of the same event.
KeyNamesOneEvent ==
  \A r, t \in receipts :
    (r.request.key # NoKey /\ t.request.key = r.request.key) => r.event = t.event

\* A stream only grows at its end: an event that appears has a sequence above
\* every event of its stream, so two appends never share one and a reader who
\* follows the sequence misses nothing that was already behind it.
AppendsInOrder ==
  [][/\ events \subseteq events'
     /\ \A e \in events' \ events : \A f \in events :
          f.stream = e.stream => f.seq < e.seq]_vars

Dense(S) == \A e \in S : e.seq = 1 \/ \E f \in S : f.seq = e.seq - 1

OneReach(S) == \A e, f \in S : f.scope \in Reaches[e.scope]

Rewrite(S, e, x) == (S \ {e}) \cup {[e EXCEPT !.content = x]}

\* verifyChain accepts the stream that concurrent appends leave behind, where
\* no number was lost and its writers could see each other's events, and
\* rejects it when the content of an event that has a successor is changed.
ChainVerdict ==
  \A s \in Streams :
    LET S == Rows(s) IN
    (Dense(S) /\ OneReach(S)) =>
      /\ VerifyChain(S, 1)
      /\ \A e \in S, x \in Contents :
           (x # e.content /\ \E f \in S : f.seq > e.seq)
             => ~VerifyChain(Rewrite(S, e, x), 1)

\* Every append ends: a transaction waits for the stream row and then for the
\* key, and whoever holds the key waits for nobody.
AppendsFinish == \A c \in Clients : phase[c] # "idle" ~> phase[c] = "idle"

\* An event is linked to the one before it wherever its writer could see that
\* one, although the link is read long before the insert (ledger.test.ts 70
\* says each event is: a writer whose scope does not reach the last event
\* links to nothing).
LinksReachPredecessors ==
  \A e, f \in events :
    (f.stream = e.stream /\ f.seq = e.seq - 1 /\ f.scope \in Reaches[e.scope])
      => e.prev = f.content

\* The transactions of append() implement an atomic log: statements that
\* interleave, wait for each other, lose races and roll back look like appends
\* and repetitions that happen one at a time.
Promise == INSTANCE EventLog
ImplementsEventLog == Promise!Spec
=============================================================================
