---------------------------- MODULE LedgerProofs ----------------------------
(***************************************************************************)
(* Safety of Ledger.append for any number of clients, streams, keys,       *)
(* scopes and requests.  The inductive invariant IInv adds to the type     *)
(* invariant what the lock on the stream row gives (parts Stream...), what *)
(* the unique index on the key gives (parts Key...) and what a receipt     *)
(* stands for.  What verifyChain makes of a stream follows from the links. *)
(***************************************************************************)
EXTENDS Ledger, WellFoundedInduction, TLAPS

\* A transaction that holds a stream row holds the number after the last one,
\* and is the only one to hold that row.
StreamBounds == \A e \in events : e.seq <= lastSeq[e.stream]

StreamNext == \A c \in Clients : HoldsStream(c) => seq[c] = lastSeq[req[c].stream] + 1

StreamExclusive ==
  \A c, d \in Clients :
    (HoldsStream(c) /\ HoldsStream(d) /\ req[c].stream = req[d].stream) => c = d

\* The holder of a stream has read the hash of the event before, if it may.
LinksTo(stream, n, scope, hash) ==
  \A f \in events :
    (f.stream = stream /\ f.seq = n - 1 /\ f.scope \in Reaches[scope]) => hash = f.content

LinksHeld ==
  \A c \in Clients : HoldsStream(c) => LinksTo(req[c].stream, seq[c], req[c].scope, prev[c])

LinksStored == \A e \in events : LinksTo(e.stream, e.seq, e.scope, e.prev)

\* A link to nothing is made only where there is nothing to link to.
Before(stream, n, scope) ==
  {f \in events : f.stream = stream /\ f.seq = n - 1 /\ f.scope \in Reaches[scope]}

UnlinkedHeld ==
  \A c \in Clients : HoldsStream(c) /\ Before(req[c].stream, seq[c], req[c].scope) = {}
                       => prev[c] = NoHash

UnlinkedStored ==
  \A e \in events : Before(e.stream, e.seq, e.scope) = {} => e.prev = NoHash

\* The number a transaction holds is the one its request expects, if any.
ExpectedHeld == \A c \in Clients : HoldsStream(c) => req[c].expected \in {NoSeq, seq[c]}

NumberUnique == \A e, f \in events : (e.stream = f.stream /\ e.seq = f.seq) => e = f

\* A key is used by one stored event, or by one transaction about to store it.
KeyUnique == \A e, f \in events : (e.key # NoKey /\ f.key = e.key) => e = f

KeyExclusive ==
  \A c \in Clients : (phase[c] = "inserted" /\ req[c].key # NoKey) =>
    /\ \A e \in events : e.key # req[c].key
    /\ \A d \in Clients : (phase[d] = "inserted" /\ req[d].key = req[c].key) => c = d

EventsQueued == \A e \in events : IdOf(e) \in queued

\* What a receipt stands for.
Honours(e, r) ==
  /\ IdOf(e) = r.event
  /\ e.content = r.request.content
  /\ r.request.key # NoKey => e.key = r.request.key

ReceiptsHonoured == \A r \in receipts : \E e \in events : Honours(e, r)

IInv ==
  /\ TypeOK
  /\ StreamBounds /\ StreamNext /\ StreamExclusive
  /\ KeyUnique /\ KeyExclusive
  /\ EventsQueued /\ ReceiptsHonoured
  /\ NumberUnique /\ LinksHeld /\ LinksStored
  /\ UnlinkedHeld /\ UnlinkedStored /\ ExpectedHeld

-----------------------------------------------------------------------------
(* Types                                                                   *)

LEMMA RequestTyped ==
  ASSUME NEW c \in Clients, TypeOK
  PROVE  /\ req[c] \in Requests
         /\ req[c] \in Request
         /\ req[c].stream \in Streams /\ req[c].content \in Contents
         /\ req[c].scope \in Scopes /\ req[c].key \in Keys \cup {NoKey}
  BY LedgerAssumption DEF TypeOK, Request

LEMMA PrevHashTyped ==
  ASSUME TypeOK, NEW r \in Request, NEW n \in Nat
  PROVE  PrevHash(r, n) \in Contents \cup {NoHash}
  <1> DEFINE found == {e \in Visible(r) : e.stream = r.stream /\ e.seq = n - 1}
  <1>1. found \subseteq events
    BY DEF Visible
  <1>2. \A e \in events : e.content \in Contents
    BY DEF TypeOK, Event
  <1>3. CASE found = {}
    BY <1>3 DEF PrevHash
  <1>4. CASE found # {}
    <2>1. (CHOOSE e \in found : TRUE) \in found
      BY <1>4
    <2>2. QED
      BY <1>1, <1>2, <1>4, <2>1 DEF PrevHash
  <1>5. QED
    BY <1>3, <1>4

LEMMA NewEventTyped ==
  ASSUME NEW c \in Clients, TypeOK, StreamNext, HoldsStream(c)
  PROVE  /\ NewEvent(c) \in Event
         /\ IdOf(NewEvent(c)) \in EventId
         /\ seq[c] \in Nat \ {0}
  <1>1. seq[c] \in Nat \ {0}
    BY RequestTyped DEF TypeOK, StreamNext
  <1>2. prev[c] \in Contents \cup {NoHash}
    BY DEF TypeOK
  <1>3. QED
    BY <1>1, <1>2, RequestTyped DEF NewEvent, Event, EventId, IdOf

LEMMA ReceiptTyped ==
  ASSUME NEW r \in Request, NEW e \in Event, NEW x \in BOOLEAN, NEW y \in BOOLEAN
  PROVE  [request |-> r, event |-> IdOf(e), deduplicated |-> x, queued |-> y] \in Receipt
  BY DEF Receipt, IdOf, EventId, Event

LEMMA StoredTyped ==
  ASSUME TypeOK, NEW e \in events
  PROVE  e \in Event /\ e.stream \in Streams /\ e.seq \in Nat \ {0} /\ IdOf(e) \in EventId
  BY DEF TypeOK, Event, IdOf, EventId

\* The type invariant is preserved by every step; that a stored sequence is
\* never zero needs the number a transaction holds to follow the last one.
LEMMA TypeStep ==
  ASSUME TypeOK, StreamNext, [Next]_vars
  PROVE  TypeOK'
  <1> USE DEF TypeOK
  <1>1. ASSUME NEW c \in Clients, NEW r \in Requests, Begin(c, r)
        PROVE  TypeOK'
    BY <1>1, LedgerAssumption DEF Begin
  <1>2. ASSUME NEW c \in Clients, Replay(c)
        PROVE  TypeOK'
    <2>1. PICK e \in Replays(req[c]) : Acknowledge(req[c], e, TRUE, TRUE)
      BY <1>2 DEF Replay
    <2>2. e \in Event
      BY <2>1, StoredTyped DEF Replays, Visible
    <2>3. receipts' \subseteq Receipt
      BY <2>1, <2>2, RequestTyped, ReceiptTyped DEF Acknowledge
    <2>4. QED
      BY <1>2, <2>3 DEF Replay, End
  <1>3. ASSUME NEW c \in Clients, Rollback(c)
        PROVE  TypeOK'
    BY <1>3 DEF Rollback, End
  <1>4. ASSUME NEW c \in Clients, LookupMisses(c)
        PROVE  TypeOK'
    BY <1>4 DEF LookupMisses
  <1>5. ASSUME NEW c \in Clients, Allocate(c)
        PROVE  TypeOK'
    <2>1. lastSeq[req[c].stream] + 1 \in Nat
      BY RequestTyped
    <2>2. PrevHash(req[c], lastSeq[req[c].stream] + 1) \in Contents \cup {NoHash}
      BY <2>1, RequestTyped, PrevHashTyped
    <2>3. seq' \in [Clients -> Nat] /\ prev' \in [Clients -> Contents \cup {NoHash}]
      BY <1>5, <2>1, <2>2 DEF Allocate
    <2>4. QED
      BY <1>5, <2>3 DEF Allocate
  <1>6. ASSUME NEW c \in Clients, Insert(c)
        PROVE  TypeOK'
    BY <1>6 DEF Insert
  <1>7. ASSUME NEW c \in Clients, LoseRace(c)
        PROVE  TypeOK'
    <2>1. PICK e \in Replays(req[c]) : Acknowledge(req[c], e, TRUE, FALSE)
      BY <1>7 DEF LoseRace
    <2>2. e \in Event
      BY <2>1, StoredTyped DEF Replays, Visible
    <2>3. receipts' \subseteq Receipt
      BY <2>1, <2>2, RequestTyped, ReceiptTyped DEF Acknowledge
    <2>4. lastSeq' \in [Streams -> Nat]
      BY <1>7 DEF LoseRace
    <2>5. QED
      BY <1>7, <2>3, <2>4 DEF LoseRace, End
  <1>8. ASSUME NEW c \in Clients, Commit(c)
        PROVE  TypeOK'
    <2>1. /\ NewEvent(c) \in Event
          /\ IdOf(NewEvent(c)) \in EventId
      BY <1>8, NewEventTyped DEF Commit, HoldsStream
    <2>2. receipts' \subseteq Receipt
      BY <1>8, <2>1, RequestTyped, ReceiptTyped DEF Commit, Acknowledge
    <2>3. lastSeq' \in [Streams -> Nat]
      BY <1>8 DEF Commit
    <2>4. events' \subseteq Event /\ queued' \subseteq EventId
      BY <1>8, <2>1 DEF Commit
    <2>5. QED
      BY <1>8, <2>2, <2>3, <2>4 DEF Commit, End
  <1>9. CASE UNCHANGED vars
    BY <1>9 DEF vars, txVars
  <1>10. QED
    BY <1>1, <1>2, <1>3, <1>4, <1>5, <1>6, <1>7, <1>8, <1>9
       DEF Next, Step, Abort, ReplayConflict, AllocateConflict, LoseRaceConflict
-----------------------------------------------------------------------------
(* The lock on the stream row                                              *)

\* Only Commit stores an event, and the event is the one the client prepared.
LEMMA EventsStep ==
  ASSUME [Next]_vars
  PROVE  \/ events' = events
         \/ \E c \in Clients : Commit(c)
  BY DEF Next, Step, Begin, Replay, LookupMisses, Allocate, Insert, LoseRace, Abort,
         ReplayConflict, AllocateConflict, LoseRaceConflict, Rollback, vars, txVars

LEMMA StreamStep ==
  ASSUME TypeOK, TypeOK', StreamBounds, StreamNext, StreamExclusive, [Next]_vars
  PROVE  StreamBounds' /\ StreamNext' /\ StreamExclusive'
  <1> USE DEF StreamBounds, StreamNext, StreamExclusive, HoldsStream
  <1>t. /\ lastSeq \in [Streams -> Nat] /\ seq \in [Clients -> Nat]
        /\ phase \in [Clients -> {"idle", "lookup", "allocate", "insert", "inserted"}]
        /\ req \in [Clients -> Requests]
        /\ events \subseteq Event
    BY DEF TypeOK
  <1>s. \A c \in Clients : req[c].stream \in Streams
    BY RequestTyped
  <1>e. \A e \in events : e.stream \in Streams /\ e.seq \in Nat
    BY StoredTyped
  <1>1. ASSUME NEW c \in Clients, NEW r \in Requests, Begin(c, r)
        PROVE  StreamBounds' /\ StreamNext' /\ StreamExclusive'
    BY <1>1, <1>t DEF Begin
  <1>2. ASSUME NEW c \in Clients, End(c), UNCHANGED <<events, lastSeq, req, seq>>
        PROVE  StreamBounds' /\ StreamNext' /\ StreamExclusive'
    BY <1>2, <1>t DEF End
  <1>3. ASSUME NEW c \in Clients, LookupMisses(c)
        PROVE  StreamBounds' /\ StreamNext' /\ StreamExclusive'
    BY <1>3, <1>t DEF LookupMisses
  <1>4. ASSUME NEW c \in Clients, Allocate(c)
        PROVE  StreamBounds' /\ StreamNext' /\ StreamExclusive'
    <2>1. StreamBounds'
      BY <1>4 DEF Allocate
    <2>2. StreamNext'
      BY <1>4, <1>t, <1>s DEF Allocate
    <2>3. StreamExclusive'
      BY <1>4, <1>t DEF Allocate, StreamLocked
    <2>4. QED
      BY <2>1, <2>2, <2>3
  <1>5. ASSUME NEW c \in Clients, Insert(c)
        PROVE  StreamBounds' /\ StreamNext' /\ StreamExclusive'
    BY <1>5, <1>t DEF Insert
  <1>6. ASSUME NEW c \in Clients, HoldsStream(c), End(c), UNCHANGED <<req, seq>>,
               lastSeq' = [lastSeq EXCEPT ![req[c].stream] = seq[c]]
        PROVE  StreamNext' /\ StreamExclusive'
    <2>1. StreamExclusive'
      BY <1>6, <1>t DEF End
    <2>2. ASSUME NEW d \in Clients, HoldsStream(d)'
          PROVE  seq'[d] = lastSeq'[req'[d].stream] + 1
      <3>1. d # c /\ HoldsStream(d)
        BY <1>6, <1>t, <2>2 DEF End
      <3>2. req[d].stream # req[c].stream
        BY <1>6, <3>1
      <3>3. QED
        BY <1>6, <1>t, <1>s, <3>1, <3>2
    <2>3. QED
      BY <2>1, <2>2
  <1>7. ASSUME NEW c \in Clients, LoseRace(c)
        PROVE  StreamBounds' /\ StreamNext' /\ StreamExclusive'
    <2>1. seq[c] = lastSeq[req[c].stream] + 1
      BY <1>7 DEF LoseRace
    <2>2. StreamBounds'
      BY <1>7, <1>t, <1>s, <1>e, <2>1 DEF LoseRace
    <2>3. StreamNext' /\ StreamExclusive'
      BY <1>6, <1>7 DEF LoseRace
    <2>4. QED
      BY <2>2, <2>3
  <1>8. ASSUME NEW c \in Clients, Commit(c)
        PROVE  StreamBounds' /\ StreamNext' /\ StreamExclusive'
    <2>1. seq[c] = lastSeq[req[c].stream] + 1
      BY <1>8 DEF Commit
    <2>2. NewEvent(c).stream = req[c].stream /\ NewEvent(c).seq = seq[c]
      BY DEF NewEvent
    <2>3. lastSeq' = [lastSeq EXCEPT ![req[c].stream] = seq[c]]
      BY <1>8 DEF Commit
    <2>4. \A e \in events : e.seq <= lastSeq'[e.stream]
      BY <1>t, <1>s, <1>e, <2>1, <2>3
    <2>5. NewEvent(c).seq <= lastSeq'[NewEvent(c).stream]
      BY <1>t, <1>s, <2>2, <2>3
    <2>6. StreamBounds'
      BY <1>8, <2>4, <2>5 DEF Commit
    <2>7. StreamNext' /\ StreamExclusive'
      BY <1>6, <1>8 DEF Commit
    <2>8. QED
      BY <2>6, <2>7
  <1>9. CASE UNCHANGED vars
    BY <1>9 DEF vars, txVars
  <1>10. QED
    BY <1>1, <1>2, <1>3, <1>4, <1>5, <1>7, <1>8, <1>9
       DEF Next, Step, Abort, Replay, ReplayConflict, AllocateConflict,
           LoseRaceConflict, Rollback

\* A stored event has the number after the last one of its stream.
LEMMA AppendStep ==
  ASSUME TypeOK, StreamBounds, StreamNext, [Next]_vars
  PROVE  /\ events \subseteq events'
         /\ \A e \in events' \ events : \A f \in events :
              f.stream = e.stream => f.seq < e.seq
  <1>1. CASE events' = events
    BY <1>1
  <1>2. ASSUME NEW c \in Clients, Commit(c)
        PROVE  /\ events \subseteq events'
               /\ \A e \in events' \ events : \A f \in events :
                    f.stream = e.stream => f.seq < e.seq
    <2>1. events' = events \cup {NewEvent(c)}
      BY <1>2 DEF Commit
    <2>2. /\ NewEvent(c).stream = req[c].stream
          /\ NewEvent(c).seq = lastSeq[req[c].stream] + 1
      BY <1>2 DEF Commit, NewEvent, StreamNext, HoldsStream
    <2>3. ASSUME NEW f \in events, f.stream = NewEvent(c).stream
          PROVE  f.seq < NewEvent(c).seq
      <3>1. f.seq <= lastSeq[req[c].stream]
        BY <2>2, <2>3 DEF StreamBounds
      <3>2. f.seq \in Nat /\ lastSeq[req[c].stream] \in Nat
        BY StoredTyped, RequestTyped DEF TypeOK
      <3>3. QED
        BY <2>2, <3>1, <3>2
    <2>4. QED
      BY <2>1, <2>3
  <1>3. QED
    BY <1>1, <1>2, EventsStep
-----------------------------------------------------------------------------
(* The unique index on the idempotency key                                 *)

LEMMA KeyStep ==
  ASSUME TypeOK, KeyUnique, KeyExclusive, [Next]_vars
  PROVE  KeyUnique' /\ KeyExclusive'
  <1> USE DEF KeyUnique, KeyExclusive
  <1>t. /\ phase \in [Clients -> {"idle", "lookup", "allocate", "insert", "inserted"}]
        /\ req \in [Clients -> Requests]
    BY DEF TypeOK
  <1>1. ASSUME NEW c \in Clients, NEW r \in Requests, Begin(c, r)
        PROVE  KeyUnique' /\ KeyExclusive'
    BY <1>1, <1>t DEF Begin
  <1>2. ASSUME NEW c \in Clients, End(c), UNCHANGED <<events, req>>
        PROVE  KeyUnique' /\ KeyExclusive'
    BY <1>2, <1>t DEF End
  <1>3. ASSUME NEW c \in Clients, LookupMisses(c) \/ Allocate(c)
        PROVE  KeyUnique' /\ KeyExclusive'
    BY <1>3, <1>t DEF LookupMisses, Allocate
  <1>4. ASSUME NEW c \in Clients, Insert(c)
        PROVE  KeyUnique' /\ KeyExclusive'
    <2>1. UNCHANGED <<events, req>> /\ phase' = [phase EXCEPT ![c] = "inserted"]
      BY <1>4 DEF Insert
    <2>2. req[c].key # NoKey => \A e \in events : e.key # req[c].key
      BY <1>4 DEF Insert, KeyTaken
    <2>3. \A d \in Clients \ {c} :
            (req[c].key # NoKey /\ phase[d] = "inserted") => req[d].key # req[c].key
      BY <1>4 DEF Insert, KeyHeld
    <2>4. QED
      BY <1>t, <2>1, <2>2, <2>3
  <1>5. ASSUME NEW c \in Clients, Commit(c)
        PROVE  KeyUnique' /\ KeyExclusive'
    <2>1. /\ events' = events \cup {NewEvent(c)}
          /\ req' = req /\ phase' = [phase EXCEPT ![c] = "idle"]
          /\ phase[c] = "inserted"
      BY <1>5 DEF Commit, End
    <2>2. NewEvent(c).key = req[c].key
      BY DEF NewEvent
    <2>3. KeyUnique'
      BY <2>1, <2>2
    <2>4. KeyExclusive'
      <3>1. ASSUME NEW d \in Clients, phase'[d] = "inserted", req'[d].key # NoKey
            PROVE  /\ \A e \in events' : e.key # req'[d].key
                   /\ \A b \in Clients :
                        (phase'[b] = "inserted" /\ req'[b].key = req'[d].key) => d = b
        <4>1. d # c /\ phase[d] = "inserted"
          BY <1>t, <2>1, <3>1
        <4>2. req[d].key # req[c].key
          BY <2>1, <3>1, <4>1
        <4>3. \A b \in Clients : phase'[b] = "inserted" => phase[b] = "inserted"
          BY <1>t, <2>1
        <4>4. QED
          BY <2>1, <2>2, <3>1, <4>1, <4>2, <4>3
      <3>2. QED
        BY <3>1
    <2>5. QED
      BY <2>3, <2>4
  <1>6. CASE UNCHANGED vars
    BY <1>6 DEF vars, txVars
  <1>7. QED
    BY <1>1, <1>2, <1>3, <1>4, <1>5, <1>6
       DEF Next, Step, Abort, Replay, ReplayConflict, AllocateConflict, LoseRace,
           LoseRaceConflict, Rollback

-----------------------------------------------------------------------------
(* Receipts                                                                *)

\* A receipt that is added is honoured by an event stored after the step.
LEMMA ReceiptStep ==
  ASSUME TypeOK, EventsQueued, ReceiptsHonoured, [Next]_vars
  PROVE  EventsQueued' /\ ReceiptsHonoured'
  <1> USE DEF EventsQueued, ReceiptsHonoured
  <1>1. CASE UNCHANGED <<events, queued, receipts>>
    BY <1>1
  <1>2. ASSUME NEW c \in Clients, NEW x \in BOOLEAN, NEW y \in BOOLEAN,
               NEW e \in Replays(req[c]), e.content = req[c].content,
               Acknowledge(req[c], e, x, y), UNCHANGED <<events, queued>>
        PROVE  EventsQueued' /\ ReceiptsHonoured'
    <2> DEFINE new == [request |-> req[c], event |-> IdOf(e),
                       deduplicated |-> x, queued |-> y]
    <2>1. e \in events /\ e.key = req[c].key
      BY DEF Replays, Visible
    <2>2. Honours(e, new)
      BY <1>2, <2>1 DEF Honours
    <2>3. receipts' = receipts \cup {new}
      BY <1>2 DEF Acknowledge
    <2> HIDE DEF new
    <2>4. QED
      BY <1>2, <2>1, <2>2, <2>3
  <1>3. ASSUME NEW c \in Clients, Replay(c) \/ LoseRace(c)
        PROVE  EventsQueued' /\ ReceiptsHonoured'
    BY <1>2, <1>3 DEF Replay, LoseRace
  <1>4. ASSUME NEW c \in Clients, Commit(c)
        PROVE  EventsQueued' /\ ReceiptsHonoured'
    <2> DEFINE new == [request |-> req[c], event |-> IdOf(NewEvent(c)),
                       deduplicated |-> FALSE, queued |-> TRUE]
    <2>1. /\ events' = events \cup {NewEvent(c)}
          /\ queued' = queued \cup {IdOf(NewEvent(c))}
      BY <1>4 DEF Commit
    <2>2. receipts' = receipts \cup {new}
      BY <1>4 DEF Commit, Acknowledge
    <2>3. Honours(NewEvent(c), new)
      BY DEF Honours, NewEvent, IdOf
    <2> HIDE DEF new
    <2>4. EventsQueued'
      BY <2>1 DEF IdOf
    <2>5. ReceiptsHonoured'
      BY <2>1, <2>2, <2>3
    <2>6. QED
      BY <2>4, <2>5
  <1>5. QED
    BY <1>1, <1>3, <1>4
       DEF Next, Step, Begin, LookupMisses, Allocate, Insert, Abort, ReplayConflict,
           AllocateConflict, LoseRaceConflict, Rollback, vars, txVars

-----------------------------------------------------------------------------
(* The links of the chain                                                  *)

\* What the read of the predecessor finds is the event before, if it can.
LEMMA PrevHashLinks ==
  ASSUME TypeOK, NumberUnique, NEW r \in Request, NEW n \in Nat
  PROVE  LinksTo(r.stream, n, r.scope, PrevHash(r, n))
  <1> DEFINE found == {e \in Visible(r) : e.stream = r.stream /\ e.seq = n - 1}
  <1>1. SUFFICES ASSUME NEW f \in events, f.stream = r.stream, f.seq = n - 1,
                        f.scope \in Reaches[r.scope]
                 PROVE  PrevHash(r, n) = f.content
    BY DEF LinksTo
  <1>2. f \in found
    BY <1>1 DEF Visible
  <1>3. (CHOOSE e \in found : TRUE) \in found
    BY <1>2
  <1>4. (CHOOSE e \in found : TRUE) = f
    BY <1>1, <1>3 DEF Visible, NumberUnique
  <1>5. PrevHash(r, n) = (CHOOSE e \in found : TRUE).content
    BY <1>2 DEF PrevHash
  <1>6. QED
    BY <1>4, <1>5

LEMMA LinkStep ==
  ASSUME TypeOK, StreamBounds, StreamNext, StreamExclusive, NumberUnique, LinksHeld, LinksStored,
         [Next]_vars
  PROVE  NumberUnique' /\ LinksHeld' /\ LinksStored'
  <1>t. /\ phase \in [Clients -> {"idle", "lookup", "allocate", "insert", "inserted"}]
        /\ req \in [Clients -> Requests] /\ seq \in [Clients -> Nat]
        /\ prev \in [Clients -> Contents \cup {NoHash}]
        /\ lastSeq \in [Streams -> Nat]
    BY DEF TypeOK
  <1>s. \A e \in events : e.stream \in Streams /\ e.seq \in Nat
    BY StoredTyped
  <1>1. ASSUME UNCHANGED <<events, seq, prev>>,
               \A c \in Clients : HoldsStream(c)' => HoldsStream(c) /\ req'[c] = req[c]
        PROVE  NumberUnique' /\ LinksHeld' /\ LinksStored'
    BY <1>1 DEF NumberUnique, LinksHeld, LinksStored, LinksTo
  <1>2. ASSUME NEW c \in Clients, NEW r \in Requests, Begin(c, r)
        PROVE  NumberUnique' /\ LinksHeld' /\ LinksStored'
    <2>1. \A d \in Clients : HoldsStream(d)' => HoldsStream(d) /\ req'[d] = req[d]
      BY <1>2, <1>t DEF Begin, HoldsStream
    <2>2. QED
      BY <1>1, <1>2, <2>1 DEF Begin
  <1>3. ASSUME NEW c \in Clients, End(c), UNCHANGED <<events, req, seq, prev>>
        PROVE  NumberUnique' /\ LinksHeld' /\ LinksStored'
    <2>1. \A d \in Clients : HoldsStream(d)' => HoldsStream(d) /\ req'[d] = req[d]
      BY <1>3, <1>t DEF End, HoldsStream
    <2>2. QED
      BY <1>1, <1>3, <2>1
  <1>4. ASSUME NEW c \in Clients, LookupMisses(c) \/ Insert(c)
        PROVE  NumberUnique' /\ LinksHeld' /\ LinksStored'
    <2>1. \A d \in Clients : HoldsStream(d)' => HoldsStream(d) /\ req'[d] = req[d]
      BY <1>4, <1>t DEF LookupMisses, Insert, HoldsStream
    <2>2. QED
      BY <1>1, <1>4, <2>1 DEF LookupMisses, Insert
  <1>5. ASSUME NEW c \in Clients, Allocate(c)
        PROVE  NumberUnique' /\ LinksHeld' /\ LinksStored'
    <2> DEFINE n == lastSeq[req[c].stream] + 1
    <2>1. /\ UNCHANGED <<events, req>>
          /\ seq' = [seq EXCEPT ![c] = n]
          /\ prev' = [prev EXCEPT ![c] = PrevHash(req[c], n)]
          /\ phase' = [phase EXCEPT ![c] = "insert"]
      BY <1>5 DEF Allocate
    <2>2. n \in Nat /\ req[c] \in Request
      BY <1>t, RequestTyped, LedgerAssumption
    <2>3. LinksTo(req[c].stream, n, req[c].scope, PrevHash(req[c], n))
      BY <2>2, PrevHashLinks
    <2> HIDE DEF n
    <2>4. ASSUME NEW d \in Clients, HoldsStream(d)'
          PROVE  LinksTo(req[d].stream, seq[d], req[d].scope, prev[d])'
      <3>1. CASE d = c
        <4>1. seq'[c] = n /\ prev'[c] = PrevHash(req[c], n) /\ req'[c] = req[c]
          BY <1>t, <2>1
        <4>2. QED
          BY <2>1, <2>3, <3>1, <4>1 DEF LinksTo
      <3>2. CASE d # c
        <4>1. /\ seq'[d] = seq[d] /\ prev'[d] = prev[d] /\ req'[d] = req[d]
              /\ HoldsStream(d)
          BY <1>t, <2>1, <2>4, <3>2 DEF HoldsStream
        <4>2. QED
          BY <2>1, <4>1 DEF LinksTo, LinksHeld
      <3>3. QED
        BY <3>1, <3>2
    <2>5. QED
      BY <2>1, <2>4 DEF NumberUnique, LinksHeld, LinksStored, LinksTo
  <1>6. ASSUME NEW c \in Clients, Commit(c)
        PROVE  NumberUnique' /\ LinksHeld' /\ LinksStored'
    <2> DEFINE new == NewEvent(c)
    <2>1. /\ events' = events \cup {new} /\ UNCHANGED <<req, seq, prev>>
          /\ phase' = [phase EXCEPT ![c] = "idle"] /\ HoldsStream(c)
      BY <1>6 DEF Commit, End, HoldsStream
    <2>2. /\ new.stream = req[c].stream /\ new.seq = seq[c] /\ new.prev = prev[c]
          /\ new.scope = req[c].scope
      BY DEF NewEvent
    <2>3. seq[c] = lastSeq[req[c].stream] + 1 /\ lastSeq[req[c].stream] \in Nat
      BY <2>1, <1>t, RequestTyped DEF StreamNext
    <2>4. \A f \in events : f.stream = new.stream => f.seq <= lastSeq[req[c].stream]
      BY <2>2 DEF StreamBounds
    <2> HIDE DEF new
    <2>5. \A f \in events : f.stream = new.stream => f.seq < new.seq
      BY <1>s, <2>2, <2>3, <2>4
    <2>6. NumberUnique'
      BY <2>1, <2>5, <1>s DEF NumberUnique
    <2>7. ASSUME NEW d \in Clients, HoldsStream(d)'
          PROVE  LinksTo(req[d].stream, seq[d], req[d].scope, prev[d])'
      <3>1. d # c /\ HoldsStream(d)
        BY <1>t, <2>1, <2>7 DEF HoldsStream
      <3>2. req[d].stream # new.stream
        BY <2>1, <2>2, <3>1 DEF StreamExclusive
      <3>3. QED
        BY <2>1, <3>1, <3>2 DEF LinksHeld, LinksTo
    <2>8. ASSUME NEW e \in events'
          PROVE  LinksTo(e.stream, e.seq, e.scope, e.prev)'
      <3>1. SUFFICES ASSUME NEW f \in events', f.stream = e.stream, f.seq = e.seq - 1,
                            f.scope \in Reaches[e.scope]
                     PROVE  e.prev = f.content
        BY DEF LinksTo
      <3>2. CASE e \in events /\ f \in events
        BY <3>1, <3>2 DEF LinksStored, LinksTo
      <3>3. CASE e = new /\ f \in events
        BY <2>1, <2>2, <3>1, <3>3 DEF LinksHeld, LinksTo
      <3>4. CASE f = new
        <4>1. new.seq \in Nat
          BY <2>2, <2>3
        <4>2. CASE e \in events
          BY <1>s, <2>5, <3>1, <3>4, <4>1, <4>2
        <4>3. CASE e = new
          BY <3>1, <3>4, <4>1, <4>3
        <4>4. QED
          BY <2>1, <2>8, <4>2, <4>3
      <3>5. QED
        BY <2>1, <2>8, <3>2, <3>3, <3>4
    <2>9. QED
      BY <2>6, <2>7, <2>8 DEF LinksHeld, LinksStored
  <1>7. CASE UNCHANGED vars
    BY <1>1, <1>7 DEF vars, txVars, HoldsStream
  <1>8. QED
    BY <1>2, <1>3, <1>4, <1>5, <1>6, <1>7
       DEF Next, Step, Abort, Replay, ReplayConflict, AllocateConflict, LoseRace,
           LoseRaceConflict, Rollback

LEMMA UnlinkedStep ==
  ASSUME TypeOK, StreamNext, StreamExclusive, UnlinkedHeld, UnlinkedStored, ExpectedHeld,
         [Next]_vars
  PROVE  UnlinkedHeld' /\ UnlinkedStored' /\ ExpectedHeld'
  <1> DEFINE Goal == (UnlinkedHeld /\ UnlinkedStored /\ ExpectedHeld)'
  <1>t. /\ phase \in [Clients -> {"idle", "lookup", "allocate", "insert", "inserted"}]
        /\ req \in [Clients -> Requests] /\ seq \in [Clients -> Nat]
        /\ prev \in [Clients -> Contents \cup {NoHash}]
    BY DEF TypeOK
  <1>1. ASSUME UNCHANGED <<events, seq, prev>>,
               \A c \in Clients : HoldsStream(c)' => HoldsStream(c) /\ req'[c] = req[c]
        PROVE  Goal
    BY <1>1 DEF UnlinkedHeld, UnlinkedStored, ExpectedHeld, Before
  <1>2. ASSUME NEW c \in Clients, NEW r \in Requests, Begin(c, r)
        PROVE  Goal
    <2>1. \A d \in Clients : HoldsStream(d)' => HoldsStream(d) /\ req'[d] = req[d]
      BY <1>2, <1>t DEF Begin, HoldsStream
    <2>2. UNCHANGED <<events, seq, prev>>
      BY <1>2 DEF Begin
    <2>3. QED
      BY <1>1, <2>1, <2>2
  <1>3. ASSUME NEW c \in Clients, End(c), UNCHANGED <<events, req, seq, prev>>
        PROVE  Goal
    <2>1. \A d \in Clients : HoldsStream(d)' => HoldsStream(d) /\ req'[d] = req[d]
      BY <1>3, <1>t DEF End, HoldsStream
    <2>2. QED
      BY <1>1, <1>3, <2>1
  <1>4. ASSUME NEW c \in Clients, LookupMisses(c) \/ Insert(c)
        PROVE  Goal
    <2>1. \A d \in Clients : HoldsStream(d)' => HoldsStream(d) /\ req'[d] = req[d]
      BY <1>4, <1>t DEF LookupMisses, Insert, HoldsStream
    <2>2. UNCHANGED <<events, seq, prev>>
      BY <1>4 DEF LookupMisses, Insert
    <2>3. QED
      BY <1>1, <2>1, <2>2
  <1>5. ASSUME NEW c \in Clients, Allocate(c)
        PROVE  Goal
    <2> DEFINE n == lastSeq[req[c].stream] + 1
    <2>1. /\ UNCHANGED <<events, req>>
          /\ seq' = [seq EXCEPT ![c] = n]
          /\ prev' = [prev EXCEPT ![c] = PrevHash(req[c], n)]
          /\ phase' = [phase EXCEPT ![c] = "insert"]
          /\ req[c].expected \in {NoSeq, n}
      BY <1>5 DEF Allocate
    <2>2. Before(req[c].stream, n, req[c].scope) = {} => PrevHash(req[c], n) = NoHash
      BY DEF Before, PrevHash, Visible
    <2> HIDE DEF n
    <2>3. ASSUME NEW d \in Clients, HoldsStream(d)'
          PROVE  /\ Before(req[d].stream, seq'[d], req[d].scope) = {} => prev'[d] = NoHash
                 /\ req[d].expected \in {NoSeq, seq'[d]}
      <3>1. CASE d = c
        BY <1>t, <2>1, <2>2, <3>1
      <3>2. CASE d # c
        BY <1>t, <2>1, <2>3, <3>2 DEF HoldsStream, UnlinkedHeld, ExpectedHeld
      <3>3. QED
        BY <3>1, <3>2
    <2>4. QED
      BY <2>1, <2>3 DEF UnlinkedHeld, UnlinkedStored, ExpectedHeld, Before
  <1>6. ASSUME NEW c \in Clients, Commit(c)
        PROVE  Goal
    <2> DEFINE new == NewEvent(c)
    <2>1. /\ events' = events \cup {new} /\ UNCHANGED <<req, seq, prev>>
          /\ phase' = [phase EXCEPT ![c] = "idle"] /\ HoldsStream(c)
      BY <1>6 DEF Commit, End, HoldsStream
    <2>2. /\ new.stream = req[c].stream /\ new.seq = seq[c] /\ new.prev = prev[c]
          /\ new.scope = req[c].scope
      BY DEF NewEvent
    <2> HIDE DEF new
    <2>3. \A d \in Clients : HoldsStream(d)' => d # c /\ HoldsStream(d)
      BY <1>t, <2>1 DEF HoldsStream
    <2>4. ASSUME NEW s, NEW k, NEW w
          PROVE  Before(s, k, w) \subseteq Before(s, k, w)'
      BY <2>1 DEF Before
    <2>5. UnlinkedHeld' /\ ExpectedHeld'
      BY <2>1, <2>3, <2>4 DEF UnlinkedHeld, ExpectedHeld
    <2>6. UnlinkedStored'
      <3>1. ASSUME NEW e \in events', Before(e.stream, e.seq, e.scope)' = {}
            PROVE  e.prev = NoHash
        <4>1. Before(e.stream, e.seq, e.scope) = {}
          BY <2>4, <3>1
        <4>2. CASE e \in events
          BY <4>1, <4>2 DEF UnlinkedStored
        <4>3. CASE e = new
          BY <2>1, <2>2, <4>1, <4>3 DEF UnlinkedHeld
        <4>4. QED
          BY <2>1, <4>2, <4>3
      <3>2. QED
        BY <3>1 DEF UnlinkedStored
    <2>7. QED
      BY <2>5, <2>6
  <1>7. CASE UNCHANGED vars
    BY <1>1, <1>7 DEF vars, txVars, HoldsStream
  <1>8. Goal
    BY <1>2, <1>3, <1>4, <1>5, <1>6, <1>7
       DEF Next, Step, Abort, Replay, ReplayConflict, AllocateConflict, LoseRace,
           LoseRaceConflict, Rollback
  <1>9. QED
    BY <1>8

-----------------------------------------------------------------------------
(* verifyChain, on the rows S of one stream                                *)

\* Rows of one stream that are numbered like an append numbers them.
Chain(S) ==
  /\ \A e \in S : e \in Event
  /\ \A e, f \in S : e.seq = f.seq => e = f
  /\ \A e, f \in S : f.seq = e.seq - 1 => e.prev = f.content
  /\ \A e \in S : e.seq = 1 => e.prev = NoHash
  /\ Dense(S)

LEMMA SmallestNumber ==
  ASSUME NEW T \in SUBSET Nat, T # {}
  PROVE  \E n \in T : \A k \in T : n <= k
  <1>1. PICK n \in T : \A k \in T : ~(<<k, n>> \in OpToRel(<, Nat))
    BY WFMin, NatLessThanWellFounded
  <1>2. \A k \in T : ~(k < n)
    BY <1>1 DEF OpToRel
  <1>3. QED
    BY <1>2

\* Below every number of a dense set of rows there is the next smaller one.
LEMMA PredIsBefore ==
  ASSUME NEW S, \A f \in S : f.seq \in Nat, NEW e \in S, NEW p \in S,
         p.seq = e.seq - 1
  PROVE  Pred(e, S) \in S /\ Pred(e, S).seq = e.seq - 1
  <1>1. p.seq < e.seq /\ \A f \in S : f.seq < e.seq => f.seq <= p.seq
    OBVIOUS
  <1>2. PICK q \in S : /\ Pred(e, S) = q
                       /\ q.seq < e.seq
                       /\ \A f \in S : f.seq < e.seq => f.seq <= q.seq
    BY <1>1 DEF Pred
  <1>3. p.seq <= q.seq
    BY <1>1, <1>2
  <1>4. QED
    BY <1>2, <1>3

\* The rows a sequence of appends leaves behind are accepted.
LEMMA ChainAccepted ==
  ASSUME NEW S, Chain(S)
  PROVE  VerifyChain(S, 1)
  <1>1. \A f \in S : f.seq \in Nat \ {0}
    BY DEF Chain, Event
  <1>2. {f \in S : f.seq >= 1} = S
    BY <1>1
  <1>3. ASSUME NEW e \in S, IsFirst(e, S)
        PROVE  e.prev = NoHash
    <2>1. e.seq = 1
      BY <1>1, <1>3 DEF IsFirst, Chain, Dense
    <2>2. QED
      BY <2>1 DEF Chain
  <1>4. ASSUME NEW e \in S, ~IsFirst(e, S)
        PROVE  e.prev = ExpectedAfter(Pred(e, S), S, 1)
    <2>1. e.seq # 1
      BY <1>1, <1>4 DEF IsFirst
    <2>2. PICK p \in S : p.seq = e.seq - 1
      BY <2>1 DEF Chain, Dense
    <2>3. Pred(e, S) \in S /\ Pred(e, S).seq = e.seq - 1
      BY <1>1, <2>2, PredIsBefore
    <2>4. e.prev = Pred(e, S).content
      BY <2>3 DEF Chain
    <2>5. QED
      BY <2>4 DEF ExpectedAfter
  <1>5. QED
    BY <1>2, <1>3, <1>4 DEF VerifyChain

\* A row that has a later one has a next one.
LEMMA NextExists ==
  ASSUME NEW S, Chain(S), NEW e \in S, NEW f \in S, f.seq > e.seq
  PROVE  \E g \in S : g.seq = e.seq + 1
  <1> DEFINE T == {h.seq : h \in {k \in S : k.seq > e.seq}}
  <1>1. \A k \in S : k.seq \in Nat \ {0}
    BY DEF Chain, Event
  <1>2. T \in SUBSET Nat /\ T # {}
    BY <1>1
  <1>3. PICK n \in T : \A k \in T : n <= k
    BY <1>2, SmallestNumber
  <1>4. PICK g \in S : g.seq = n /\ g.seq > e.seq
    BY <1>3
  <1>5. PICK h \in S : h.seq = g.seq - 1
    BY <1>1, <1>4 DEF Chain, Dense
  <1>6. ~(h.seq > e.seq)
    <2>1. SUFFICES ASSUME h.seq > e.seq PROVE FALSE
      OBVIOUS
    <2>2. h.seq \in T
      BY <2>1
    <2>3. g.seq <= h.seq
      BY <1>3, <1>4, <2>2
    <2>4. QED
      BY <1>1, <1>5, <2>3
  <1>7. QED
    BY <1>1, <1>4, <1>5, <1>6

\* Changing the content of a row that has a successor is noticed.
LEMMA RewriteRejected ==
  ASSUME NEW S, Chain(S), NEW e \in S, NEW x, x # e.content,
         NEW f \in S, f.seq > e.seq
  PROVE  ~VerifyChain(Rewrite(S, e, x), 1)
  <1> DEFINE d == [e EXCEPT !.content = x]
             W == Rewrite(S, e, x)
  <1>1. PICK g \in S : g.seq = e.seq + 1
    BY NextExists
  <1>2. e \in Event /\ \A k \in S : k.seq \in Nat \ {0}
    BY DEF Chain, Event
  <1>3. d.seq = e.seq /\ d.content = x
    BY <1>2 DEF Event
  <1>4. d \in W /\ g \in W /\ \A k \in W : k = d \/ (k \in S /\ k # e)
    BY <1>1, <1>2 DEF Rewrite
  <1> HIDE DEF d, W
  <1>5. \A k \in W : k.seq \in Nat \ {0}
    BY <1>2, <1>3, <1>4
  <1>6. {k \in W : k.seq >= 1} = W
    BY <1>5
  <1>7. ~IsFirst(g, W)
    BY <1>1, <1>2, <1>3, <1>4 DEF IsFirst
  <1>8. Pred(g, W) \in W /\ Pred(g, W).seq = g.seq - 1
    <2>1. d.seq = g.seq - 1
      BY <1>1, <1>2, <1>3
    <2>2. QED
      BY <1>4, <1>5, <2>1, PredIsBefore
  <1>9. Pred(g, W) = d
    BY <1>1, <1>2, <1>4, <1>8 DEF Chain
  <1>10. ExpectedAfter(Pred(g, W), W, 1) = x
    BY <1>3, <1>9 DEF ExpectedAfter
  <1>11. g.prev = e.content
    BY <1>1, <1>2 DEF Chain
  <1>12. ~VerifyChain(W, 1)
    BY <1>4, <1>6, <1>7, <1>10, <1>11 DEF VerifyChain
  <1>13. QED
    BY <1>12 DEF W

-----------------------------------------------------------------------------
(* The theorems                                                            *)

LEMMA InitInvariant == Init => IInv
  <1> SUFFICES ASSUME Init PROVE IInv
    OBVIOUS
  <1>1. TypeOK
    BY LedgerAssumption DEF Init, TypeOK
  <1>2. StreamBounds /\ KeyUnique /\ EventsQueued /\ ReceiptsHonoured
    BY DEF Init, StreamBounds, KeyUnique, EventsQueued, ReceiptsHonoured
  <1>3. StreamNext /\ StreamExclusive /\ KeyExclusive
    BY DEF Init, StreamNext, StreamExclusive, KeyExclusive, HoldsStream
  <1>4. NumberUnique /\ LinksHeld /\ LinksStored
    BY DEF Init, NumberUnique, LinksHeld, LinksStored, LinksTo, HoldsStream
  <1>5. UnlinkedHeld /\ UnlinkedStored /\ ExpectedHeld
    BY DEF Init, UnlinkedHeld, UnlinkedStored, ExpectedHeld, HoldsStream
  <1>6. QED
    BY <1>1, <1>2, <1>3, <1>4, <1>5 DEF IInv

LEMMA StepInvariant == IInv /\ [Next]_vars => IInv'
  <1> SUFFICES ASSUME IInv, [Next]_vars PROVE IInv'
    OBVIOUS
  <1>1. TypeOK'
    BY TypeStep DEF IInv
  <1>2. StreamBounds' /\ StreamNext' /\ StreamExclusive'
    BY <1>1, StreamStep DEF IInv
  <1>3. KeyUnique' /\ KeyExclusive'
    BY KeyStep DEF IInv
  <1>4. EventsQueued' /\ ReceiptsHonoured'
    BY ReceiptStep DEF IInv
  <1>5. NumberUnique' /\ LinksHeld' /\ LinksStored'
    BY LinkStep DEF IInv
  <1>6. UnlinkedHeld' /\ UnlinkedStored' /\ ExpectedHeld'
    BY UnlinkedStep DEF IInv
  <1>7. QED
    BY <1>1, <1>2, <1>3, <1>4, <1>5, <1>6 DEF IInv

LEMMA Invariant == Spec => []IInv
  <1>1. QED
    BY InitInvariant, StepInvariant, PTL DEF Spec

\* The type invariant holds for any number of concurrent appends: in
\* particular no stored event has sequence zero.
THEOREM TypeCorrect == Spec => []TypeOK
  <1>1. IInv => TypeOK
    BY DEF IInv
  <1>2. QED
    BY <1>1, Invariant, PTL

\* Whoever is acknowledged, as the writer, by a replay or as the loser of a
\* race, is told of an event that is stored and queued for extraction.
THEOREM AcknowledgementsAreDurable == Spec => []AcknowledgedIsDurable
  <1>1. IInv => AcknowledgedIsDurable
    BY DEF IInv, AcknowledgedIsDurable, ReceiptsHonoured, EventsQueued, Honours
  <1>2. QED
    BY <1>1, Invariant, PTL

\* One key, one event, whatever streams and scopes present the key.
THEOREM KeysAreIdempotent == Spec => []KeyNamesOneEvent
  <1>1. IInv => KeyNamesOneEvent
    BY DEF IInv, KeyNamesOneEvent, ReceiptsHonoured, KeyUnique, Honours
  <1>2. QED
    BY <1>1, Invariant, PTL

\* Streams only grow at their end.
THEOREM StreamsGrowAtTheEnd == Spec => AppendsInOrder
  <1>1. IInv /\ [Next]_vars =>
          [/\ events \subseteq events'
           /\ \A e \in events' \ events : \A f \in events :
                f.stream = e.stream => f.seq < e.seq]_vars
    BY AppendStep DEF IInv
  <1>2. QED
    BY <1>1, Invariant, PTL DEF Spec, AppendsInOrder

\* Every event whose writer could see the one before it is linked to it.
THEOREM ChainsLink == Spec => []LinksReachPredecessors
  <1>1. IInv => LinksReachPredecessors
    BY DEF IInv, LinksStored, LinksTo, LinksReachPredecessors
  <1>2. QED
    BY <1>1, Invariant, PTL

\* verifyChain accepts what any number of concurrent appends leave behind, and
\* sees a change of any event but the last, for streams without a gap whose
\* writers could see each other's events.
THEOREM ChainsAreVerified == Spec => []ChainVerdict
  <1>1. IInv => ChainVerdict
    <2>1. SUFFICES ASSUME IInv, NEW s \in Streams, Dense(Rows(s)), OneReach(Rows(s))
                   PROVE  /\ VerifyChain(Rows(s), 1)
                          /\ \A e \in Rows(s), x \in Contents :
                               (x # e.content /\ \E f \in Rows(s) : f.seq > e.seq)
                                 => ~VerifyChain(Rewrite(Rows(s), e, x), 1)
      BY DEF ChainVerdict
    <2>2. Chain(Rows(s))
      <3>1. \A e \in Rows(s) : e \in events /\ e \in Event /\ e.stream = s
        BY <2>1 DEF IInv, TypeOK, Rows
      <3>2. \A e, f \in Rows(s) : e.seq = f.seq => e = f
        BY <2>1, <3>1 DEF IInv, NumberUnique
      <3>3. \A e, f \in Rows(s) : f.seq = e.seq - 1 => e.prev = f.content
        BY <2>1, <3>1 DEF IInv, LinksStored, LinksTo, OneReach
      <3>4. \A e \in Rows(s) : e.seq = 1 => e.prev = NoHash
        <4>1. SUFFICES ASSUME NEW e \in Rows(s), e.seq = 1
                       PROVE  e.prev = NoHash
          OBVIOUS
        <4>2. Before(e.stream, e.seq, e.scope) = {}
          BY <2>1, <4>1, StoredTyped DEF IInv, Before
        <4>3. QED
          BY <2>1, <3>1, <4>2 DEF IInv, UnlinkedStored
      <3>5. QED
        BY <2>1, <3>1, <3>2, <3>3, <3>4 DEF Chain
    <2>3. QED
      BY <2>2, ChainAccepted, RewriteRejected
  <1>2. QED
    BY <1>1, Invariant, PTL

-----------------------------------------------------------------------------
(* The ledger implements EventLog                                          *)

\* The commit of a transaction is the append that it promised when it took
\* the stream row and the key.
LEMMA CommitAppends ==
  ASSUME IInv, NEW c \in Clients, Commit(c)
  PROVE  Promise!Append(req[c])
  <1> DEFINE r == req[c]
             n == lastSeq[r.stream] + 1
  <1>1. HoldsStream(c) /\ phase[c] = "inserted"
    BY DEF Commit, HoldsStream
  <1>2. seq[c] = n
    BY <1>1 DEF IInv, StreamNext
  <1>3. r.key = NoKey \/ \A e \in events : e.key # r.key
    BY <1>1 DEF IInv, KeyExclusive
  <1>4. r.expected \in {NoSeq, n}
    BY <1>1, <1>2 DEF IInv, ExpectedHeld
  <1>5. prev[c] \in Contents \cup {NoHash}
    BY DEF IInv, TypeOK
  <1>6. Promise!Links(prev[c], r, n)
    <2> DEFINE before == {e \in Promise!InReach(r) : e.stream = r.stream /\ e.seq = n - 1}
    <2>1. before = Before(r.stream, n, r.scope)
      BY DEF Promise!InReach, Before
    <2>2. before = {} => prev[c] = NoHash
      BY <1>1, <1>2, <2>1 DEF IInv, UnlinkedHeld
    <2>3. \A e \in before : prev[c] = e.content
      BY <1>1, <1>2, <2>1 DEF IInv, LinksHeld, LinksTo, Before
    <2>4. QED
      BY <2>2, <2>3 DEF Promise!Links
  <1>7. NewEvent(c) = [stream |-> r.stream, seq |-> n, key |-> r.key,
                       content |-> r.content, scope |-> r.scope, prev |-> prev[c]]
    BY <1>2 DEF NewEvent
  <1>8. IdOf(NewEvent(c)) = <<r.stream, n>>
    BY <1>7 DEF IdOf
  <1>9. /\ events' = events \cup {NewEvent(c)}
        /\ queued' = queued \cup {<<r.stream, n>>}
        /\ lastSeq' = [lastSeq EXCEPT ![r.stream] = n]
        /\ Promise!Tell(r, <<r.stream, n>>, FALSE, TRUE)
    BY <1>2, <1>8 DEF Commit, Acknowledge, Promise!Tell
  <1> HIDE DEF r, n
  <1>10. QED
    BY <1>3, <1>4, <1>5, <1>6, <1>7, <1>9 DEF Promise!Append, r, n

\* A replay and a lost race tell of the event that has the key.
LEMMA ReplayRepeats ==
  ASSUME IInv, NEW c \in Clients, NEW x \in BOOLEAN, UNCHANGED <<events, queued>>,
         \E e \in Replays(req[c]) : e.content = req[c].content /\ Acknowledge(req[c], e, TRUE, x),
         \/ lastSeq' = lastSeq
         \/ lastSeq' = [lastSeq EXCEPT ![req[c].stream] = lastSeq[req[c].stream] + 1]
  PROVE  Promise!Repeat(req[c], x)
  <1>1. PICK e \in Replays(req[c]) :
          e.content = req[c].content /\ Acknowledge(req[c], e, TRUE, x)
    OBVIOUS
  <1>2. e \in Promise!InReach(req[c]) /\ req[c].key # NoKey /\ e.key = req[c].key
    BY DEF Replays, Visible, Promise!InReach
  <1>3. Promise!Tell(req[c], <<e.stream, e.seq>>, TRUE, x)
    BY <1>1 DEF Acknowledge, IdOf, Promise!Tell
  <1>4. QED
    BY <1>1, <1>2, <1>3 DEF Promise!Repeat

\* Whatever statements of appends interleave, wait, lose and roll back: their
\* callers see a log on which appends happen one at a time.
THEOREM LedgerImplementsEventLog == Spec => ImplementsEventLog
  <1>1. Init => Promise!Init
    BY DEF Init, Promise!Init
  <1>2. IInv /\ [Next]_vars => [Promise!Next]_(Promise!vars)
    <2>1. SUFFICES ASSUME IInv, [Next]_vars PROVE [Promise!Next]_(Promise!vars)
      OBVIOUS
    <2>2. \A c \in Clients : req[c] \in Requests
      BY <2>1 DEF IInv, TypeOK
    <2>3. ASSUME NEW c \in Clients, Commit(c) PROVE Promise!Next
      BY <2>1, <2>2, <2>3, CommitAppends DEF Promise!Next
    <2>4. ASSUME NEW c \in Clients, Replay(c) PROVE Promise!Next
      <3>1. Promise!Repeat(req[c], TRUE)
        BY <2>1, <2>4, ReplayRepeats DEF Replay
      <3>2. QED
        BY <2>2, <3>1 DEF Promise!Next
    <2>5. ASSUME NEW c \in Clients, LoseRace(c) PROVE Promise!Next
      <3>1. seq[c] = lastSeq[req[c].stream] + 1
        BY <2>1, <2>5 DEF IInv, StreamNext, LoseRace, HoldsStream
      <3>2. Promise!Repeat(req[c], FALSE)
        BY <2>1, <2>5, <3>1, ReplayRepeats DEF LoseRace
      <3>3. QED
        BY <2>2, <3>2 DEF Promise!Next
    <2>6. CASE UNCHANGED <<events, lastSeq, queued, receipts>>
      BY <2>6 DEF Promise!vars
    <2>7. QED
      BY <2>1, <2>3, <2>4, <2>5, <2>6
         DEF Next, Step, Begin, LookupMisses, Allocate, Insert, Abort, ReplayConflict,
             AllocateConflict, LoseRaceConflict, Rollback, vars
  <1>3. QED
    BY <1>1, <1>2, Invariant, PTL DEF Spec, ImplementsEventLog, Promise!Spec
=============================================================================
