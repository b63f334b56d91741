------------------------------ MODULE EventLog ------------------------------
(***************************************************************************)
(* What the evidence ledger promises its callers, independently of         *)
(* transactions, locks and retries: an append happens at one instant, with *)
(* the next number of its stream, the number the caller expected if it     *)
(* expected one, and a link to the event before it as far as its scope     *)
(* reaches that; the event is announced for extraction at the same         *)
(* instant; and a request whose key is in use is told of the event that    *)
(* has it, if it can see that event and sent the same content.  A request  *)
(* that is refused leaves nothing behind.  A repeated request may waste a  *)
(* number.                                                                 *)
(***************************************************************************)
EXTENDS Naturals

CONSTANTS
  Streams, Contents, Requests,
  Reaches,              \* Reaches[s]: scopes whose rows a request in s can see
  NoKey, NoSeq, NoHash  \* an absent key, expected_seq, prev_hash

VARIABLES
  events,               \* the events there are
  lastSeq,              \* Streams -> the last number given out
  queued,               \* the events announced for extraction
  receipts              \* what callers were told

vars == <<events, lastSeq, queued, receipts>>

Init ==
  /\ events = {} /\ queued = {} /\ receipts = {}
  /\ lastSeq = [s \in Streams |-> 0]

InReach(r) == {e \in events : e.scope \in Reaches[r.scope]}

Links(hash, r, n) ==
  LET before == {e \in InReach(r) : e.stream = r.stream /\ e.seq = n - 1}
  IN  IF before = {} THEN hash = NoHash ELSE \A e \in before : hash = e.content

Tell(r, id, deduplicated, extraction) ==
  receipts' = receipts \cup {[request |-> r, event |-> id,
                              deduplicated |-> deduplicated, queued |-> extraction]}

Append(r) ==
  LET n == lastSeq[r.stream] + 1 IN
  /\ r.key = NoKey \/ \A e \in events : e.key # r.key
  /\ r.expected \in {NoSeq, n}
  /\ \E hash \in Contents \cup {NoHash} :
       /\ Links(hash, r, n)
       /\ events' = events \cup {[stream |-> r.stream, seq |-> n, key |-> r.key,
                                  content |-> r.content, scope |-> r.scope,
                                  prev |-> hash]}
  /\ lastSeq' = [lastSeq EXCEPT ![r.stream] = n]
  /\ queued' = queued \cup {<<r.stream, n>>}
  /\ Tell(r, <<r.stream, n>>, FALSE, TRUE)

\* "extraction" tells whether the ledger says that extraction is under way.
Repeat(r, extraction) ==
  /\ r.key # NoKey
  /\ \E e \in InReach(r) :
       /\ e.key = r.key /\ e.content = r.content
       /\ Tell(r, <<e.stream, e.seq>>, TRUE, extraction)
  /\ lastSeq' \in {lastSeq, [lastSeq EXCEPT ![r.stream] = @ + 1]}
  /\ UNCHANGED <<events, queued>>

Next == \E r \in Requests : Append(r) \/ \E x \in BOOLEAN : Repeat(r, x)

Spec == Init /\ [][Next]_vars
=============================================================================
