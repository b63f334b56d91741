------------------------------- MODULE Agent -------------------------------
(***************************************************************************)
(* What an agent writes: the LangGraph nodes and hooks (packages/          *)
(* langgraph-js/src/nodes.ts, hooks.ts), its store (store.ts) and the      *)
(* add() of the SDK (packages/sdk-ts/src/facade.ts), over HTTP clients     *)
(* that give up after a timeout and never send again themselves.  The      *)
(* graph runs a failed node again from its start.  A request that was      *)
(* given up may still reach the server, then or later, or never.           *)
(*                                                                         *)
(* The server is the ledger's answer to one append: Ledger.tla has the     *)
(* transactions behind it.                                                 *)
(***************************************************************************)
EXTENDS Naturals, Sequences

CONSTANTS
  Runs,                 \* a node, a batch of the store, or an add, each
  Kind,                 \* which of these a run is
  Payloads,             \* a tool call's output, a transcript, a value put
  Writes,               \* what a run writes, in its order
  Pinned,               \* the runs whose caller says when it occurred
  MaxTime,              \* bound on the clock
  MaxFaults             \* bound on the requests given up

Kinds == {"observe", "propose", "batch", "add", "keyless add"}

\* The keys of a transcript and its proposals hold the id of their run.
ASSUME AgentAssumption ==
  /\ Kind \in [Runs -> Kinds]
  /\ Writes \in [Runs -> Seq(Payloads)]
  /\ Pinned \subseteq Runs
  /\ MaxTime \in Nat /\ MaxFaults \in Nat
  /\ \A r, s \in Runs : Kind[r] = "propose" =>
       \A k \in 1..Len(Writes[r]), h \in 1..Len(Writes[s]) :
         Writes[r][k] = Writes[s][h] => r = s /\ k = h

VARIABLES
  log,                  \* the events of the ledger, in order
  wire,                 \* requests given up that have not reached the server
  run,                  \* the progress of every run
  clock,
  faults                \* requests given up so far

vars == <<log, wire, run, clock, faults>>

NoAnswer == [status |-> "none", seq |-> 0]

IdleRun == [pc |-> "idle", at |-> 1, stamp |-> 0, answer |-> NoAnswer,
            receipts |-> <<>>, failed |-> {}, kept |-> <<>>, sent |-> 0]

Init ==
  /\ log = <<>>
  /\ wire = {}
  /\ run = [r \in Runs |-> IdleRun]
  /\ clock = 0
  /\ faults = 0

-----------------------------------------------------------------------------
Timeless(r) == Kind[r] \in {"add", "keyless add"}

\* A mistake: the time the caller gave is passed over.
StampedNow(r, now) == IF Timeless(r) THEN 0 ELSE now

\* Every envelope but that of add() holds the time of its occurrence, which
\* is the clock's unless the caller gave one.
Stamp(r, now) == IF r \in Pinned \/ Timeless(r) THEN 0 ELSE now

Keyed(r) == Kind[r] # "keyless add"

\* A mistake: the idempotency key takes in the time.
StampedKey(payload, stamp) == <<payload, stamp>>

\* The idempotency key comes of what is written, never of when.
Key(payload, stamp) == <<payload>>

Request(r, stamp, n) ==
  [payload |-> Writes[r][run[r].at], stamp |-> stamp, keyed |-> Keyed(r), no |-> n]

\* Ledger.append: the event that has the key already.
Holders(q) ==
  {i \in 1..Len(log) :
     /\ q.keyed /\ log[i].keyed
     /\ Key(log[i].payload, log[i].stamp) = Key(q.payload, q.stamp)}

Event(q) == [payload |-> q.payload, stamp |-> q.stamp, keyed |-> q.keyed]

Appended(q) == IF Holders(q) = {} THEN Append(log, Event(q)) ELSE log

AnswerTo(q) ==
  IF Holders(q) = {} THEN [status |-> "recorded", seq |-> Len(log) + 1]
  ELSE LET i == CHOOSE j \in Holders(q) : TRUE
       IN [status |-> IF log[i].stamp = q.stamp THEN "recorded" ELSE "conflict", seq |-> i]

-----------------------------------------------------------------------------
Active(r) == run[r].pc \in {"ready", "waiting", "answered"}

\* A loop over the items: where it stands after an item is dealt with.
Advanced(r, to) ==
  LET next == [to EXCEPT !.at = @ + 1, !.answer = NoAnswer, !.sent = 0] IN
  IF next.at <= Len(Writes[r]) THEN [next EXCEPT !.pc = "ready"]
  ELSE IF next.failed = {} THEN [IdleRun EXCEPT !.pc = "done", !.kept = next.receipts]
  ELSE [IdleRun EXCEPT !.pc = "failed"]

\* A mistake: a loop passes over the item that failed.
Skipped(r) == Advanced(r, [run[r] EXCEPT !.failed = @ \cup {run[r].at}])

\* A mistake: no answer is taken for an answer.
PresumedDone(r) == Advanced(r, [run[r] EXCEPT !.receipts = Append(@, Len(log))])

\* The first failure ends a hook; the store's batch notes it and goes on.
Failed(r) ==
  IF Kind[r] = "batch" THEN Advanced(r, [run[r] EXCEPT !.failed = @ \cup {run[r].at}])
  ELSE [IdleRun EXCEPT !.pc = "failed"]

\* The graph runs a node, for the first time or again after it threw: the
\* receipts of an attempt that failed are gone with it.
Begin(r) ==
  /\ run[r].pc \in {"idle", "failed"}
  /\ run' = [run EXCEPT ![r] = [IdleRun EXCEPT !.pc = IF Writes[r] = <<>> THEN "done" ELSE "ready",
                                               !.stamp = IF Kind[r] = "propose" THEN Stamp(r, clock) ELSE 0]]
  /\ UNCHANGED <<log, wire, clock, faults>>

\* afterRun reads the clock once, afterTool and put for every item.
SendStamp(r) == IF Kind[r] = "propose" THEN run[r].stamp ELSE Stamp(r, clock)

Send(r) ==
  /\ run[r].pc = "ready"
  /\ run' = [run EXCEPT ![r].pc = "waiting", ![r].sent = SendStamp(r)]
  /\ UNCHANGED <<log, wire, clock, faults>>

\* The server answers while the client waits.
Serve(r) ==
  LET q == Request(r, run[r].sent, 0) IN
  /\ run[r].pc = "waiting"
  /\ log' = Appended(q)
  /\ run' = [run EXCEPT ![r].pc = "answered", ![r].answer = AnswerTo(q)]
  /\ UNCHANGED <<wire, clock, faults>>

Receipted(r) == [run[r] EXCEPT !.receipts = Append(@, run[r].answer.seq)]

Receive(r) ==
  /\ run[r].pc = "answered"
  /\ run' = [run EXCEPT ![r] = IF run[r].answer.status = "recorded"
                               THEN Advanced(r, Receipted(r)) ELSE Failed(r)]
  /\ UNCHANGED <<log, wire, clock, faults>>

\* The timeout of fetch, a lost connection, or the end of the process: the
\* client has no answer, whether or not the server had the request.
GiveUp(r) ==
  /\ run[r].pc \in {"waiting", "answered"}
  /\ faults < MaxFaults
  /\ faults' = faults + 1
  /\ wire' = IF run[r].pc = "waiting" THEN wire \cup {Request(r, run[r].sent, faults')} ELSE wire
  /\ run' = [run EXCEPT ![r] = Failed(r)]
  /\ UNCHANGED <<log, clock>>

\* A request nobody waits for any more reaches the server.
ArriveLate(q) ==
  /\ q \in wire
  /\ wire' = wire \ {q}
  /\ log' = Appended(q)
  /\ UNCHANGED <<run, clock, faults>>

Tick ==
  /\ clock < MaxTime
  /\ clock' = clock + 1
  /\ UNCHANGED <<log, wire, run, faults>>

Step(r) == Begin(r) \/ Send(r) \/ Serve(r) \/ Receive(r)

Next ==
  \/ \E r \in Runs : Step(r) \/ GiveUp(r)
  \/ \E q \in wire : ArriveLate(q)
  \/ Tick

Spec == Init /\ [][Next]_vars

\* Graphs go on with their nodes and servers with their requests.  Nothing
\* makes a request that was given up arrive.
FairSpec == Spec /\ \A r \in Runs : WF_vars(Step(r))

-----------------------------------------------------------------------------
Positions(r) == 1..Len(Writes[r])

Events == [payload : Payloads, stamp : 0..MaxTime, keyed : BOOLEAN]

Requests == [payload : Payloads, stamp : 0..MaxTime, keyed : BOOLEAN, no : 1..MaxFaults]

RunStates ==
  [pc : {"idle", "ready", "waiting", "answered", "done", "failed"},
   at : Nat, stamp : 0..MaxTime, sent : 0..MaxTime,
   answer : [status : {"none", "recorded", "conflict"}, seq : Nat],
   receipts : Seq(Nat), kept : Seq(Nat), failed : SUBSET Nat]

\* The ledger, the requests under way and the loops of the runs are well
\* formed, and no loop is past its last item.
TypeOK ==
  /\ log \in Seq(Events)
  /\ wire \subseteq Requests
  /\ run \in [Runs -> RunStates]
  /\ clock \in 0..MaxTime /\ faults \in 0..MaxFaults
  /\ \A r \in Runs : Active(r) => run[r].at \in Positions(r)

\* However often a node is run again and whenever a request that was given up
\* arrives, what is written with a key is one event ("a retried node appends
\* duplicate observations" without one, hooks.ts 194).
KeyedOnce ==
  \A i, j \in 1..Len(log) :
    log[i].keyed /\ log[j].keyed /\ log[i].payload = log[j].payload => i = j

\* A run that reports success has a receipt for each of its writes, and each
\* names the event that holds it: a timeout is never taken for one
\* (client.ts 196-206).
ReceiptsNameTheirEvents ==
  \A r \in Runs : run[r].pc = "done" =>
    /\ Len(run[r].kept) = Len(Writes[r])
    /\ \A i \in Positions(r) :
         /\ run[r].kept[i] \in 1..Len(log)
         /\ log[run[r].kept[i]].payload = Writes[r][i]

Recorded(payload, before) == \E i \in 1..before : log[i].keyed /\ log[i].payload = payload

\* The proposals of a run are recorded in their order and never without the
\* transcript they conclude from, whichever attempts the events come from
\* (afterRun, hooks.ts 348-385).
ProposalsFollowTheTranscript ==
  \A r \in Runs : Kind[r] = "propose" =>
    \A i \in 1..Len(log) : \A k \in Positions(r) :
      log[i].keyed /\ log[i].payload = Writes[r][k] =>
        \A h \in 1..(k - 1) : Recorded(Writes[r][h], i)

\* A run whose writes say the same at every attempt comes to an end, with
\* everything it writes recorded.
SteadyRunsFinish ==
  \A r \in Runs : (r \in Pinned \/ Timeless(r)) => <>(run[r].pc = "done")

-----------------------------------------------------------------------------
\* "An identical rewrite is deduplicated, which is what makes the call safe
\* under a retried graph node" (store.ts 264-265): what a run writes never
\* meets an earlier attempt of its own as a conflict.
RetryIsDeduplicated == \A r \in Runs : run[r].answer.status # "conflict"
=============================================================================
