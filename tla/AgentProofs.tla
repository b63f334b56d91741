---------------------------- MODULE AgentProofs ----------------------------
(***************************************************************************)
(* What a client can rely on after timeouts and retries, for any number of *)
(* runs, writes and lost requests.  The inductive invariant adds to the    *)
(* type invariant what a loop knows of the items behind it (Good) and that *)
(* a request nobody waits for comes from a run that was that far (Sent).   *)
(***************************************************************************)
EXTENDS Agent, TLAPS

Names(seq, payload, keyed) ==
  /\ seq \in 1..Len(log)
  /\ log[seq].payload = payload
  /\ log[seq].keyed = keyed

Known(payload) == Recorded(payload, Len(log))

\* The receipts a run holds name its writes up to the item n.
Holds(r, receipts, n) ==
  /\ Len(receipts) = n
  /\ \A i \in 1..n : Names(receipts[i], Writes[r][i], Keyed(r))

Loops(r, x) ==
  /\ Kind[r] # "batch" => x.failed = {}
  /\ x.failed = {} => Holds(r, x.receipts, x.at - 1)

Answered(r, x) == Names(x.answer.seq, Writes[r][x.at], Keyed(r))

Good(r, x) ==
  /\ x.pc \in {"ready", "waiting", "answered"} => x.at \in Positions(r) /\ Loops(r, x)
  /\ x.pc = "answered" /\ x.answer.status = "recorded" => Answered(r, x)
  /\ x.pc = "done" => Holds(r, x.kept, Len(Writes[r]))

Behind(payload, n) ==
  \A r \in Runs : Kind[r] = "propose" =>
    \A k \in Positions(r) : payload = Writes[r][k] =>
      \A h \in 1..(k - 1) : Recorded(Writes[r][h], n)

Sent == \A q \in wire : Behind(q.payload, Len(log))

Ordered == \A i \in 1..Len(log) : log[i].keyed => Behind(log[i].payload, i)

IInv ==
  /\ TypeOK /\ KeyedOnce
  /\ \A r \in Runs : Good(r, run[r])
  /\ Sent /\ Ordered

-----------------------------------------------------------------------------
(* The ledger                                                              *)

LEMMA StampTyped ==
  ASSUME NEW r \in Runs, NEW now \in 0..MaxTime
  PROVE  Stamp(r, now) \in 0..MaxTime
  <1>1. 0 \in 0..MaxTime
    BY AgentAssumption
  <1>2. QED
    BY <1>1 DEF Stamp

LEMMA WritesTyped ==
  ASSUME NEW r \in Runs
  PROVE  /\ Writes[r] \in Seq(Payloads) /\ Len(Writes[r]) \in Nat
         /\ \A i \in Positions(r) : Writes[r][i] \in Payloads
  BY AgentAssumption DEF Positions

LEMMA RequestTyped ==
  ASSUME TypeOK, NEW r \in Runs, Active(r), NEW n \in Nat
  PROVE  LET q == Request(r, run[r].sent, n) IN
           /\ q.payload = Writes[r][run[r].at] /\ q.stamp = run[r].sent
           /\ q.keyed = Keyed(r) /\ q.no = n
           /\ q.payload \in Payloads /\ q.stamp \in 0..MaxTime /\ q.keyed \in BOOLEAN
           /\ n \in 1..MaxFaults => q \in Requests
  <1>1. run[r] \in RunStates
    BY DEF TypeOK
  <1>2. run[r].sent \in 0..MaxTime
    BY <1>1 DEF RunStates
  <1>3. Writes[r][run[r].at] \in Payloads
    BY WritesTyped DEF TypeOK
  <1>4. QED
    BY <1>2, <1>3 DEF Request, Requests, Keyed

\* The ledger only grows, by the event that was asked for, and only if its
\* key is new.
LEMMA AppendedGrows ==
  ASSUME TypeOK, NEW q, q.payload \in Payloads, q.stamp \in 0..MaxTime, q.keyed \in BOOLEAN,
         log' = Appended(q)
  PROVE  /\ log' \in Seq(Events)
         /\ Len(log) \in Nat /\ Len(log') \in Nat /\ Len(log) <= Len(log')
         /\ \A i \in 1..Len(log) : log'[i] = log[i]
         /\ \/ log' = log
            \/ /\ Len(log') = Len(log) + 1
               /\ log'[Len(log')] = Event(q)
               /\ \A i \in 1..Len(log) :
                    ~(log[i].keyed /\ q.keyed /\ log[i].payload = q.payload)
  <1>1. log \in Seq(Events)
    BY DEF TypeOK
  <1>2. Event(q) \in Events
    BY DEF Event, Events
  <1>3. CASE Holders(q) = {}
    <2>1. log' = Append(log, Event(q))
      BY <1>3 DEF Appended
    <2>2. \A i \in 1..Len(log) : ~(log[i].keyed /\ q.keyed /\ log[i].payload = q.payload)
      BY <1>3 DEF Holders, Key
    <2>3. QED
      BY <1>1, <1>2, <2>1, <2>2
  <1>4. CASE Holders(q) # {}
    <2>1. log' = log
      BY <1>4 DEF Appended
    <2>2. QED
      BY <1>1, <2>1
  <1>5. QED
    BY <1>3, <1>4

LEMMA KeyedOnceKept ==
  ASSUME TypeOK, KeyedOnce, NEW q, q.payload \in Payloads, q.stamp \in 0..MaxTime,
         q.keyed \in BOOLEAN, log' = Appended(q)
  PROVE  KeyedOnce'
  <1>1. CASE log' = log
    BY <1>1 DEF KeyedOnce
  <1>2. CASE log' # log
    <2>1. /\ Len(log) \in Nat /\ Len(log') = Len(log) + 1
          /\ log'[Len(log')] = Event(q)
          /\ \A i \in 1..Len(log) :
               ~(log[i].keyed /\ q.keyed /\ log[i].payload = q.payload) /\ log'[i] = log[i]
      BY <1>2, AppendedGrows
    <2>2. /\ log'[Len(log')].payload = q.payload /\ log'[Len(log')].keyed = q.keyed
      BY <2>1 DEF Event
    <2>3. SUFFICES ASSUME NEW i \in 1..Len(log'), NEW j \in 1..Len(log'),
                          log'[i].keyed, log'[j].keyed, log'[i].payload = log'[j].payload
                   PROVE  i = j
      BY DEF KeyedOnce
    <2>4. CASE i \in 1..Len(log) /\ j \in 1..Len(log)
      BY <2>1, <2>3, <2>4 DEF KeyedOnce
    <2>5. CASE i = Len(log') /\ j \in 1..Len(log)
      BY <2>1, <2>2, <2>3, <2>5
    <2>6. CASE j = Len(log') /\ i \in 1..Len(log)
      BY <2>1, <2>2, <2>3, <2>6
    <2>7. CASE i = Len(log') /\ j = Len(log')
      BY <2>7
    <2>8. QED
      BY <2>1, <2>4, <2>5, <2>6, <2>7
  <1>3. QED
    BY <1>1, <1>2

\* What an answer names is in the ledger once it was given.
LEMMA AnswerNames ==
  ASSUME TypeOK, NEW q, q.payload \in Payloads, q.stamp \in 0..MaxTime, q.keyed \in BOOLEAN,
         log' = Appended(q)
  PROVE  /\ AnswerTo(q) \in [status : {"none", "recorded", "conflict"}, seq : Nat]
         /\ AnswerTo(q).seq \in 1..Len(log')
         /\ log'[AnswerTo(q).seq].payload = q.payload
         /\ log'[AnswerTo(q).seq].keyed = q.keyed
  <1>1. Len(log) \in Nat /\ log \in Seq(Events)
    BY DEF TypeOK
  <1>2. CASE Holders(q) = {}
    <2>1. AnswerTo(q) = [status |-> "recorded", seq |-> Len(log) + 1]
      BY <1>2 DEF AnswerTo
    <2>2. log' = Append(log, Event(q))
      BY <1>2 DEF Appended
    <2>3. Event(q) \in Events
      BY DEF Event, Events
    <2>4. Len(log') = Len(log) + 1 /\ log'[Len(log) + 1] = Event(q)
      BY <1>1, <2>2, <2>3
    <2>5. QED
      BY <1>1, <2>1, <2>4 DEF Event
  <1>3. CASE Holders(q) # {}
    <2> DEFINE i == CHOOSE j \in Holders(q) : TRUE
    <2>1. i \in Holders(q)
      BY <1>3
    <2>2. i \in 1..Len(log) /\ log[i].payload = q.payload /\ q.keyed /\ log[i].keyed
      BY <2>1 DEF Holders, Key
    <2>3. log[i].keyed = q.keyed
      <3>1. log[i] \in Events
        BY <1>1, <2>2
      <3>2. QED
        BY <2>2, <3>1 DEF Events
    <2>4. AnswerTo(q) = [status |-> IF log[i].stamp = q.stamp THEN "recorded" ELSE "conflict",
                         seq |-> i]
      BY <1>3 DEF AnswerTo
    <2>5. log' = log
      BY <1>3 DEF Appended
    <2>6. i \in Nat
      BY <1>1, <2>2
    <2> HIDE DEF i
    <2>7. AnswerTo(q) \in [status : {"none", "recorded", "conflict"}, seq : Nat]
      <3>1. CASE log[i].stamp = q.stamp
        BY <2>4, <2>6, <3>1
      <3>2. CASE log[i].stamp # q.stamp
        BY <2>4, <2>6, <3>2
      <3>3. QED
        BY <3>1, <3>2
    <2>8. AnswerTo(q).seq = i
      BY <2>4
    <2>9. QED
      BY <2>2, <2>3, <2>5, <2>7, <2>8
  <1>4. QED
    BY <1>2, <1>3

\* What was recorded stays recorded.
LEMMA RecordedKept ==
  ASSUME TypeOK, NEW q, q.payload \in Payloads, q.stamp \in 0..MaxTime, q.keyed \in BOOLEAN,
         log' = Appended(q)
  PROVE  /\ \A s, p, k : Names(s, p, k) => Names(s, p, k)'
         /\ \A p : \A n \in 1..Len(log) : Recorded(p, n) => Recorded(p, n)'
         /\ \A p : Known(p) => Known(p)'
  <1>1. /\ Len(log) \in Nat /\ Len(log') \in Nat /\ Len(log) <= Len(log')
        /\ \A i \in 1..Len(log) : log'[i] = log[i]
    BY AppendedGrows
  <1>2. \A s, p, k : Names(s, p, k) => Names(s, p, k)'
    BY <1>1 DEF Names
  <1>3. \A p : \A n \in 1..Len(log) : Recorded(p, n) => Recorded(p, n)'
    BY <1>1 DEF Recorded
  <1>4. \A p : Known(p) => Known(p)'
    BY <1>1 DEF Known, Recorded
  <1>5. QED
    BY <1>2, <1>3, <1>4

-----------------------------------------------------------------------------
(* The loops                                                               *)

LEMMA IdleRunTyped ==
  IdleRun \in RunStates /\ 0 \in 0..MaxTime /\ NoAnswer.status = "none"
  <1>1. <<>> \in Seq(Nat) /\ {} \in SUBSET Nat /\ 0 \in 0..MaxTime
    BY AgentAssumption
  <1>2. QED
    BY <1>1 DEF IdleRun, RunStates, NoAnswer

\* An item is dealt with: the next one, the end, or a failure.
LEMMA AdvancedIs ==
  ASSUME NEW r \in Runs, NEW to \in RunStates, to.at \in Positions(r),
         Kind[r] # "batch" => to.failed = {},
         to.failed = {} => Holds(r, to.receipts, to.at)
  PROVE  /\ Advanced(r, to) \in RunStates
         /\ Good(r, Advanced(r, to))
         /\ Advanced(r, to).pc \in {"ready", "done", "failed"}
         /\ Advanced(r, to).pc = "ready" => Advanced(r, to).at \in Positions(r)
  <1> DEFINE next == [to EXCEPT !.at = @ + 1, !.answer = NoAnswer, !.sent = 0]
  <1>1. /\ next \in RunStates
        /\ next.at = to.at + 1 /\ next.receipts = to.receipts /\ next.failed = to.failed
    <2>1. to.at + 1 \in Nat
      BY DEF RunStates
    <2>2. NoAnswer \in [status : {"none", "recorded", "conflict"}, seq : Nat]
      BY DEF NoAnswer
    <2>3. QED
      BY <2>1, <2>2, IdleRunTyped DEF RunStates
  <1>2. to.at \in Nat /\ to.at >= 1 /\ Len(Writes[r]) \in Nat /\ to.at <= Len(Writes[r])
    BY WritesTyped DEF Positions
  <1>3. CASE next.at <= Len(Writes[r])
    <2>1. Advanced(r, to) = [next EXCEPT !.pc = "ready"]
      BY <1>3 DEF Advanced
    <2> DEFINE x == [next EXCEPT !.pc = "ready"]
    <2>2. /\ x \in RunStates /\ x.pc = "ready" /\ x.at = to.at + 1
          /\ x.receipts = to.receipts /\ x.failed = to.failed
      BY <1>1 DEF RunStates
    <2> HIDE DEF x, next
    <2>3. x.at \in Positions(r) /\ x.at - 1 = to.at
      BY <1>1, <1>2, <1>3, <2>2 DEF Positions
    <2>4. Good(r, x)
      BY <2>2, <2>3 DEF Good, Loops
    <2>5. QED
      BY <2>1, <2>2, <2>3, <2>4 DEF x
  <1>4. CASE ~(next.at <= Len(Writes[r])) /\ to.failed = {}
    <2>1. Advanced(r, to) = [IdleRun EXCEPT !.pc = "done", !.kept = to.receipts]
      BY <1>1, <1>4 DEF Advanced
    <2>2. Len(Writes[r]) = to.at
      BY <1>1, <1>2, <1>4
    <2> DEFINE x == [IdleRun EXCEPT !.pc = "done", !.kept = to.receipts]
    <2>3. x \in RunStates /\ x.pc = "done" /\ x.kept = to.receipts
      BY IdleRunTyped DEF RunStates, IdleRun
    <2> HIDE DEF x
    <2>4. Good(r, x)
      BY <1>4, <2>2, <2>3 DEF Good
    <2>5. QED
      BY <2>1, <2>3, <2>4 DEF x
  <1>5. CASE ~(next.at <= Len(Writes[r])) /\ to.failed # {}
    <2>1. Advanced(r, to) = [IdleRun EXCEPT !.pc = "failed"]
      BY <1>1, <1>5 DEF Advanced
    <2> DEFINE x == [IdleRun EXCEPT !.pc = "failed"]
    <2>2. x \in RunStates /\ x.pc = "failed"
      BY IdleRunTyped DEF RunStates, IdleRun
    <2> HIDE DEF x
    <2>3. Good(r, x)
      BY <2>2 DEF Good
    <2>4. QED
      BY <2>1, <2>2, <2>3 DEF x
  <1>6. QED
    BY <1>3, <1>4, <1>5

LEMMA FailedIs ==
  ASSUME TypeOK, NEW r \in Runs, Active(r)
  PROVE  /\ Failed(r) \in RunStates
         /\ Good(r, Failed(r))
         /\ Failed(r).pc \in {"ready", "done", "failed"}
         /\ Failed(r).pc = "ready" => Failed(r).at \in Positions(r)
  <1>1. run[r] \in RunStates /\ run[r].at \in Positions(r)
    BY DEF TypeOK
  <1>2. CASE Kind[r] = "batch"
    <2> DEFINE to == [run[r] EXCEPT !.failed = @ \cup {run[r].at}]
    <2>1. to \in RunStates /\ to.at = run[r].at /\ to.failed # {}
      <3>1. run[r].at \in Nat /\ run[r].failed \in SUBSET Nat
        BY <1>1 DEF RunStates
      <3>2. QED
        BY <1>1, <3>1 DEF RunStates
    <2>2. Failed(r) = Advanced(r, to)
      BY <1>2 DEF Failed
    <2> HIDE DEF to
    <2>3. QED
      BY <1>1, <1>2, <2>1, <2>2, AdvancedIs
  <1>3. CASE Kind[r] # "batch"
    <2>1. Failed(r) = [IdleRun EXCEPT !.pc = "failed"]
      BY <1>3 DEF Failed
    <2> DEFINE x == [IdleRun EXCEPT !.pc = "failed"]
    <2>2. x \in RunStates /\ x.pc = "failed"
      BY IdleRunTyped DEF RunStates, IdleRun
    <2> HIDE DEF x
    <2>3. Good(r, x)
      BY <2>2 DEF Good
    <2>4. QED
      BY <2>1, <2>2, <2>3 DEF x
  <1>4. QED
    BY <1>2, <1>3

\* A longer ledger keeps what the loops know.
LEMMA GoodKept ==
  ASSUME NEW r \in Runs, NEW x, Good(r, x),
         \A s, p, k : Names(s, p, k) => Names(s, p, k)'
  PROVE  Good(r, x)'
  BY DEF Good, Loops, Answered, Holds, Positions, Keyed

-----------------------------------------------------------------------------
(* The transcript first                                                    *)

\* A run that proposes has recorded what comes before the item it is at.
LEMMA RequestBehind ==
  ASSUME TypeOK, NEW r \in Runs, Good(r, run[r]), Active(r)
  PROVE  Behind(Writes[r][run[r].at], Len(log))
  <1>1. SUFFICES ASSUME NEW s \in Runs, Kind[s] = "propose", NEW k \in Positions(s),
                        Writes[r][run[r].at] = Writes[s][k], NEW h \in 1..(k - 1)
                 PROVE  Recorded(Writes[s][h], Len(log))
    BY DEF Behind
  <1>2. run[r].at \in Positions(r)
    BY DEF TypeOK
  <1>3. s = r /\ k = run[r].at
    BY <1>1, <1>2, AgentAssumption DEF Positions
  <1>4. Holds(r, run[r].receipts, run[r].at - 1)
    BY <1>1, <1>3 DEF Good, Loops, Active
  <1>5. Names(run[r].receipts[h], Writes[r][h], Keyed(r))
    BY <1>3, <1>4 DEF Holds
  <1>6. QED
    BY <1>1, <1>3, <1>5 DEF Names, Recorded, Keyed

LEMMA LogStep ==
  ASSUME TypeOK, Sent, Ordered, wire' \subseteq wire,
         NEW q, q.payload \in Payloads, q.stamp \in 0..MaxTime, q.keyed \in BOOLEAN,
         Behind(q.payload, Len(log)), log' = Appended(q)
  PROVE  Sent' /\ Ordered'
  <1>1. /\ \A p : \A n \in 1..Len(log) : Recorded(p, n) => Recorded(p, n)'
        /\ \A p : Known(p) => Known(p)'
    BY RecordedKept
  <1>2. /\ Len(log) \in Nat
        /\ \A i \in 1..Len(log) : log'[i] = log[i]
        /\ \/ log' = log
           \/ Len(log') = Len(log) + 1 /\ log'[Len(log')] = Event(q)
    BY AppendedGrows
  <1>3. Sent'
    BY <1>1 DEF Sent, Behind, Known, Positions
  <1>4. ASSUME NEW i \in 1..Len(log'), log'[i].keyed,
               NEW r \in Runs, Kind[r] = "propose", NEW k \in Positions(r),
               log'[i].payload = Writes[r][k], NEW h \in 1..(k - 1)
        PROVE  Recorded(Writes[r][h], i)'
    <2>1. CASE i \in 1..Len(log)
      <3>1. Recorded(Writes[r][h], i)
        BY <1>2, <1>4, <2>1 DEF Ordered, Behind
      <3>2. QED
        BY <1>1, <2>1, <3>1
    <2>2. CASE i \notin 1..Len(log)
      <3>1. i = Len(log') /\ log'[i] = Event(q)
        BY <1>2, <2>2
      <3>2. q.payload = Writes[r][k]
        BY <1>4, <3>1 DEF Event
      <3>3. Known(Writes[r][h])
        BY <1>4, <3>2 DEF Behind, Known
      <3>4. QED
        BY <1>1, <3>1, <3>3 DEF Known
    <2>3. QED
      BY <2>1, <2>2
  <1>5. Ordered'
    BY <1>4 DEF Ordered, Behind, Positions
  <1>6. QED
    BY <1>3, <1>5

-----------------------------------------------------------------------------
(* The invariant                                                           *)

LEMMA InvInit == Init => IInv
  <1>1. SUFFICES ASSUME Init PROVE IInv
    OBVIOUS
  <1>2. log = <<>> /\ wire = {} /\ run = [r \in Runs |-> IdleRun] /\ clock = 0 /\ faults = 0
    BY <1>1 DEF Init
  <1>3. IdleRun.pc = "idle" /\ IdleRun \in RunStates
    BY IdleRunTyped DEF IdleRun
  <1>4. TypeOK
    BY <1>2, <1>3, AgentAssumption DEF TypeOK, Active
  <1>5. \A r \in Runs : Good(r, run[r])
    BY <1>2, <1>3 DEF Good
  <1>6. KeyedOnce /\ Sent /\ Ordered
    BY <1>2 DEF KeyedOnce, Sent, Ordered
  <1>7. QED
    BY <1>4, <1>5, <1>6 DEF IInv

\* A step of one loop that leaves the ledger alone.
LEMMA LoopStep ==
  ASSUME IInv, NEW r \in Runs, NEW x \in RunStates, run' = [run EXCEPT ![r] = x],
         log' = log, Good(r, x),
         x.pc \in {"ready", "waiting", "answered"} => x.at \in Positions(r)
  PROVE  /\ run' \in [Runs -> RunStates]
         /\ \A s \in Runs : Active(s)' => run'[s].at \in Positions(s)
         /\ \A s \in Runs : Good(s, run[s])'
         /\ KeyedOnce' /\ Ordered'
         /\ \A p : Behind(p, Len(log)) => Behind(p, Len(log))'
  <1>1. run \in [Runs -> RunStates] /\ \A s \in Runs : Good(s, run[s])
    BY DEF IInv, TypeOK
  <1>2. \A s \in Runs : run'[s] = IF s = r THEN x ELSE run[s]
    BY <1>1
  <1>3. \A s \in Runs : Active(s) => run[s].at \in Positions(s)
    BY DEF IInv, TypeOK
  <1>4. \A s \in Runs : Active(s)' => run'[s].at \in Positions(s)
    BY <1>2, <1>3 DEF Active
  <1>5. ASSUME NEW s \in Runs PROVE Good(s, run[s])'
    <2>1. PICK y : y = IF s = r THEN x ELSE run[s]
      OBVIOUS
    <2>2. run'[s] = y /\ Good(s, y)
      BY <1>1, <1>2, <2>1
    <2>3. \A i, p, k : Names(i, p, k) => Names(i, p, k)'
      BY DEF Names
    <2>4. Good(s, y)'
      BY <2>2, <2>3, GoodKept
    <2>5. QED
      BY <2>2, <2>4 DEF Good, Answered, Loops, Holds, Names, Positions, Keyed
  <1>6. KeyedOnce' /\ Ordered'
    BY DEF IInv, KeyedOnce, Ordered, Behind, Recorded
  <1>7. \A p : Behind(p, Len(log)) => Behind(p, Len(log))'
    BY DEF Behind, Recorded
  <1>8. QED
    BY <1>1, <1>4, <1>5, <1>6, <1>7

LEMMA BeginStep ==
  ASSUME IInv, NEW r \in Runs, Begin(r)
  PROVE  IInv'
  <1>1. PICK x : x = [IdleRun EXCEPT !.pc = IF Writes[r] = <<>> THEN "done" ELSE "ready",
                        !.stamp = IF Kind[r] = "propose" THEN Stamp(r, clock) ELSE 0]
    OBVIOUS
  <1>2. run' = [run EXCEPT ![r] = x] /\ UNCHANGED <<log, wire, clock, faults>>
    BY <1>1 DEF Begin
  <1>3. clock \in 0..MaxTime
    BY DEF IInv, TypeOK
  <1>4. (IF Kind[r] = "propose" THEN Stamp(r, clock) ELSE 0) \in 0..MaxTime
    BY <1>3, StampTyped, IdleRunTyped
  <1>5. x \in RunStates
    BY <1>1, <1>4, IdleRunTyped DEF RunStates
  <1>6. /\ x.pc = (IF Writes[r] = <<>> THEN "done" ELSE "ready") /\ x.at = 1
        /\ x.receipts = <<>> /\ x.kept = <<>> /\ x.failed = {}
    BY <1>1 DEF IdleRun
  <1>7. Writes[r] # <<>> => 1 \in Positions(r)
    BY WritesTyped DEF Positions
  <1>8. Good(r, x)
    <2>1. Holds(r, x.receipts, 0)
      BY <1>6 DEF Holds
    <2>2. Writes[r] = <<>> => Holds(r, x.kept, Len(Writes[r]))
      BY <1>6 DEF Holds
    <2>3. QED
      BY <1>6, <1>7, <2>1, <2>2 DEF Good, Loops
  <1>9. x.pc \in {"ready", "waiting", "answered"} => x.at \in Positions(r)
    BY <1>6, <1>7
  <1>10. QED
    BY <1>2, <1>5, <1>8, <1>9, LoopStep DEF IInv, TypeOK, Sent

LEMMA SendStep ==
  ASSUME IInv, NEW r \in Runs, Send(r)
  PROVE  IInv'
  <1>1. run[r].pc = "ready" /\ run[r] \in RunStates /\ run[r].at \in Positions(r)
        /\ Good(r, run[r]) /\ clock \in 0..MaxTime
    BY DEF Send, IInv, TypeOK, Active
  <1>2. PICK x : x = [run[r] EXCEPT !.pc = "waiting", !.sent = SendStamp(r)]
    OBVIOUS
  <1>3. run' = [run EXCEPT ![r] = x] /\ UNCHANGED <<log, wire, clock, faults>>
    BY <1>2 DEF Send, IInv, TypeOK
  <1>4. SendStamp(r) \in 0..MaxTime
    BY <1>1, StampTyped DEF SendStamp, RunStates
  <1>5. x \in RunStates /\ x.pc = "waiting" /\ x.at = run[r].at
        /\ x.failed = run[r].failed /\ x.receipts = run[r].receipts
    BY <1>1, <1>2, <1>4 DEF RunStates
  <1>6. Good(r, x)
    BY <1>1, <1>5 DEF Good, Loops
  <1>7. QED
    BY <1>1, <1>3, <1>5, <1>6, LoopStep DEF IInv, TypeOK, Sent

LEMMA ReceiveStep ==
  ASSUME IInv, NEW r \in Runs, Receive(r)
  PROVE  IInv'
  <1>1. run[r].pc = "answered" /\ run[r] \in RunStates /\ run[r].at \in Positions(r)
        /\ Good(r, run[r]) /\ Active(r) /\ TypeOK
    BY DEF Receive, IInv, TypeOK, Active
  <1> DEFINE to == Receipted(r)
  <1>2. PICK x : x = IF run[r].answer.status = "recorded" THEN Advanced(r, to) ELSE Failed(r)
    OBVIOUS
  <1>3. run' = [run EXCEPT ![r] = x] /\ UNCHANGED <<log, wire, clock, faults>>
    <2>1. CASE run[r].answer.status = "recorded"
      BY <1>2, <2>1 DEF Receive
    <2>2. CASE run[r].answer.status # "recorded"
      BY <1>2, <2>2 DEF Receive
    <2>3. QED
      BY <2>1, <2>2
  <1>4. x \in RunStates /\ Good(r, x)
        /\ (x.pc \in {"ready", "waiting", "answered"} => x.at \in Positions(r))
    <2>1. CASE run[r].answer.status = "recorded"
      <3>1. run[r].receipts \in Seq(Nat) /\ run[r].answer.seq \in Nat /\ run[r].at \in Nat
        BY <1>1 DEF RunStates
      <3>2. /\ to \in RunStates /\ to.at = run[r].at /\ to.failed = run[r].failed
            /\ to.receipts = Append(run[r].receipts, run[r].answer.seq)
        <4>1. PICK w : w = Append(run[r].receipts, run[r].answer.seq)
          OBVIOUS
        <4>2. w \in Seq(Nat)
          BY <3>1, <4>1
        <4>3. to = [run[r] EXCEPT !.receipts = w]
          BY <4>1 DEF Receipted
        <4>4. QED
          BY <1>1, <4>1, <4>2, <4>3 DEF RunStates
      <3> HIDE DEF to
      <3>3. Kind[r] # "batch" => to.failed = {}
        BY <1>1, <3>2 DEF Good, Loops
      <3>4. ASSUME to.failed = {} PROVE Holds(r, to.receipts, to.at)
        <4>1. Holds(r, run[r].receipts, run[r].at - 1)
          BY <1>1, <3>2, <3>4 DEF Good, Loops
        <4>2. Names(run[r].answer.seq, Writes[r][run[r].at], Keyed(r))
          BY <1>1, <2>1 DEF Good, Answered
        <4>3. Len(to.receipts) = run[r].at
              /\ to.receipts[run[r].at] = run[r].answer.seq
              /\ \A i \in 1..(run[r].at - 1) : to.receipts[i] = run[r].receipts[i]
          BY <3>1, <3>2, <4>1 DEF Holds
        <4>4. QED
          BY <3>1, <3>2, <4>1, <4>2, <4>3 DEF Holds
      <3>5. QED
        BY <1>1, <1>2, <2>1, <3>2, <3>3, <3>4, AdvancedIs
    <2>2. CASE run[r].answer.status # "recorded"
      BY <1>1, <1>2, <2>2, FailedIs
    <2>3. QED
      BY <2>1, <2>2
  <1>5. QED
    BY <1>1, <1>3, <1>4, LoopStep DEF IInv, TypeOK, Sent

LEMMA GiveUpStep ==
  ASSUME IInv, NEW r \in Runs, GiveUp(r)
  PROVE  IInv'
  <1>1. run[r].pc \in {"waiting", "answered"} /\ Active(r) /\ Good(r, run[r]) /\ TypeOK
        /\ faults \in Nat /\ faults' \in 1..MaxFaults
    BY AgentAssumption DEF GiveUp, IInv, TypeOK, Active
  <1>2. PICK x : x = Failed(r)
    OBVIOUS
  <1>3. run' = [run EXCEPT ![r] = x] /\ log' = log /\ clock' = clock
    BY <1>2 DEF GiveUp
  <1>4. x \in RunStates /\ Good(r, x)
        /\ (x.pc \in {"ready", "waiting", "answered"} => x.at \in Positions(r))
    BY <1>1, <1>2, FailedIs
  <1>5. PICK q : q = Request(r, run[r].sent, faults')
    OBVIOUS
  <1>6. q \in Requests /\ q.payload = Writes[r][run[r].at]
    BY <1>1, <1>5, RequestTyped
  <1>7. wire' = wire \/ wire' = wire \cup {q}
    BY <1>5 DEF GiveUp
  <1>8. Behind(q.payload, Len(log))
    BY <1>1, <1>6, RequestBehind
  <1>9. wire' \subseteq Requests
    BY <1>6, <1>7 DEF IInv, TypeOK
  <1>10. Sent'
    BY <1>3, <1>4, <1>7, <1>8, LoopStep DEF IInv, Sent
  <1>11. faults' \in 0..MaxFaults
    BY <1>1
  <1>12. QED
    BY <1>1, <1>3, <1>4, <1>9, <1>10, <1>11, LoopStep DEF IInv, TypeOK

LEMMA ServeStep ==
  ASSUME IInv, NEW r \in Runs, Serve(r)
  PROVE  IInv'
  <1>1. run[r].pc = "waiting" /\ Active(r) /\ Good(r, run[r]) /\ TypeOK /\ KeyedOnce
        /\ run[r] \in RunStates /\ run[r].at \in Positions(r)
    BY DEF Serve, IInv, TypeOK, Active
  <1>2. PICK q : q = Request(r, run[r].sent, 0)
    OBVIOUS
  <1>3. PICK x : x = [run[r] EXCEPT !.pc = "answered", !.answer = AnswerTo(q)]
    OBVIOUS
  <1>4. /\ log' = Appended(q) /\ run' = [run EXCEPT ![r] = x]
        /\ UNCHANGED <<wire, clock, faults>>
    BY <1>1, <1>2, <1>3 DEF Serve, TypeOK
  <1>5. /\ q.payload \in Payloads /\ q.stamp \in 0..MaxTime /\ q.keyed \in BOOLEAN
        /\ q.payload = Writes[r][run[r].at] /\ q.keyed = Keyed(r)
    BY <1>1, <1>2, RequestTyped
  <1>6. /\ AnswerTo(q) \in [status : {"none", "recorded", "conflict"}, seq : Nat]
        /\ AnswerTo(q).seq \in 1..Len(log')
        /\ log'[AnswerTo(q).seq].payload = q.payload
        /\ log'[AnswerTo(q).seq].keyed = q.keyed
    BY <1>1, <1>4, <1>5, AnswerNames
  <1>7. x \in RunStates /\ x.pc = "answered" /\ x.at = run[r].at /\ x.answer = AnswerTo(q)
        /\ x.failed = run[r].failed /\ x.receipts = run[r].receipts
    BY <1>1, <1>3, <1>6 DEF RunStates
  <1>8. \A s, p, k : Names(s, p, k) => Names(s, p, k)'
    BY <1>1, <1>4, <1>5, RecordedKept
  <1>9. Loops(r, x)
    BY <1>1, <1>7 DEF Good, Loops
  <1>10. ASSUME NEW s \in Runs PROVE Good(s, run[s])'
    <2>1. CASE s = r
      <3>1. run'[r] = x
        BY <1>1, <1>4 DEF TypeOK
      <3>2. Answered(r, x)'
        BY <1>5, <1>6, <1>7 DEF Answered, Names, Keyed
      <3>3. Loops(r, x)'
        BY <1>8, <1>9 DEF Loops, Holds, Keyed
      <3>4. QED
        BY <1>1, <1>7, <2>1, <3>1, <3>2, <3>3
        DEF Good, Answered, Loops, Holds, Names, Positions, Keyed
    <2>2. CASE s # r
      <3>1. PICK y : y = run[s]
        OBVIOUS
      <3>2. run'[s] = y /\ Good(s, y)
        BY <1>1, <1>4, <2>2, <3>1 DEF TypeOK, IInv
      <3>3. Good(s, y)'
        BY <1>8, <3>2, GoodKept
      <3>4. QED
        BY <3>2, <3>3 DEF Good, Answered, Loops, Holds, Names, Positions, Keyed
    <2>3. QED
      BY <2>1, <2>2
  <1>11. Behind(q.payload, Len(log))
    BY <1>1, <1>5, RequestBehind
  <1>12. Sent' /\ Ordered'
    BY <1>1, <1>4, <1>5, <1>11, LogStep DEF IInv
  <1>13. KeyedOnce' /\ log' \in Seq(Events)
    BY <1>1, <1>4, <1>5, KeyedOnceKept, AppendedGrows
  <1>14. TypeOK'
    <2>1. run' \in [Runs -> RunStates]
      BY <1>1, <1>4, <1>7 DEF TypeOK
    <2>2. \A s \in Runs : Active(s)' => run'[s].at \in Positions(s)
      BY <1>1, <1>4, <1>7 DEF TypeOK, Active
    <2>3. QED
      BY <1>1, <1>4, <1>13, <2>1, <2>2 DEF TypeOK, Positions
  <1>15. QED
    BY <1>10, <1>12, <1>13, <1>14 DEF IInv

LEMMA ArriveLateStep ==
  ASSUME IInv, NEW q \in wire, ArriveLate(q)
  PROVE  IInv'
  <1>1. PICK p : p = q
    OBVIOUS
  <1>2. /\ p \in wire /\ wire' = wire \ {p} /\ log' = Appended(p)
        /\ UNCHANGED <<run, clock, faults>>
    BY <1>1 DEF ArriveLate
  <1>3. p.payload \in Payloads /\ p.stamp \in 0..MaxTime /\ p.keyed \in BOOLEAN
    BY <1>2 DEF IInv, TypeOK, Requests
  <1>4. TypeOK /\ KeyedOnce /\ Behind(p.payload, Len(log))
    BY <1>2 DEF IInv, Sent
  <1>5. Sent' /\ Ordered'
    BY <1>2, <1>3, <1>4, LogStep DEF IInv
  <1>6. KeyedOnce' /\ log' \in Seq(Events)
    BY <1>2, <1>3, <1>4, KeyedOnceKept, AppendedGrows
  <1>7. ASSUME NEW s \in Runs PROVE Good(s, run[s])'
    <2>1. \A i, w, k : Names(i, w, k) => Names(i, w, k)'
      BY <1>2, <1>3, <1>4, RecordedKept
    <2>2. PICK y : y = run[s]
      OBVIOUS
    <2>3. run'[s] = y /\ Good(s, y)
      BY <1>2, <2>2 DEF IInv
    <2>4. Good(s, y)'
      BY <2>1, <2>3, GoodKept
    <2>5. QED
      BY <2>3, <2>4 DEF Good, Answered, Loops, Holds, Names, Positions, Keyed
  <1>8. TypeOK'
    BY <1>2, <1>4, <1>6 DEF TypeOK, Active, Positions
  <1>9. QED
    BY <1>5, <1>6, <1>7, <1>8 DEF IInv

\* Nothing but the clock moves.
LEMMA QuietStep ==
  ASSUME IInv, clock' \in 0..MaxTime, UNCHANGED <<log, wire, run, faults>>
  PROVE  IInv'
  <1>1. TypeOK'
    BY DEF IInv, TypeOK, Active, Positions
  <1>2. KeyedOnce'
    BY DEF IInv, KeyedOnce
  <1>3. Sent' /\ Ordered'
    BY DEF IInv, Sent, Ordered, Behind, Recorded, Positions
  <1>4. ASSUME NEW r \in Runs PROVE Good(r, run[r])'
    <2>1. PICK y : y = run[r]
      OBVIOUS
    <2>2. run'[r] = y /\ Good(r, y)
      BY <2>1 DEF IInv
    <2>3. \A i, p, k : Names(i, p, k) => Names(i, p, k)'
      BY DEF Names
    <2>4. Good(r, y)'
      BY <2>2, <2>3, GoodKept
    <2>5. QED
      BY <2>2, <2>4 DEF Good, Answered, Loops, Holds, Names, Positions, Keyed
  <1>5. QED
    BY <1>1, <1>2, <1>3, <1>4 DEF IInv

LEMMA InvStep == IInv /\ [Next]_vars => IInv'
  <1>1. SUFFICES ASSUME IInv, [Next]_vars PROVE IInv'
    OBVIOUS
  <1>2. CASE \E r \in Runs : Step(r) \/ GiveUp(r)
    BY <1>1, <1>2, BeginStep, SendStep, ServeStep, ReceiveStep, GiveUpStep DEF Step
  <1>3. CASE \E q \in wire : ArriveLate(q)
    BY <1>1, <1>3, ArriveLateStep
  <1>4. CASE Tick
    <2>1. clock' \in 0..MaxTime
      BY <1>1, <1>4, AgentAssumption DEF Tick, IInv, TypeOK
    <2>2. QED
      BY <1>1, <1>4, <2>1, QuietStep DEF Tick
  <1>5. CASE UNCHANGED vars
    <2>1. clock' \in 0..MaxTime
      BY <1>1, <1>5 DEF vars, IInv, TypeOK
    <2>2. QED
      BY <1>1, <1>5, <2>1, QuietStep DEF vars
  <1>6. QED
    BY <1>1, <1>2, <1>3, <1>4, <1>5 DEF Next

THEOREM Invariance == Spec => []IInv
  <1>1. QED
    BY InvInit, InvStep, PTL DEF Spec

-----------------------------------------------------------------------------
\* The ledger, the requests under way and the loops keep their types, for any
\* runs, writes and number of lost requests.
THEOREM TypeCorrect == Spec => []TypeOK
  <1>1. IInv => TypeOK
    BY DEF IInv
  <1>2. QED
    BY <1>1, Invariance, PTL

\* Retries and late arrivals never record a keyed write twice (hooks.ts 194).
THEOREM RetriesAreDeduplicated == Spec => []KeyedOnce
  <1>1. IInv => KeyedOnce
    BY DEF IInv
  <1>2. QED
    BY <1>1, Invariance, PTL

\* A run that reports success holds a receipt of every write, each naming the
\* event that has it (client.ts 196-206).
THEOREM SuccessIsReceipted == Spec => []ReceiptsNameTheirEvents
  <1>1. IInv => ReceiptsNameTheirEvents
    BY DEF IInv, Good, Holds, Names, ReceiptsNameTheirEvents, Positions
  <1>2. QED
    BY <1>1, Invariance, PTL

\* No proposal is recorded without the transcript and the proposals before it
\* (hooks.ts 348-385).
THEOREM TranscriptComesFirst == Spec => []ProposalsFollowTheTranscript
  <1>1. IInv => ProposalsFollowTheTranscript
    BY DEF IInv, Ordered, Behind, ProposalsFollowTheTranscript
  <1>2. QED
    BY <1>1, Invariance, PTL
=============================================================================
