-------------------------- MODULE RetrievalProofs --------------------------
(***************************************************************************)
(* What reading memory guarantees while it changes, for any number of      *)
(* agents, claims, scopes and connections.  The inductive invariant says   *)
(* of every request what it has not read yet and can no longer read        *)
(* otherwise (Good), with "gone", "hidden" and "opposed" as they were when *)
(* it began.                                                               *)
(***************************************************************************)
EXTENDS Retrieval, FiniteSetTheorems, TLAPS

Reading == {"relations", "evidence", "probe"}

Shape(x) ==
  /\ x.pc \in {"lanes", "trace"} => x.doing = "query"
  /\ x.pc \in {"probe", "record", "cleared"} => x.doing = "gate"
  /\ x.doing = "gate" => x.ids \in Needs
  /\ x.held = 1 <=> x.pc \in Reading
  /\ x.pc = "cleared" => x.blocking = {}

\* What is seen was asked for and visible.
Looked(x) ==
  \A i \in Ids : x.seen[i] # "missing" =>
    x.pc \in Reading /\ i \in x.ids /\ i \notin Unknown /\ ScopeOf[i] \in x.reach

\* The policy will deny the claim i, if it is found at all.
Lost(x, i) ==
  \/ i \in Unknown
  \/ i \in x.now
  \/ i \in redacted /\ (x.pc = "probe" => i \notin x.cited)
  \/ ~Standing(i) /\ (x.pc \in Reading => x.seen[i] \notin {"accepted", "disputed"})

GoneStays(x) ==
  x.pc \in {"plan", "lanes", "claims"} \cup Reading => \A i \in x.gone : Lost(x, i)

HiddenStays(a, x) ==
  \A i \in x.hidden :
    ScopeOf[i] \notin Reach(a) /\ ScopeOf[i] \notin x.reach /\ x.seen[i] = "missing"

OpposedStays(a, x) ==
  \A p \in x.opposed :
    /\ p[2] \in Rivals(p[1]) /\ status[p[2]] = "accepted" /\ ScopeOf[p[2]] \in Reach(a)
    /\ x.pc \in {"lanes", "claims"} \cup Reading => ScopeOf[p[2]] \in x.reach
    /\ x.pc \in {"evidence", "probe"} /\ x.seen[p[1]] # "missing" => p[1] \in x.rivals

\* The claim i is no reason to stop, and may well be relied on.
Sound(a, x, i) ==
  /\ i \notin x.gone \cup x.hidden
  /\ Risk[a] # "low" => \A p \in x.opposed : p[1] # i

Verdict(a, x) ==
  x.doing = "gate" /\ x.pc \in {"record", "answer", "cleared"} =>
    \A i \in x.ids \ x.blocking : Sound(a, x, i)

Packet(x) ==
  \A i \in Ids : x.uses[i] # "absent" =>
    i \notin x.hidden /\ (i \in x.gone => x.uses[i] = "deny")

OnRecord(x, t) ==
  x.doing = "gate" /\ x.pc \in {"answer", "cleared"} /\ t.made =>
    t.ids = x.ids /\ t.allowed = (x.blocking = {})

Good(a, x, t) ==
  /\ Shape(x) /\ Looked(x) /\ GoneStays(x) /\ HiddenStays(a, x) /\ OpposedStays(a, x)
  /\ Verdict(a, x) /\ Packet(x) /\ OnRecord(x, t)

Nameless == \A i \in Unknown : status[i] = "missing"

IInv ==
  /\ TypeOK /\ Nameless
  /\ \A a \in Agents : Good(a, req[a], trace[a])

-----------------------------------------------------------------------------
(* The policy                                                              *)

LEMMA DenialBlocks ==
  ASSUME NEW f, NEW risk, Denied(f, risk)
  PROVE  Use(f, risk) = "deny" /\ Blocks(f, risk)
  BY DEF Use, Blocks

LEMMA ConflictBlocks ==
  ASSUME NEW f, NEW risk \in {"medium", "high"}, f.conflicted
  PROVE  Blocks(f, risk)
  <1>1. Use(f, risk) \in {"deny", "clarify"}
    BY DEF Use, Conflicted
  <1>2. Permitted(risk) = {"use"}
    BY DEF Permitted
  <1>3. QED
    BY <1>1, <1>2 DEF Blocks

LEMMA Orders ==
  /\ UseOrder("deny") = 0 /\ UseOrder("clarify") = 1 /\ UseOrder("verify") = 2
  /\ UseOrder("use") = 3
  BY DEF UseOrder

LEMMA UseIs ==
  ASSUME NEW f, NEW risk
  PROVE  /\ Use(f, risk) \in Uses /\ Use(f, risk) # "absent"
         /\ UseOrder(Use(f, risk)) \in 0..3
         /\ Use(f, risk) = "deny" <=> Denied(f, risk)
  <1>1. Use(f, risk) \in Uses /\ (Use(f, risk) = "deny" <=> Denied(f, risk))
    BY DEF Use, Uses
  <1>2. QED
    BY <1>1, Orders DEF Uses

\* A higher risk never allows more: the decision on a claim gets no stronger
\* as what is at stake grows (claims/src/index.ts 425-481).
THEOREM RiskOnlyTightens ==
  ASSUME NEW f \in Facts
  PROVE  /\ UseOrder(Use(f, "high")) <= UseOrder(Use(f, "medium"))
         /\ UseOrder(Use(f, "medium")) <= UseOrder(Use(f, "low"))
  <1>1. Use(f, "medium") = Use(f, "low")
    BY DEF Use, Denied
  <1>2. CASE Denied(f, "high")
    BY <1>1, <1>2, Orders, UseIs DEF Use
  <1>3. CASE ~Denied(f, "high")
    <2>1. ~Denied(f, "medium") /\ ~Conflicted(f) /\ ~Doubtful(f)
      BY <1>3 DEF Denied
    <2>2. Use(f, "medium") = "use"
      BY <2>1 DEF Use
    <2>3. QED
      BY <1>1, <2>2, Orders, UseIs
  <1>4. QED
    BY <1>2, <1>3

\* Nor does the gate let pass at a higher risk what it blocks at a lower one
\* (action-gate.ts 178-208).
THEOREM BlockedStaysBlocked ==
  ASSUME NEW f \in Facts
  PROVE  /\ Blocks(f, "low") => Blocks(f, "medium")
         /\ Blocks(f, "medium") => Blocks(f, "high")
  <1>1. f.age \in Nat
    BY DEF Facts
  <1>2. /\ MaxEvidenceAge("low") = 3650 /\ MaxEvidenceAge("medium") = 365
        /\ MaxEvidenceAge("high") = 90
    BY DEF MaxEvidenceAge
  <1>3. /\ Permitted("medium") = {"use"} /\ Permitted("high") = {"use"}
        /\ Permitted("low") = {"use", "verify", "clarify"}
    BY DEF Permitted
  <1>4. Use(f, "medium") = Use(f, "low")
    BY DEF Use, Denied
  <1>5. Use(f, "medium") # "use" => Use(f, "high") # "use"
    BY DEF Use, Denied
  <1>6. Blocks(f, "low") => Blocks(f, "medium")
    BY <1>1, <1>2, <1>3, <1>4 DEF Blocks
  <1>7. Blocks(f, "medium") => Blocks(f, "high")
    BY <1>1, <1>2, <1>3, <1>5 DEF Blocks
  <1>8. QED
    BY <1>6, <1>7

-----------------------------------------------------------------------------
(* Records and connections                                                 *)

LEMMA Fields ==
  ASSUME NEW x \in Requests
  PROVE  /\ x.pc \in Phases \cup {"ready", "cleared"} /\ x.doing \in {"query", "gate"}
         /\ x.ids \subseteq Ids /\ x.reach \subseteq Scopes /\ x.lanes \subseteq Lanes
         /\ x.broken \in BOOLEAN /\ x.now \subseteq Ids /\ x.held \in {0, 1}
         /\ x.seen \in [Ids -> Seen] /\ x.rivals \subseteq Ids /\ x.cited \subseteq Ids
         /\ x.uses \in [Ids -> Uses \cup {"absent"}] /\ x.blocking \subseteq Ids
         /\ x.gone \subseteq Ids /\ x.hidden \subseteq Ids /\ x.opposed \subseteq (Ids \X Ids)
         /\ x.calls \in Nat
  BY DEF Requests

LEMMA NoReqTyped ==
  /\ NoReq \in Requests
  /\ NoReq.pc = "ready" /\ NoReq.doing = "query" /\ NoReq.ids = {} /\ NoReq.reach = {}
  /\ NoReq.lanes = {} /\ NoReq.now = {} /\ NoReq.held = 0 /\ NoReq.rivals = {}
  /\ NoReq.cited = {} /\ NoReq.blocking = {} /\ NoReq.gone = {} /\ NoReq.hidden = {}
  /\ NoReq.opposed = {} /\ NoReq.calls = 0 /\ NoReq.broken = FALSE
  /\ \A i \in Ids : NoReq.seen[i] = "missing" /\ NoReq.uses[i] = "absent"
  <1>1. [i \in Ids |-> "missing"] \in [Ids -> Seen]
    BY DEF Seen
  <1>2. [i \in Ids |-> "absent"] \in [Ids -> Uses \cup {"absent"}]
    OBVIOUS
  <1>3. QED
    BY <1>1, <1>2 DEF NoReq, Requests

\* A request that is over can be taken up again.
LEMMA EndedIs ==
  ASSUME TypeOK, NEW a \in Agents, NEW t
  PROVE  /\ Ended(a) \in Requests /\ Ended(a).held = 0
         /\ Good(a, Ended(a), t)
  <1> DEFINE x == Ended(a)
  <1>1. /\ x \in Requests /\ x.pc = "ready" /\ x.doing = "query" /\ x.held = 0
        /\ x.gone = {} /\ x.hidden = {} /\ x.opposed = {}
        /\ \A i \in Ids : x.seen[i] = "missing" /\ x.uses[i] = "absent"
    <2>1. req[a].calls \in Nat
      BY Fields DEF TypeOK
    <2>2. QED
      BY <2>1, NoReqTyped DEF Ended, Requests
  <1> HIDE DEF x
  <1>2. Good(a, x, t)
    BY <1>1 DEF Good, Shape, Looked, GoneStays, HiddenStays, OpposedStays, Verdict, Packet,
                OnRecord, Reading
  <1>3. QED
    BY <1>1, <1>2 DEF x

\* What is left of a request whose last transaction is over.
LEMMA FinishedIs ==
  ASSUME TypeOK, NEW a \in Agents, NEW pc \in Phases,
         NEW uses \in [Ids -> Uses \cup {"absent"}], NEW blocking \in SUBSET Ids
  PROVE  LET x == Finished(a, pc, uses, blocking) IN
           /\ x \in Requests
           /\ x.pc = pc /\ x.held = 0 /\ x.uses = uses /\ x.blocking = blocking
           /\ x.reach = {} /\ x.doing = req[a].doing /\ x.ids = req[a].ids
           /\ x.gone = req[a].gone /\ x.hidden = req[a].hidden /\ x.opposed = req[a].opposed
           /\ \A i \in Ids : x.seen[i] = "missing"
  <1>1. req[a] \in Requests
    BY DEF TypeOK
  <1>2. NoReq.seen \in [Ids -> Seen]
    BY NoReqTyped, Fields
  <1>3. QED
    BY <1>1, <1>2, NoReqTyped DEF Finished, Requests

Holding == {a \in Agents : req[a].held = 1}

LEMMA HoldingIs ==
  /\ IsFiniteSet(Holding) /\ Cardinality(Holding) \in Nat
  /\ InUse = Cardinality(Holding)
  <1>1. IsFiniteSet(Holding)
    BY RetrievalAssumption, FS_Subset DEF Holding
  <1>2. QED
    BY <1>1, FS_CardinalityType DEF InUse, Holding

\* A request that changes takes a connection only if one is free.
LEMMA PoolKept ==
  ASSUME TypeOK, NEW a \in Agents, NEW x, req' = [req EXCEPT ![a] = x],
         x.held = 1 => req[a].held = 1 \/ Free
  PROVE  InUse' <= MaxConnections
  <1>1. /\ IsFiniteSet(Holding) /\ Cardinality(Holding) \in Nat
        /\ InUse = Cardinality(Holding)
    BY HoldingIs
  <1>2. InUse' = Cardinality(Holding')
    BY DEF InUse, Holding
  <1>3. MaxConnections \in Nat /\ InUse <= MaxConnections
    BY RetrievalAssumption DEF TypeOK
  <1>4. req'[a] = x /\ \A b \in Agents \ {a} : req'[b] = req[b]
    BY DEF TypeOK
  <1>5. CASE Holding' \subseteq Holding
    <2>1. Cardinality(Holding') <= Cardinality(Holding)
      BY <1>1, <1>5, FS_Subset
    <2>2. IsFiniteSet(Holding')
      BY <1>1, <1>5, FS_Subset
    <2>3. Cardinality(Holding') \in Nat
      BY <2>2, FS_CardinalityType
    <2>4. QED
      BY <1>1, <1>2, <1>3, <2>1, <2>3
  <1>6. CASE ~(Holding' \subseteq Holding)
    <2>1. Holding' = Holding \cup {a} /\ x.held = 1 /\ req[a].held # 1
      BY <1>4, <1>6 DEF Holding
    <2>2. a \notin Holding
      BY <2>1 DEF Holding
    <2>3. Cardinality(Holding \cup {a}) = Cardinality(Holding) + 1
      BY <1>1, <2>2, FS_AddElement
    <2>4. InUse < MaxConnections
      BY <2>1 DEF Free
    <2>5. QED
      BY <1>1, <1>2, <1>3, <2>1, <2>3, <2>4
  <1>7. QED
    BY <1>5, <1>6

LEMMA PoolSame ==
  ASSUME TypeOK, \A a \in Agents : req'[a].held = req[a].held
  PROVE  InUse' <= MaxConnections
  <1>1. Holding' = Holding
    BY DEF Holding
  <1>2. InUse = Cardinality(Holding) /\ InUse' = Cardinality(Holding')
    BY DEF InUse, Holding
  <1>3. QED
    BY <1>1, <1>2 DEF TypeOK

\* What is known of a record and does not depend on the step.
LEMMA GoodNow ==
  ASSUME NEW b \in Agents, NEW y, NEW z, req'[b] = y, trace'[b] = z, Good(b, y, z)'
  PROVE  Good(b, req[b], trace[b])'
  BY DEF Good, Shape, Looked, GoneStays, HiddenStays, OpposedStays, Verdict, Packet, OnRecord,
         Lost, Sound

LEMMA GoodKept ==
  ASSUME NEW b, NEW y, NEW z, UNCHANGED store, Good(b, y, z)
  PROVE  Good(b, y, z)'
  BY DEF Good, Shape, Looked, GoneStays, HiddenStays, OpposedStays, Verdict, Packet, OnRecord,
         Lost, Sound, Standing, Reach, Rivals, store

\* It is enough to know the record a step leaves.
LEMMA OwnStep ==
  ASSUME IInv, NEW a \in Agents, NEW x \in Requests, NEW t \in Traces,
         req' = [req EXCEPT ![a] = x], trace' = [trace EXCEPT ![a] = t],
         UNCHANGED store, faults' \in Nat,
         x.held = 1 => req[a].held = 1 \/ Free,
         Good(a, x, t)
  PROVE  IInv'
  <1>1. TypeOK /\ Nameless /\ \A b \in Agents : Good(b, req[b], trace[b])
    BY DEF IInv
  <1>2. /\ req'[a] = x /\ trace'[a] = t
        /\ \A b \in Agents \ {a} : req'[b] = req[b] /\ trace'[b] = trace[b]
    BY <1>1 DEF TypeOK
  <1>3. \A b \in Agents : Good(b, req'[b], trace'[b])
    BY <1>1, <1>2
  <1>4. ASSUME NEW b \in Agents PROVE Good(b, req[b], trace[b])'
    <2>1. PICK y : y = req'[b]
      OBVIOUS
    <2>2. PICK z : z = trace'[b]
      OBVIOUS
    <2>3. Good(b, y, z)
      BY <1>3, <2>1, <2>2
    <2>4. QED
      BY <2>1, <2>2, <2>3, GoodKept, GoodNow
  <1>5. Nameless'
    BY <1>1 DEF Nameless, store
  <1>6. TypeOK'
    <2>1. req' \in [Agents -> Requests] /\ trace' \in [Agents -> Traces]
      BY <1>1 DEF TypeOK
    <2>2. \A b \in Agents : req'[b].held = 1 <=> req'[b].pc \in {"relations", "evidence", "probe"}
      BY <1>3 DEF Good, Shape, Reading
    <2>3. InUse' <= MaxConnections
      BY <1>1, PoolKept
    <2>4. QED
      BY <1>1, <2>1, <2>2, <2>3 DEF TypeOK, store
  <1>7. QED
    BY <1>4, <1>5, <1>6 DEF IInv

LEMMA OwnRequest ==
  ASSUME IInv, NEW a \in Agents, NEW x \in Requests, Step(a, x), UNCHANGED trace,
         x.held = 1 => req[a].held = 1 \/ Free,
         Good(a, x, trace[a])
  PROVE  IInv'
  <1>1. trace \in [Agents -> Traces] /\ faults \in Nat
    BY DEF IInv, TypeOK
  <1>2. trace' = [trace EXCEPT ![a] = trace[a]] /\ trace[a] \in Traces /\ faults' \in Nat
    BY <1>1 DEF Step
  <1>3. QED
    BY <1>2, OwnStep DEF Step

-----------------------------------------------------------------------------
(* What happens meanwhile                                                  *)

LEMMA ForgetIs ==
  ASSUME TypeOK, NEW b, NEW d, Forget(b, d)
  PROVE  /\ req' \in [Agents -> Requests]
         /\ \A a \in Agents :
              LET x == req[a]
                  y == req'[a]
              IN /\ y.pc = x.pc /\ y.doing = x.doing /\ y.ids = x.ids /\ y.reach = x.reach
                 /\ y.now = x.now /\ y.held = x.held /\ y.seen = x.seen /\ y.rivals = x.rivals
                 /\ y.cited = x.cited /\ y.uses = x.uses /\ y.blocking = x.blocking
                 /\ y.gone = x.gone /\ y.hidden = x.hidden
                 /\ y.opposed \subseteq x.opposed
                 /\ a \in b => \A p \in y.opposed : p[2] \notin d
  <1>1. \A a \in Agents : req[a] \in Requests
    BY DEF TypeOK
  <1>2. ASSUME NEW a \in Agents, a \in b
        PROVE  /\ req'[a] = [req[a] EXCEPT !.opposed = {p \in req[a].opposed : p[2] \notin d}]
               /\ req'[a] \in Requests
    BY <1>1, <1>2 DEF Forget, Requests
  <1>3. ASSUME NEW a \in Agents, a \notin b
        PROVE  req'[a] = req[a]
    BY <1>3 DEF Forget
  <1>4. \A a \in Agents : req'[a] \in Requests
    BY <1>1, <1>2, <1>3
  <1>5. req' \in [Agents -> Requests]
    BY <1>4 DEF Forget
  <1>6. ASSUME NEW a \in Agents
        PROVE  LET x == req[a]
                   y == req'[a]
               IN /\ y.pc = x.pc /\ y.doing = x.doing /\ y.ids = x.ids /\ y.reach = x.reach
                  /\ y.now = x.now /\ y.held = x.held /\ y.seen = x.seen /\ y.rivals = x.rivals
                  /\ y.cited = x.cited /\ y.uses = x.uses /\ y.blocking = x.blocking
                  /\ y.gone = x.gone /\ y.hidden = x.hidden
                  /\ y.opposed \subseteq x.opposed
                  /\ a \in b => \A p \in y.opposed : p[2] \notin d
    <2>1. PICK x : x = req[a]
      OBVIOUS
    <2>2. PICK y : y = req'[a]
      OBVIOUS
    <2>3. x \in Requests
      BY <1>1, <2>1
    <2>4. CASE a \in b
      <3>1. y = [x EXCEPT !.opposed = {p \in x.opposed : p[2] \notin d}]
        BY <1>2, <2>1, <2>2, <2>4
      <3>2. QED
        BY <2>1, <2>2, <2>3, <2>4, <3>1 DEF Requests
    <2>5. CASE a \notin b
      BY <1>3, <2>5
    <2>6. QED
      BY <2>4, <2>5
  <1>7. QED
    BY <1>5, <1>6

SameRequest(x, y) ==
  /\ y.pc = x.pc /\ y.doing = x.doing /\ y.ids = x.ids /\ y.reach = x.reach
  /\ y.now = x.now /\ y.held = x.held /\ y.seen = x.seen /\ y.rivals = x.rivals
  /\ y.cited = x.cited /\ y.uses = x.uses /\ y.blocking = x.blocking
  /\ y.gone = x.gone /\ y.hidden = x.hidden
  /\ y.opposed \subseteq x.opposed

\* A change takes away and contradicts more, and what it takes the side of is
\* forgotten.
LEMMA GoodShrinks ==
  ASSUME NEW a \in Agents, NEW x, NEW y, NEW t, Good(a, x, t), SameRequest(x, y),
         redacted \subseteq redacted', contradicts \subseteq contradicts',
         \A i : ~Standing(i) => ~Standing(i)', Reach(a)' \subseteq Reach(a),
         \A p \in y.opposed : status'[p[2]] = "accepted" /\ ScopeOf[p[2]] \in Reach(a)'
  PROVE  Good(a, y, t)'
  <1>1. Shape(y)' /\ Looked(y)' /\ Packet(y)' /\ OnRecord(y, t)'
    BY DEF Good, SameRequest, Shape, Looked, Packet, OnRecord
  <1>2. GoneStays(y)'
    BY DEF Good, SameRequest, GoneStays, Lost
  <1>3. HiddenStays(a, y)'
    BY DEF Good, SameRequest, HiddenStays
  <1>4. OpposedStays(a, y)'
    <2>1. \A i : Rivals(i) \subseteq Rivals(i)'
      BY DEF Rivals
    <2>2. QED
      BY <2>1 DEF Good, SameRequest, OpposedStays
  <1>5. Verdict(a, y)'
    BY DEF Good, SameRequest, Verdict, Sound
  <1>6. QED
    BY <1>1, <1>2, <1>3, <1>4, <1>5 DEF Good

LEMMA HappenStep ==
  ASSUME IInv, req' \in [Agents -> Requests], UNCHANGED <<trace, faults>>, Change,
         status' \in [Ids -> Seen], redacted' \subseteq Ids, past' \subseteq Ids,
         contradicts' \subseteq Ids \X Ids, granted' \subseteq Grants,
         \A i : status[i] \notin {"accepted", "disputed", "superseded"} => status'[i] = status[i],
         redacted \subseteq redacted', contradicts \subseteq contradicts',
         granted' \subseteq granted,
         \A i : ~Standing(i) => ~Standing(i)',
         \A a \in Agents :
           /\ SameRequest(req[a], req'[a])
           /\ \A p \in req'[a].opposed :
                status'[p[2]] = "accepted" /\ ScopeOf[p[2]] \in Reach(a)'
  PROVE  IInv'
  <1>1. TypeOK /\ Nameless /\ \A b \in Agents : Good(b, req[b], trace[b])
    BY DEF IInv
  <1>2. ASSUME NEW a \in Agents PROVE Good(a, req[a], trace[a])'
    <2>1. PICK x : x = req[a]
      OBVIOUS
    <2>2. PICK y : y = req'[a]
      OBVIOUS
    <2>3. PICK t : t = trace[a]
      OBVIOUS
    <2>4. Reach(a)' \subseteq Reach(a)
      BY DEF Reach
    <2>5. Good(a, x, t) /\ SameRequest(x, y)
      BY <1>1, <2>1, <2>2, <2>3
    <2>6. \A p \in y.opposed : status'[p[2]] = "accepted" /\ ScopeOf[p[2]] \in Reach(a)'
      BY <2>2
    <2>7. Good(a, y, t)'
      BY <2>4, <2>5, <2>6, GoodShrinks
    <2>8. QED
      BY <2>2, <2>3, <2>7, GoodNow
  <1>3. Nameless'
    BY <1>1 DEF Nameless
  <1>4. TypeOK'
    <2>1. \A a \in Agents : req'[a].held = req[a].held /\ req'[a].pc = req[a].pc
      BY DEF SameRequest
    <2>2. InUse' <= MaxConnections
      BY <1>1, <2>1, PoolSame
    <2>3. \A a \in Agents : req'[a].held = 1 <=> req'[a].pc \in {"relations", "evidence", "probe"}
      BY <1>1, <2>1 DEF TypeOK
    <2>4. changes' \in Nat /\ faults' \in Nat /\ trace' \in [Agents -> Traces]
      BY <1>1 DEF Change, TypeOK
    <2>5. QED
      BY <2>2, <2>3, <2>4 DEF TypeOK
  <1>5. QED
    BY <1>2, <1>3, <1>4 DEF IInv

LEMMA StillOpposed ==
  ASSUME IInv, NEW a \in Agents, NEW p \in req[a].opposed
  PROVE  /\ status[p[2]] = "accepted" /\ ScopeOf[p[2]] \in Reach(a)
         /\ p \in Ids \X Ids
  <1>1. req[a] \in Requests /\ Good(a, req[a], trace[a])
    BY DEF IInv, TypeOK
  <1>2. req[a].opposed \subseteq Ids \X Ids
    BY <1>1, Fields
  <1>3. QED
    BY <1>1, <1>2 DEF Good, OpposedStays

LEMMA SetStatusStep ==
  ASSUME IInv, NEW i \in Ids, NEW to \in Statuses, SetStatus(i, to)
  PROVE  IInv'
  <1>1. TypeOK
    BY DEF IInv
  <1>2. Change /\ Forget(Agents, {i}) /\ UNCHANGED <<redacted, past, contradicts, granted, trace, faults>>
    BY DEF SetStatus
  <1>3. /\ status[i] \in {"accepted", "disputed", "superseded"}
        /\ status' = [status EXCEPT ![i] = to]
        /\ status[i] = "superseded" => to = "revoked"
    BY DEF SetStatus
  <1>4. status' \in [Ids -> Seen] /\ DOMAIN status = Ids
    BY <1>1, <1>3 DEF TypeOK, Seen
  <1>5. \A j : status[j] \notin {"accepted", "disputed", "superseded"} => status'[j] = status[j]
    BY <1>3, <1>4
  <1>6. \A j : ~Standing(j) => ~Standing(j)'
    BY <1>3, <1>4 DEF Standing
  <1>7. /\ req' \in [Agents -> Requests]
        /\ \A a \in Agents : SameRequest(req[a], req'[a])
                             /\ \A p \in req'[a].opposed : p[2] \notin {i}
    BY <1>1, <1>2, ForgetIs DEF SameRequest
  <1>8. ASSUME NEW a \in Agents, NEW p \in req'[a].opposed
        PROVE  status'[p[2]] = "accepted" /\ ScopeOf[p[2]] \in Reach(a)'
    <2>1. p \in req[a].opposed /\ p[2] # i
      BY <1>7 DEF SameRequest
    <2>2. status[p[2]] = "accepted" /\ ScopeOf[p[2]] \in Reach(a) /\ p \in Ids \X Ids
      BY <2>1, StillOpposed
    <2>3. Reach(a)' = Reach(a)
      BY <1>2 DEF Reach
    <2>4. QED
      BY <1>3, <1>4, <2>1, <2>2, <2>3
  <1>9. QED
    BY <1>1, <1>2, <1>4, <1>5, <1>6, <1>7, <1>8, HappenStep DEF TypeOK

LEMMA WithdrawStep ==
  ASSUME IInv, NEW g \in Grants, Withdraw(g)
  PROVE  IInv'
  <1>1. TypeOK
    BY DEF IInv
  <1> DEFINE lost == {i \in Ids : ScopeOf[i] = g[2]}
  <1>2. /\ Change /\ Forget({g[1]}, lost) /\ granted' = granted \ {g}
        /\ UNCHANGED <<status, redacted, past, contradicts, trace, faults>>
    BY DEF Withdraw
  <1>3. /\ req' \in [Agents -> Requests]
        /\ \A a \in Agents :
             /\ SameRequest(req[a], req'[a])
             /\ a = g[1] => \A p \in req'[a].opposed : p[2] \notin lost
    BY <1>1, <1>2, ForgetIs DEF SameRequest
  <1>4. \A j : ~Standing(j) => ~Standing(j)'
    BY <1>2 DEF Standing
  <1>5. ASSUME NEW a \in Agents, NEW p \in req'[a].opposed
        PROVE  status'[p[2]] = "accepted" /\ ScopeOf[p[2]] \in Reach(a)'
    <2>1. p \in req[a].opposed
      BY <1>3 DEF SameRequest
    <2>2. status[p[2]] = "accepted" /\ ScopeOf[p[2]] \in Reach(a) /\ p \in Ids \X Ids
      BY <2>1, StillOpposed
    <2>3. ScopeOf[p[2]] \in Reach(a)'
      <3>1. p[2] \in Ids
        BY <2>2
      <3>2. a = g[1] => ScopeOf[p[2]] # g[2]
        BY <1>3, <3>1
      <3>3. <<a, ScopeOf[p[2]]>> # g
        BY <3>2
      <3>4. QED
        BY <1>2, <2>2, <3>3 DEF Reach
    <2>4. QED
      BY <1>2, <2>2, <2>3
  <1>6. QED
    BY <1>1, <1>2, <1>3, <1>4, <1>5, HappenStep DEF TypeOK

\* What leaves the requests as they are.
LEMMA QuietStep ==
  ASSUME IInv, UNCHANGED <<req, trace, status, granted, faults>>, Change,
         redacted' \subseteq Ids, past' \subseteq Ids, contradicts' \subseteq Ids \X Ids,
         redacted \subseteq redacted', contradicts \subseteq contradicts'
  PROVE  IInv'
  <1>1. TypeOK
    BY DEF IInv
  <1>2. \A a \in Agents : SameRequest(req[a], req'[a])
    BY DEF SameRequest
  <1>3. \A j : ~Standing(j) => ~Standing(j)'
    BY DEF Standing
  <1>4. ASSUME NEW a \in Agents, NEW p \in req'[a].opposed
        PROVE  status'[p[2]] = "accepted" /\ ScopeOf[p[2]] \in Reach(a)'
    <2>1. Reach(a)' = Reach(a)
      BY DEF Reach
    <2>2. QED
      BY <2>1, StillOpposed
  <1>5. QED
    BY <1>1, <1>2, <1>3, <1>4, HappenStep DEF TypeOK

LEMMA HappenKeeps ==
  ASSUME IInv, Happen
  PROVE  IInv'
  <1>1. TypeOK
    BY DEF IInv
  <1>2. ASSUME NEW i \in Ids, Redact(i) PROVE IInv'
    BY <1>1, <1>2, QuietStep DEF Redact, TypeOK
  <1>3. ASSUME NEW i \in Ids, Expire(i) PROVE IInv'
    BY <1>1, <1>3, QuietStep DEF Expire, TypeOK
  <1>4. ASSUME NEW i \in Ids, NEW j \in Ids, Contradict(i, j) PROVE IInv'
    BY <1>1, <1>4, QuietStep DEF Contradict, TypeOK
  <1>5. QED
    BY <1>2, <1>3, <1>4, SetStatusStep, WithdrawStep DEF Happen

-----------------------------------------------------------------------------
(* A request begins                                                        *)

LEMMA StartedIs ==
  ASSUME IInv, NEW a \in Agents, NEW what \in {"query", "gate"}, NEW ids \in SUBSET Ids,
         what = "gate" => ids \in Needs
  PROVE  /\ Started(a, what, ids) \in Requests /\ Started(a, what, ids).held = 0
         /\ Good(a, Started(a, what, ids), trace[a])
  <1>1. PICK x : x = Started(a, what, ids)
    OBVIOUS
  <1>2. req[a].calls + 1 \in Nat
    BY Fields DEF IInv, TypeOK
  <1>3. past \subseteq Ids /\ GoneNow \subseteq Ids /\ HiddenNow(a) \subseteq Ids
        /\ OpposedNow(a) \subseteq Ids \X Ids
    BY DEF IInv, TypeOK, GoneNow, HiddenNow, OpposedNow
  <1>4. /\ x \in Requests /\ x.pc = "plan" /\ x.doing = what /\ x.ids = ids /\ x.now = past
        /\ x.gone = GoneNow /\ x.hidden = HiddenNow(a) /\ x.opposed = OpposedNow(a)
        /\ x.held = 0 /\ x.reach = {} /\ \A i \in Ids : x.seen[i] = "missing" /\ x.uses[i] = "absent"
    <2>1. "plan" \in Phases
      BY DEF Phases
    <2>2. QED
      BY <1>1, <1>2, <1>3, <2>1, NoReqTyped DEF Started, Requests
  <1>5. Shape(x) /\ Looked(x) /\ Packet(x) /\ Verdict(a, x) /\ OnRecord(x, trace[a])
    BY <1>4 DEF Shape, Looked, Packet, Verdict, OnRecord, Reading
  <1>6. GoneStays(x)
    BY <1>4 DEF GoneStays, Lost, GoneNow, Reading
  <1>7. HiddenStays(a, x)
    BY <1>3, <1>4 DEF HiddenStays, HiddenNow
  <1>8. OpposedStays(a, x)
    BY <1>4 DEF OpposedStays, OpposedNow, HiddenNow, Reading
  <1>9. QED
    BY <1>1, <1>4, <1>5, <1>6, <1>7, <1>8 DEF Good

LEMMA AskStep ==
  ASSUME IInv, NEW a \in Agents, Ask(a)
  PROVE  IInv'
  <1>1. CASE req' = [req EXCEPT ![a] = Started(a, "query", {})]
    <2>1. Step(a, Started(a, "query", {})) /\ UNCHANGED trace
      BY <1>1 DEF Ask, Step
    <2>2. QED
      BY <2>1, StartedIs, OwnRequest
  <1>2. ASSUME NEW ids \in Needs, req' = [req EXCEPT ![a] = Started(a, "gate", ids)]
        PROVE  IInv'
    <2>1. Step(a, Started(a, "gate", ids)) /\ UNCHANGED trace
      BY <1>2 DEF Ask, Step
    <2>2. ids \in SUBSET Ids
      BY RetrievalAssumption
    <2>3. QED
      BY <2>1, <2>2, StartedIs, OwnRequest
  <1>3. QED
    BY <1>1, <1>2 DEF Ask

LEMMA ReachTyped ==
  ASSUME TypeOK, NEW a \in Agents
  PROVE  Reach(a) \subseteq Scopes
  BY RetrievalAssumption DEF Reach

LEMMA PlanStep ==
  ASSUME IInv, NEW a \in Agents, Plan(a)
  PROVE  IInv'
  <1>1. req[a].pc = "plan" /\ req[a] \in Requests /\ Good(a, req[a], trace[a]) /\ TypeOK
    BY DEF Plan, IInv, TypeOK
  <1>2. PICK pc : pc = IF req[a].doing = "gate" THEN "claims"
                       ELSE IF Reach(a) = {} THEN "trace" ELSE "lanes"
    OBVIOUS
  <1>3. PICK left : left = IF req[a].doing = "query" THEN Lanes ELSE {}
    OBVIOUS
  <1>4. PICK x : x = [req[a] EXCEPT !.reach = Reach(a), !.lanes = left, !.pc = pc]
    OBVIOUS
  <1>5. Step(a, x) /\ UNCHANGED trace
    BY <1>2, <1>3, <1>4 DEF Plan
  <1>6. pc \in Phases /\ left \in SUBSET Lanes /\ Reach(a) \in SUBSET Scopes
        /\ (pc = "claims" <=> req[a].doing = "gate") /\ pc \in {"claims", "trace", "lanes"}
    BY <1>1, <1>2, <1>3, ReachTyped DEF Phases, Requests
  <1>7. /\ x \in Requests /\ x.pc = pc /\ x.reach = Reach(a) /\ x.doing = req[a].doing
        /\ x.ids = req[a].ids /\ x.now = req[a].now /\ x.held = req[a].held
        /\ x.seen = req[a].seen /\ x.uses = req[a].uses /\ x.blocking = req[a].blocking
        /\ x.gone = req[a].gone /\ x.hidden = req[a].hidden /\ x.opposed = req[a].opposed
    BY <1>1, <1>4, <1>6 DEF Requests
  <1>8. Shape(x) /\ Looked(x) /\ Packet(x) /\ Verdict(a, x) /\ OnRecord(x, trace[a])
    <2>1. x.pc \notin Reading /\ req[a].pc \notin Reading
      BY <1>1, <1>6, <1>7 DEF Reading
    <2>2. Shape(x)
      BY <1>1, <1>6, <1>7, <2>1, Fields DEF Good, Shape
    <2>3. Looked(x)
      BY <1>1, <1>7, <2>1 DEF Good, Looked
    <2>4. Packet(x)
      BY <1>1, <1>7 DEF Good, Packet
    <2>5. QED
      BY <1>6, <1>7, <2>2, <2>3, <2>4 DEF Verdict, OnRecord
  <1>9. GoneStays(x)
    BY <1>1, <1>6, <1>7 DEF Good, GoneStays, Lost, Reading
  <1>10. HiddenStays(a, x)
    BY <1>1, <1>7 DEF Good, HiddenStays
  <1>11. OpposedStays(a, x)
    BY <1>1, <1>6, <1>7 DEF Good, OpposedStays, Reading
  <1>12. Good(a, x, trace[a])
    BY <1>8, <1>9, <1>10, <1>11 DEF Good
  <1>13. QED
    BY <1>5, <1>7, <1>12, OwnRequest

-----------------------------------------------------------------------------
(* The lanes                                                               *)

LEMMA LaneEndsIs ==
  ASSUME IInv, NEW a \in Agents, req[a].pc = "lanes", NEW lane \in Lanes,
         NEW hits \in SUBSET Ids, NEW broken \in BOOLEAN
  PROVE  LET x == LaneEnds(a, lane, hits, broken)
         IN  x \in Requests /\ Good(a, x, trace[a]) /\ x.held = 0
  <1>1. req[a] \in Requests /\ Good(a, req[a], trace[a]) /\ TypeOK
    BY DEF IInv, TypeOK
  <1>2. PICK left : left = req[a].lanes \ {lane}
    OBVIOUS
  <1>3. PICK failed : failed = (req[a].broken \/ broken)
    OBVIOUS
  <1>4. CASE left = {} /\ failed
    <2>1. LaneEnds(a, lane, hits, broken) = Ended(a)
      BY <1>2, <1>3, <1>4 DEF LaneEnds
    <2>2. QED
      BY <1>1, <2>1, EndedIs
  <1>5. CASE ~(left = {} /\ failed)
    <2>1. PICK pc : pc = IF left = {} THEN "claims" ELSE "lanes"
      OBVIOUS
    <2>2. PICK x : x = [req[a] EXCEPT !.lanes = left, !.broken = failed,
                                      !.ids = req[a].ids \cup hits, !.pc = pc]
      OBVIOUS
    <2>3. LaneEnds(a, lane, hits, broken) = x
      BY <1>2, <1>3, <1>5, <2>1, <2>2 DEF LaneEnds
    <2>4. pc \in {"claims", "lanes"} /\ pc \in Phases /\ left \in SUBSET Lanes
          /\ failed \in BOOLEAN /\ req[a].ids \cup hits \in SUBSET Ids
      BY <1>1, <1>2, <1>3, <2>1, Fields DEF Phases
    <2>5. /\ x \in Requests /\ x.pc = pc /\ x.reach = req[a].reach /\ x.doing = req[a].doing
          /\ x.now = req[a].now /\ x.held = req[a].held /\ x.seen = req[a].seen
          /\ x.uses = req[a].uses /\ x.blocking = req[a].blocking
          /\ x.gone = req[a].gone /\ x.hidden = req[a].hidden /\ x.opposed = req[a].opposed
      BY <1>1, <2>2, <2>4 DEF Requests
    <2>6. req[a].doing = "query" /\ req[a].held = 0
      BY <1>1, Fields DEF Good, Shape, Reading
    <2>7. Shape(x) /\ Looked(x) /\ Packet(x) /\ Verdict(a, x) /\ OnRecord(x, trace[a])
      BY <1>1, <2>4, <2>5, <2>6 DEF Good, Shape, Looked, Packet, Verdict, OnRecord, Reading
    <2>8. GoneStays(x)
      BY <1>1, <2>4, <2>5 DEF Good, GoneStays, Lost, Reading
    <2>9. HiddenStays(a, x)
      BY <1>1, <2>5 DEF Good, HiddenStays
    <2>10. OpposedStays(a, x)
      BY <1>1, <2>4, <2>5 DEF Good, OpposedStays, Reading
    <2>11. QED
      BY <2>3, <2>5, <2>6, <2>7, <2>8, <2>9, <2>10 DEF Good
  <1>6. QED
    BY <1>4, <1>5

LEMMA RetrieveStep ==
  ASSUME IInv, NEW a \in Agents, NEW lane \in Lanes, NEW hits \in SUBSET Ids,
         Retrieve(a, lane, hits)
  PROVE  IInv'
  <1>1. PICK x : x = LaneEnds(a, lane, hits, FALSE)
    OBVIOUS
  <1>2. Step(a, x) /\ UNCHANGED trace /\ req[a].pc = "lanes"
    BY <1>1 DEF Retrieve
  <1>3. x \in Requests /\ Good(a, x, trace[a]) /\ x.held = 0
    BY <1>1, <1>2, LaneEndsIs
  <1>4. QED
    BY <1>2, <1>3, OwnRequest

\* A fault that ends in a record the request may have.
LEMMA FaultStep ==
  ASSUME IInv, NEW a \in Agents, NEW x \in Requests, req' = [req EXCEPT ![a] = x],
         UNCHANGED <<store, trace>>, faults' = faults + 1, x.held = 0, Good(a, x, trace[a])
  PROVE  IInv'
  <1>1. trace \in [Agents -> Traces] /\ faults' \in Nat
    BY DEF IInv, TypeOK
  <1>2. trace' = [trace EXCEPT ![a] = trace[a]] /\ trace[a] \in Traces
    BY <1>1
  <1>3. UNCHANGED store /\ ~(x.held = 1)
    OBVIOUS
  <1>4. QED
    BY <1>1, <1>2, <1>3, OwnStep

LEMMA LaneFailsStep ==
  ASSUME IInv, NEW a \in Agents, NEW lane \in Lanes, LaneFails(a, lane)
  PROVE  IInv'
  <1>1. PICK x : x = LaneEnds(a, lane, {}, TRUE)
    OBVIOUS
  <1>2. req' = [req EXCEPT ![a] = x] /\ UNCHANGED <<store, trace>> /\ req[a].pc = "lanes"
        /\ faults' = faults + 1
    BY <1>1 DEF LaneFails
  <1>3. x \in Requests /\ Good(a, x, trace[a]) /\ x.held = 0
    BY <1>1, <1>2, LaneEndsIs
  <1>4. QED
    BY <1>2, <1>3, FaultStep

LEMMA EndedStep ==
  ASSUME IInv, NEW a \in Agents, Step(a, Ended(a)), UNCHANGED trace
  PROVE  IInv'
  BY EndedIs, OwnRequest DEF IInv

LEMMA PoolTimeoutStep ==
  ASSUME IInv, NEW a \in Agents, PoolTimeout(a)
  PROVE  IInv'
  <1>1. CASE req[a].pc = "lanes" /\ req[a].lanes # {}
    <2>1. PICK lane : lane = CHOOSE l \in req[a].lanes : TRUE
      OBVIOUS
    <2>2. lane \in Lanes
      BY <1>1, <2>1, Fields DEF IInv, TypeOK
    <2>3. PICK x : x = LaneEnds(a, lane, {}, TRUE)
      OBVIOUS
    <2>4. Step(a, x) /\ UNCHANGED trace
      BY <1>1, <2>1, <2>3 DEF PoolTimeout
    <2>5. x \in Requests /\ Good(a, x, trace[a]) /\ x.held = 0
      BY <1>1, <2>2, <2>3, LaneEndsIs
    <2>6. QED
      BY <2>4, <2>5, OwnRequest
  <1>2. CASE req[a].pc = "lanes" /\ req[a].lanes = {}
    <2>1. PICK lane : lane = CHOOSE l \in req[a].lanes : TRUE
      OBVIOUS
    <2>2. LaneEnds(a, lane, {}, TRUE) = Ended(a)
      BY <1>2 DEF LaneEnds
    <2>3. QED
      BY <1>2, <2>1, <2>2, EndedStep DEF PoolTimeout
  <1>3. CASE req[a].pc # "lanes"
    BY <1>3, EndedStep DEF PoolTimeout
  <1>4. QED
    BY <1>1, <1>2, <1>3

-----------------------------------------------------------------------------
(* The transaction that reads                                              *)

LEMMA ReadClaimsStep ==
  ASSUME IInv, NEW a \in Agents, ReadClaims(a)
  PROVE  IInv'
  <1>1. /\ req[a].pc = "claims" /\ req[a] \in Requests /\ Good(a, req[a], trace[a])
        /\ TypeOK /\ Nameless /\ Free
    BY DEF ReadClaims, IInv, TypeOK
  <1>2. PICK seen : seen = [i \in Ids |-> IF i \in req[a].ids /\ Visible(a, i)
                                          THEN status[i] ELSE "missing"]
    OBVIOUS
  <1>3. PICK x : x = [req[a] EXCEPT !.pc = "relations", !.held = 1, !.seen = seen]
    OBVIOUS
  <1>4. Step(a, x) /\ UNCHANGED trace
    BY <1>2, <1>3 DEF ReadClaims
  <1>5. seen \in [Ids -> Seen]
    <2>1. \A i \in Ids : status[i] \in Seen /\ "missing" \in Seen
      BY <1>1 DEF TypeOK, Seen
    <2>2. QED
      BY <1>2, <2>1
  <1>6. /\ x \in Requests /\ x.pc = "relations" /\ x.held = 1 /\ x.seen = seen
        /\ x.reach = req[a].reach /\ x.doing = req[a].doing /\ x.ids = req[a].ids
        /\ x.now = req[a].now /\ x.uses = req[a].uses /\ x.blocking = req[a].blocking
        /\ x.gone = req[a].gone /\ x.hidden = req[a].hidden /\ x.opposed = req[a].opposed
    <2>1. "relations" \in Phases
      BY DEF Phases
    <2>2. QED
      BY <1>1, <1>3, <1>5, <2>1 DEF Requests
  <1>7. /\ \A i \in Ids : seen[i] # "missing" =>
             i \in x.ids /\ i \notin Unknown /\ ScopeOf[i] \in x.reach
        /\ \A i \in Ids : seen[i] = "missing" \/ seen[i] = status[i]
    BY <1>2, <1>6 DEF Visible
  <1>8. x.gone \subseteq Ids /\ x.hidden \subseteq Ids /\ x.opposed \subseteq Ids \X Ids
    BY <1>6, Fields
  <1>9. Shape(x)
    BY <1>1, <1>6 DEF Good, Shape, Reading
  <1>10. Looked(x)
    BY <1>6, <1>7 DEF Looked, Reading
  <1>11. Packet(x) /\ Verdict(a, x) /\ OnRecord(x, trace[a])
    BY <1>1, <1>6 DEF Good, Packet, Verdict, OnRecord
  <1>12. GoneStays(x)
    BY <1>1, <1>6, <1>7, <1>8 DEF Good, GoneStays, Lost, Reading, Standing
  <1>13. HiddenStays(a, x)
    BY <1>1, <1>6, <1>7, <1>8 DEF Good, HiddenStays
  <1>14. OpposedStays(a, x)
    BY <1>1, <1>6 DEF Good, OpposedStays, Reading
  <1>15. QED
    BY <1>1, <1>4, <1>6, <1>9, <1>10, <1>11, <1>12, <1>13, <1>14, OwnRequest DEF Good

LEMMA ReadRelationsStep ==
  ASSUME IInv, NEW a \in Agents, ReadRelations(a)
  PROVE  IInv'
  <1>1. /\ req[a].pc = "relations" /\ req[a] \in Requests /\ Good(a, req[a], trace[a])
        /\ TypeOK /\ Nameless
    BY DEF ReadRelations, IInv, TypeOK
  <1>2. PICK rivals : rivals = {i \in req[a].ids : \E j \in Rivals(i) :
                                  Visible(a, i) /\ Visible(a, j) /\ status[j] = "accepted"}
    OBVIOUS
  <1>3. PICK x : x = [req[a] EXCEPT !.pc = "evidence", !.rivals = rivals]
    OBVIOUS
  <1>4. Step(a, x) /\ UNCHANGED trace
    BY <1>2, <1>3 DEF ReadRelations
  <1>5. rivals \in SUBSET Ids /\ "evidence" \in Phases
    BY <1>1, <1>2, Fields DEF Phases
  <1>6. /\ x \in Requests /\ x.pc = "evidence" /\ x.rivals = rivals
        /\ x.held = req[a].held /\ x.seen = req[a].seen
        /\ x.reach = req[a].reach /\ x.doing = req[a].doing /\ x.ids = req[a].ids
        /\ x.now = req[a].now /\ x.uses = req[a].uses /\ x.blocking = req[a].blocking
        /\ x.gone = req[a].gone /\ x.hidden = req[a].hidden /\ x.opposed = req[a].opposed
    BY <1>1, <1>3, <1>5 DEF Requests
  <1>7. Shape(x) /\ Looked(x)
    BY <1>1, <1>6 DEF Good, Shape, Looked, Reading
  <1>8. Packet(x) /\ Verdict(a, x) /\ OnRecord(x, trace[a])
    BY <1>1, <1>6 DEF Good, Packet, Verdict, OnRecord
  <1>9. GoneStays(x)
    BY <1>1, <1>6 DEF Good, GoneStays, Lost, Reading
  <1>10. HiddenStays(a, x)
    BY <1>1, <1>6 DEF Good, HiddenStays
  <1>11. OpposedStays(a, x)
    <2>1. SUFFICES ASSUME NEW p \in x.opposed
                   PROVE  /\ p[2] \in Rivals(p[1]) /\ status[p[2]] = "accepted"
                          /\ ScopeOf[p[2]] \in Reach(a) /\ ScopeOf[p[2]] \in x.reach
                          /\ x.seen[p[1]] # "missing" => p[1] \in x.rivals
      BY DEF OpposedStays
    <2>2. /\ p[2] \in Rivals(p[1]) /\ status[p[2]] = "accepted"
          /\ ScopeOf[p[2]] \in Reach(a) /\ ScopeOf[p[2]] \in x.reach
      BY <1>1, <1>6, <2>1 DEF Good, OpposedStays, Reading
    <2>3. p \in Ids \X Ids
      BY <1>6, <2>1, Fields
    <2>4. p[2] \notin Unknown
      BY <1>1, <2>2 DEF Nameless
    <2>5. ASSUME x.seen[p[1]] # "missing" PROVE p[1] \in x.rivals
      <3>1. p[1] \in x.ids /\ p[1] \notin Unknown /\ ScopeOf[p[1]] \in x.reach
        BY <1>7, <2>3, <2>5 DEF Looked
      <3>2. Visible(a, p[1]) /\ Visible(a, p[2])
        BY <1>6, <2>2, <2>4, <3>1 DEF Visible
      <3>3. QED
        BY <1>2, <1>6, <2>2, <3>1, <3>2
    <2>6. QED
      BY <2>2, <2>5
  <1>12. x.held = 1 => req[a].held = 1
    BY <1>6
  <1>13. Good(a, x, trace[a])
    BY <1>7, <1>8, <1>9, <1>10, <1>11 DEF Good
  <1>14. QED
    BY <1>4, <1>6, <1>12, <1>13, OwnRequest

Cited(a) == {i \in Found(a) : i \notin redacted}

\* Whatever is found of what was gone is denied, and blocks.
LEMMA GoneIsDenied ==
  ASSUME IInv, NEW a \in Agents, req[a].pc \in {"evidence", "probe"}, NEW cited,
         req[a].pc = "evidence" => cited = Cited(a),
         req[a].pc = "probe" => cited = req[a].cited,
         NEW i \in req[a].gone, i \in Found(a)
  PROVE  /\ Use(FactsOf(a, i, cited), Risk[a]) = "deny"
         /\ Blocks(FactsOf(a, i, cited), Risk[a])
  <1>1. req[a] \in Requests /\ Good(a, req[a], trace[a])
    BY DEF IInv, TypeOK
  <1>2. i \in Ids /\ req[a].seen[i] # "missing"
    BY <1>1, Fields DEF Found
  <1>3. i \notin Unknown
    BY <1>1, <1>2 DEF Good, Looked
  <1>4. Lost(req[a], i)
    BY <1>1 DEF Good, GoneStays, Reading
  <1>5. PICK f : f = FactsOf(a, i, cited)
    OBVIOUS
  <1>6. f.status = req[a].seen[i] /\ f.past = (i \in req[a].now) /\ f.cited = (i \in cited)
    BY <1>5 DEF FactsOf
  <1>7. CASE i \in req[a].now
    BY <1>5, <1>6, <1>7, DenialBlocks DEF Denied
  <1>8. CASE i \in redacted /\ (req[a].pc = "probe" => i \notin req[a].cited)
    <2>1. i \notin cited
      BY <1>8 DEF Cited
    <2>2. QED
      BY <1>5, <1>6, <2>1, DenialBlocks DEF Denied
  <1>9. CASE req[a].seen[i] \notin {"accepted", "disputed"}
    BY <1>5, <1>6, <1>9, DenialBlocks DEF Denied
  <1>10. QED
    BY <1>3, <1>4, <1>7, <1>8, <1>9 DEF Lost, Reading

LEMMA HiddenIsNotFound ==
  ASSUME IInv, NEW a \in Agents
  PROVE  \A i \in req[a].hidden : i \notin Found(a)
  BY DEF IInv, Good, HiddenStays, Found

\* A verdict blocks all that it has to.
LEMMA JudgedIs ==
  ASSUME IInv, NEW a \in Agents, req[a].pc \in {"evidence", "probe"}, req[a].doing = "gate",
         NEW cited,
         req[a].pc = "evidence" => cited = Cited(a),
         req[a].pc = "probe" => cited = req[a].cited
  PROVE  /\ Judged(a, cited) \in Requests /\ Judged(a, cited).held = 0
         /\ Good(a, Judged(a, cited), trace[a])
  <1>1. req[a] \in Requests /\ Good(a, req[a], trace[a]) /\ TypeOK
    BY DEF IInv, TypeOK
  <1>2. PICK blocking : blocking = {i \in req[a].ids :
                          i \notin Found(a) \/ Blocks(FactsOf(a, i, cited), Risk[a])}
    OBVIOUS
  <1>3. PICK x : x = Finished(a, Checked(a), NoReq.uses, blocking)
    OBVIOUS
  <1>4. Judged(a, cited) = x
    BY <1>2, <1>3 DEF Judged
  <1>5. Checked(a) \in Phases /\ Checked(a) \in {"record", "answer"}
        /\ (trace[a].made => Checked(a) = "record")
    BY DEF Checked, Phases
  <1>6. NoReq.uses \in [Ids -> Uses \cup {"absent"}] /\ blocking \in SUBSET Ids
    BY <1>1, <1>2, NoReqTyped, Fields
  <1>7. /\ x \in Requests /\ x.pc = Checked(a) /\ x.held = 0 /\ x.uses = NoReq.uses
        /\ x.blocking = blocking /\ x.reach = {} /\ x.doing = "gate" /\ x.ids = req[a].ids
        /\ x.gone = req[a].gone /\ x.hidden = req[a].hidden /\ x.opposed = req[a].opposed
        /\ \A i \in Ids : x.seen[i] = "missing"
    BY <1>1, <1>3, <1>5, <1>6, FinishedIs
  <1>8. Shape(x) /\ Looked(x) /\ Packet(x)
    BY <1>1, <1>5, <1>7, NoReqTyped DEF Good, Shape, Looked, Packet, Reading
  <1>9. OnRecord(x, trace[a])
    BY <1>5, <1>7 DEF OnRecord
  <1>10. GoneStays(x)
    BY <1>5, <1>7 DEF GoneStays, Reading
  <1>11. HiddenStays(a, x)
    <2>1. x.hidden \subseteq Ids
      BY <1>7, Fields
    <2>2. QED
      BY <1>1, <1>7, <2>1 DEF Good, HiddenStays
  <1>12. OpposedStays(a, x)
    BY <1>1, <1>5, <1>7 DEF Good, OpposedStays, Reading
  <1>13. Verdict(a, x)
    <2>1. SUFFICES ASSUME NEW i \in x.ids \ x.blocking
                   PROVE  Sound(a, x, i)
      BY DEF Verdict
    <2>2. i \in Ids /\ i \in Found(a) /\ ~Blocks(FactsOf(a, i, cited), Risk[a])
      BY <1>1, <1>2, <1>7, <2>1, Fields
    <2>3. i \notin x.gone
      BY <1>7, <2>2, GoneIsDenied
    <2>4. i \notin x.hidden
      BY <1>7, <2>2, HiddenIsNotFound
    <2>5. ASSUME Risk[a] # "low", NEW p \in x.opposed, p[1] = i
          PROVE  FALSE
      <3>1. i \in req[a].rivals
        BY <1>1, <1>7, <2>2, <2>5 DEF Good, OpposedStays, Found
      <3>2. FactsOf(a, i, cited).conflicted
        BY <3>1 DEF FactsOf
      <3>3. Risk[a] \in {"medium", "high"}
        BY <2>5, RetrievalAssumption DEF Risks
      <3>4. QED
        BY <2>2, <3>2, <3>3, ConflictBlocks
    <2>6. QED
      BY <2>3, <2>4, <2>5 DEF Sound
  <1>14. QED
    BY <1>4, <1>7, <1>8, <1>9, <1>10, <1>11, <1>12, <1>13 DEF Good

LEMMA JudgeStep ==
  ASSUME IInv, NEW a \in Agents, req[a].pc = "evidence", Judge(a, Cited(a))
  PROVE  IInv'
  <1>1. /\ req[a] \in Requests /\ Good(a, req[a], trace[a]) /\ TypeOK
        /\ req[a].doing = "gate" /\ UNCHANGED trace
    BY DEF Judge, IInv, TypeOK
  <1>2. CASE Found(a) = req[a].ids
    <2>1. Step(a, Judged(a, Cited(a)))
      BY <1>2 DEF Judge
    <2>2. QED
      BY <1>1, <2>1, JudgedIs, OwnRequest
  <1>3. CASE Found(a) # req[a].ids
    <2>1. PICK x : x = [req[a] EXCEPT !.pc = "probe", !.cited = Cited(a)]
      OBVIOUS
    <2>2. Step(a, x)
      BY <1>3, <2>1 DEF Judge
    <2>3. Cited(a) \in SUBSET Ids /\ "probe" \in Phases
      BY <1>1, Fields DEF Cited, Found, Phases
    <2>4. /\ x \in Requests /\ x.pc = "probe" /\ x.cited = Cited(a)
          /\ x.held = req[a].held /\ x.seen = req[a].seen /\ x.rivals = req[a].rivals
          /\ x.reach = req[a].reach /\ x.doing = req[a].doing /\ x.ids = req[a].ids
          /\ x.now = req[a].now /\ x.uses = req[a].uses /\ x.blocking = req[a].blocking
          /\ x.gone = req[a].gone /\ x.hidden = req[a].hidden /\ x.opposed = req[a].opposed
      BY <1>1, <2>1, <2>3 DEF Requests
    <2>5. Shape(x) /\ Looked(x)
      BY <1>1, <2>4 DEF Good, Shape, Looked, Reading
    <2>6. Packet(x) /\ Verdict(a, x) /\ OnRecord(x, trace[a])
      BY <1>1, <2>4 DEF Good, Packet, Verdict, OnRecord
    <2>7. GoneStays(x)
      BY <1>1, <2>4 DEF Good, GoneStays, Lost, Reading, Cited
    <2>8. HiddenStays(a, x)
      BY <1>1, <2>4 DEF Good, HiddenStays
    <2>9. OpposedStays(a, x)
      BY <1>1, <2>4 DEF Good, OpposedStays, Reading
    <2>10. Good(a, x, trace[a])
      BY <2>5, <2>6, <2>7, <2>8, <2>9 DEF Good
    <2>11. x.held = 1 => req[a].held = 1
      BY <2>4
    <2>12. QED
      BY <1>1, <2>2, <2>4, <2>10, <2>11, OwnRequest
  <1>4. QED
    BY <1>2, <1>3

LEMMA MadeTyped ==
  [NoTrace EXCEPT !.made = TRUE] \in Traces
  BY DEF NoTrace, Traces

LEMMA ComposeStep ==
  ASSUME IInv, NEW a \in Agents, req[a].pc = "evidence", Compose(a, Cited(a))
  PROVE  IInv'
  <1>1. /\ req[a] \in Requests /\ Good(a, req[a], trace[a]) /\ TypeOK
        /\ req[a].doing = "query"
    BY DEF Compose, IInv, TypeOK
  <1>2. PICK uses : uses = [i \in Ids |-> IF i \in Found(a)
                      THEN Use(FactsOf(a, i, Cited(a)), Risk[a]) ELSE "absent"]
    OBVIOUS
  <1>3. PICK x : x = Finished(a, "answer", uses, {})
    OBVIOUS
  <1>4. Step(a, x) /\ trace' = [trace EXCEPT ![a] = [NoTrace EXCEPT !.made = TRUE]]
    BY <1>2, <1>3 DEF Compose
  <1>5. uses \in [Ids -> Uses \cup {"absent"}]
    BY <1>2, UseIs
  <1>6. /\ x \in Requests /\ x.pc = "answer" /\ x.held = 0 /\ x.uses = uses
        /\ x.blocking = {} /\ x.reach = {} /\ x.doing = "query" /\ x.ids = req[a].ids
        /\ x.gone = req[a].gone /\ x.hidden = req[a].hidden /\ x.opposed = req[a].opposed
        /\ \A i \in Ids : x.seen[i] = "missing"
    <2>1. "answer" \in Phases
      BY DEF Phases
    <2>2. QED
      BY <1>1, <1>3, <1>5, <2>1, FinishedIs
  <1>7. Shape(x) /\ Looked(x) /\ GoneStays(x) /\ Verdict(a, x)
    BY <1>6 DEF Shape, Looked, GoneStays, Verdict, Reading
  <1>8. HiddenStays(a, x)
    <2>1. x.hidden \subseteq Ids
      BY <1>6, Fields
    <2>2. QED
      BY <1>1, <1>6, <2>1 DEF Good, HiddenStays
  <1>9. OpposedStays(a, x)
    BY <1>1, <1>6 DEF Good, OpposedStays, Reading
  <1>10. Packet(x)
    <2>1. SUFFICES ASSUME NEW i \in Ids, uses[i] # "absent"
                   PROVE  i \notin x.hidden /\ (i \in x.gone => uses[i] = "deny")
      BY <1>6 DEF Packet
    <2>2. i \in Found(a) /\ uses[i] = Use(FactsOf(a, i, Cited(a)), Risk[a])
      BY <1>2, <2>1
    <2>3. i \notin x.hidden
      BY <1>6, <2>2, HiddenIsNotFound
    <2>4. i \in x.gone => uses[i] = "deny"
      BY <1>6, <2>2, GoneIsDenied
    <2>5. QED
      BY <2>3, <2>4
  <1>11. OnRecord(x, [NoTrace EXCEPT !.made = TRUE])
    BY <1>6 DEF OnRecord
  <1>12. Good(a, x, [NoTrace EXCEPT !.made = TRUE])
    BY <1>7, <1>8, <1>9, <1>10, <1>11 DEF Good
  <1>13. faults' \in Nat /\ ~(x.held = 1) /\ UNCHANGED store /\ req' = [req EXCEPT ![a] = x]
    BY <1>1, <1>4, <1>6 DEF Step, TypeOK
  <1>14. QED
    BY <1>4, <1>6, <1>12, <1>13, MadeTyped, OwnStep

LEMMA ReadEvidenceStep ==
  ASSUME IInv, NEW a \in Agents, ReadEvidence(a)
  PROVE  IInv'
  <1>1. req[a].pc = "evidence" /\ (Compose(a, Cited(a)) \/ Judge(a, Cited(a)))
    BY DEF ReadEvidence, Cited
  <1>2. QED
    BY <1>1, ComposeStep, JudgeStep

LEMMA ProbeStep ==
  ASSUME IInv, NEW a \in Agents, Probe(a)
  PROVE  IInv'
  <1>1. req[a].pc = "probe" /\ req[a].doing = "gate"
    BY DEF Probe, IInv, Good, Shape
  <1>2. Step(a, Judged(a, req[a].cited)) /\ UNCHANGED trace
    BY DEF Probe
  <1>3. QED
    BY <1>1, <1>2, JudgedIs, OwnRequest

-----------------------------------------------------------------------------
(* Traces and answers                                                      *)

\* A request past its reading only moves on.
LEMMA MovedOn ==
  ASSUME IInv, NEW a \in Agents, NEW to \in {"answer", "cleared"}, NEW t, NEW x,
         x = [req[a] EXCEPT !.pc = to],
         req[a].pc \in {"trace", "record", "answer"},
         to = "cleared" => req[a].doing = "gate" /\ req[a].blocking = {},
         OnRecord(x, t)
  PROVE  x \in Requests /\ x.held = 0 /\ ~(x.held = 1) /\ Good(a, x, t)
  <1>1. /\ req[a] \in Requests /\ Good(a, req[a], trace[a]) /\ TypeOK
    BY DEF IInv, TypeOK
  <1>3. /\ x \in Requests /\ x.pc = to
        /\ x.held = req[a].held /\ x.seen = req[a].seen /\ x.rivals = req[a].rivals
        /\ x.reach = req[a].reach /\ x.doing = req[a].doing /\ x.ids = req[a].ids
        /\ x.now = req[a].now /\ x.uses = req[a].uses /\ x.blocking = req[a].blocking
        /\ x.gone = req[a].gone /\ x.hidden = req[a].hidden /\ x.opposed = req[a].opposed
    BY <1>1 DEF Requests, Phases
  <1>4. req[a].held = 0
    BY <1>1, Fields DEF Good, Shape, Reading
  <1>5. Shape(x) /\ Looked(x)
    BY <1>1, <1>3, <1>4 DEF Good, Shape, Looked, Reading
  <1>6. Packet(x) /\ OnRecord(x, t) /\ GoneStays(x)
    BY <1>1, <1>3 DEF Good, Packet, GoneStays, Reading
  <1>7. HiddenStays(a, x)
    BY <1>1, <1>3 DEF Good, HiddenStays
  <1>8. OpposedStays(a, x)
    BY <1>1, <1>3 DEF Good, OpposedStays, Reading
  <1>9. Verdict(a, x)
    BY <1>1, <1>3 DEF Good, Verdict, Sound, Shape
  <1>10. QED
    BY <1>3, <1>4, <1>5, <1>6, <1>7, <1>8, <1>9 DEF Good

LEMMA TraceStep ==
  ASSUME IInv, NEW a \in Agents, Trace(a)
  PROVE  IInv'
  <1>1. /\ req[a] \in Requests /\ Good(a, req[a], trace[a]) /\ req[a].pc = "trace"
        /\ faults' \in Nat /\ UNCHANGED store
    BY DEF Trace, Step, IInv, TypeOK
  <1>2. PICK t : t = [NoTrace EXCEPT !.made = TRUE]
    OBVIOUS
  <1>3. PICK x : x = [req[a] EXCEPT !.pc = "answer"]
    OBVIOUS
  <1>4. req' = [req EXCEPT ![a] = x] /\ trace' = [trace EXCEPT ![a] = t]
    BY <1>2, <1>3 DEF Trace, Step
  <1>5. OnRecord(x, t)
    BY <1>1, <1>3 DEF Good, Shape, OnRecord, Requests
  <1>6. x \in Requests /\ ~(x.held = 1) /\ Good(a, x, t)
    BY <1>1, <1>3, <1>5, MovedOn
  <1>7. QED
    BY <1>1, <1>2, <1>4, <1>6, MadeTyped, OwnStep

LEMMA RecordStep ==
  ASSUME IInv, NEW a \in Agents, Record(a)
  PROVE  IInv'
  <1>1. /\ req[a] \in Requests /\ Good(a, req[a], trace[a]) /\ req[a].pc = "record"
        /\ faults' \in Nat /\ UNCHANGED store
    BY DEF Record, Step, IInv, TypeOK
  <1>2. PICK t : t = [made |-> TRUE, ids |-> req[a].ids, allowed |-> req[a].blocking = {}]
    OBVIOUS
  <1>3. PICK x : x = [req[a] EXCEPT !.pc = "answer"]
    OBVIOUS
  <1>4. req' = [req EXCEPT ![a] = x] /\ trace' = [trace EXCEPT ![a] = t]
    BY <1>2, <1>3 DEF Record, Step
  <1>5. t \in Traces
    BY <1>1, <1>2, Fields DEF Traces
  <1>6. OnRecord(x, t)
    BY <1>1, <1>2, <1>3 DEF OnRecord, Requests
  <1>7. x \in Requests /\ ~(x.held = 1) /\ Good(a, x, t)
    BY <1>1, <1>3, <1>6, MovedOn
  <1>8. QED
    BY <1>1, <1>4, <1>5, <1>7, OwnStep

LEMMA AnswerStep ==
  ASSUME IInv, NEW a \in Agents, Answer(a)
  PROVE  IInv'
  <1>1. /\ req[a] \in Requests /\ Good(a, req[a], trace[a]) /\ req[a].pc = "answer"
        /\ UNCHANGED trace
    BY DEF Answer, IInv, TypeOK
  <1>2. CASE req[a].doing = "gate" /\ Allowed(a)
    <2>1. PICK x : x = [req[a] EXCEPT !.pc = "cleared"]
      OBVIOUS
    <2>2. Step(a, x)
      BY <1>2, <2>1 DEF Answer
    <2>3. OnRecord(x, trace[a])
      BY <1>1, <2>1 DEF Good, OnRecord, Requests
    <2>4. x \in Requests /\ ~(x.held = 1) /\ Good(a, x, trace[a])
      BY <1>1, <1>2, <2>1, <2>3, MovedOn DEF Allowed
    <2>5. QED
      BY <1>1, <2>2, <2>4, OwnRequest
  <1>3. CASE ~(req[a].doing = "gate" /\ Allowed(a))
    <2>1. Step(a, Ended(a))
      BY <1>3 DEF Answer
    <2>2. QED
      BY <1>1, <2>1, EndedStep
  <1>4. QED
    BY <1>2, <1>3

LEMMA LoseAnswerStep ==
  ASSUME IInv, NEW a \in Agents, LoseAnswer(a)
  PROVE  IInv'
  BY EndedIs, FaultStep DEF LoseAnswer, IInv

-----------------------------------------------------------------------------
LEMMA Initially ==
  ASSUME Init
  PROVE  IInv
  <1>1. NoReq \in Requests /\ NoTrace \in Traces
    BY NoReqTyped DEF NoTrace, Traces
  <1>2. Holding = {}
    BY NoReqTyped DEF Init, Holding
  <1>3. InUse <= MaxConnections
    BY <1>2, HoldingIs, FS_EmptySet, RetrievalAssumption
  <1>4. TypeOK
    <2>1. "missing" \in Seen /\ "accepted" \in Seen
      BY DEF Seen, Statuses
    <2>2. \A a \in Agents : req[a].held = 1 <=> req[a].pc \in {"relations", "evidence", "probe"}
      BY NoReqTyped DEF Init
    <2>3. QED
      BY <1>1, <1>3, <2>1, <2>2 DEF Init, TypeOK
  <1>5. Nameless
    BY RetrievalAssumption DEF Init, Nameless
  <1>6. ASSUME NEW a \in Agents PROVE Good(a, req[a], trace[a])
    <2>1. req[a] = NoReq
      BY DEF Init
    <2>2. Good(a, NoReq, trace[a])
      BY NoReqTyped DEF Good, Shape, Looked, GoneStays, HiddenStays, OpposedStays, Verdict,
                        Packet, OnRecord, Reading
    <2>3. QED
      BY <2>1, <2>2
  <1>7. QED
    BY <1>4, <1>5, <1>6 DEF IInv

LEMMA Stuttering ==
  ASSUME IInv, UNCHANGED vars
  PROVE  IInv'
  <1>1. UNCHANGED <<store, trace, req, faults, status, redacted, past, contradicts, granted, changes>>
    BY DEF vars, store
  <1>2. ASSUME NEW a \in Agents PROVE Good(a, req[a], trace[a])'
    <2>1. PICK y : y = req[a]
      OBVIOUS
    <2>2. PICK z : z = trace[a]
      OBVIOUS
    <2>3. Good(a, y, z)'
      BY <1>1, <2>1, <2>2, GoodKept DEF IInv
    <2>4. QED
      BY <1>1, <2>1, <2>2, <2>3, GoodNow
  <1>3. TypeOK' /\ Nameless'
    BY <1>1, PoolSame DEF IInv, TypeOK, Nameless
  <1>4. QED
    BY <1>2, <1>3 DEF IInv

LEMMA Steps ==
  ASSUME IInv, [Next]_vars
  PROVE  IInv'
  <1>1. ASSUME NEW a \in Agents, Serve(a) PROVE IInv'
    BY <1>1, PlanStep, RetrieveStep, ReadClaimsStep, ReadRelationsStep, ReadEvidenceStep,
       ProbeStep, TraceStep, RecordStep, PoolTimeoutStep DEF Serve
  <1>2. ASSUME NEW a \in Agents, Act(a) PROVE IInv'
    BY <1>2, EndedStep DEF Act
  <1>3. QED
    BY <1>1, <1>2, HappenKeeps, AskStep, AnswerStep, LoseAnswerStep, LaneFailsStep, Stuttering
    DEF Next

THEOREM Invariance == Spec => []IInv
  BY Initially, Steps, PTL DEF Spec

\* Requests stay well formed, and together they never hold more connections
\* than the pool has (db.ts 61-64), for any number of agents.
THEOREM TypeCorrect == Spec => []TypeOK
  <1>1. IInv => TypeOK
    BY DEF IInv
  <1>2. QED
    BY <1>1, Invariance, PTL

\* What was gone before a query began is denied by the packet, whatever
\* changes while its transactions read (compose.ts 409-470).
THEOREM PacketsAreCurrent == Spec => []PacketDeniesWhatIsGone
  <1>1. IInv => PacketDeniesWhatIsGone
    BY DEF IInv, Good, Packet, PacketDeniesWhatIsGone, Answering
  <1>2. QED
    BY <1>1, Invariance, PTL

\* An agent acts on nothing that was gone or out of reach when it asked
\* (action-gate.ts 106-210).
THEOREM ActionsAreGrounded == Spec => []ActionsRestOnStandingClaims
  <1>1. IInv => ActionsRestOnStandingClaims
    <2>1. SUFFICES ASSUME IInv, NEW a \in Agents, req[a].pc = "cleared"
                   PROVE  req[a].ids # {} /\ req[a].ids \cap (req[a].gone \cup req[a].hidden) = {}
      BY DEF ActionsRestOnStandingClaims
    <2>2. Good(a, req[a], trace[a]) /\ req[a].doing = "gate" /\ req[a].blocking = {}
          /\ req[a].ids \in Needs
      BY <2>1 DEF IInv, Good, Shape
    <2>3. \A i \in req[a].ids : i \notin req[a].gone \cup req[a].hidden
      BY <2>1, <2>2 DEF Good, Verdict, Sound
    <2>4. QED
      BY <2>2, <2>3, RetrievalAssumption
  <1>2. QED
    BY <1>1, Invariance, PTL

\* Nor, above low risk, on a claim that stood contradicted all the while
\* (action-gate.ts 286-330, claims/index.ts 221-290).
THEOREM ContradictionStops == Spec => []NoActionAgainstContradiction
  <1>1. IInv => NoActionAgainstContradiction
    <2>1. SUFFICES ASSUME IInv, NEW a \in Agents, req[a].pc = "cleared", Risk[a] # "low",
                          NEW p \in req[a].opposed, p[1] \in req[a].ids
                   PROVE  FALSE
      BY DEF NoActionAgainstContradiction
    <2>2. Good(a, req[a], trace[a]) /\ req[a].doing = "gate" /\ req[a].blocking = {}
      BY <2>1 DEF IInv, Good, Shape
    <2>3. Sound(a, req[a], p[1])
      BY <2>1, <2>2 DEF Good, Verdict
    <2>4. QED
      BY <2>1, <2>3 DEF Sound
  <1>2. QED
    BY <1>1, Invariance, PTL

\* An agent that holds a packet acts only on a verdict its trace has
\* (action-gate.ts 214-219, 249-285).
THEOREM TracesExplainActions == Spec => []ActionsAreOnRecord
  <1>1. IInv => ActionsAreOnRecord
    BY DEF IInv, Good, OnRecord, Shape, ActionsAreOnRecord
  <1>2. QED
    BY <1>1, Invariance, PTL
=============================================================================
