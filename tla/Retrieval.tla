----------------------------- MODULE Retrieval -----------------------------
(***************************************************************************)
(* Reading memory and acting on it: compose (packages/retrieval/src/       *)
(* compose.ts), evaluateAction (action-gate.ts) and the agent that calls   *)
(* them (packages/langgraph-js/src/hooks.ts), while claims are revoked,    *)
(* superseded, disputed, contradicted, redacted and expire, and grants are *)
(* withdrawn.                                                              *)
(*                                                                         *)
(* A request is several transactions, each READ COMMITTED and each on a    *)
(* connection of one pool; the statements of the last one see different    *)
(* states.  What a query returns is mode "current".                        *)
(***************************************************************************)
EXTENDS UsePolicy, FiniteSets

CONSTANTS
  Agents, Ids, Scopes,
  Unknown,              \* ids that name no claim
  ScopeOf,              \* the scope of a claim
  Member,               \* the scopes an agent participates in
  Grants,               \* pairs of an agent and a scope
  Risk,                 \* of what an agent does
  Authority, Age, Horizon,
  Needs,                \* the sets of claims an action may rest on
  MaxConnections,       \* of the pool
  MaxCalls,             \* bound on the requests of an agent
  MaxChanges,           \* bound on what happens to claims and grants
  MaxFaults             \* bound on lanes that fail and answers that are lost

Lanes == {"ordinary", "dense"}

ASSUME RetrievalAssumption ==
  /\ Unknown \subseteq Ids
  /\ ScopeOf \in [Ids -> Scopes]
  /\ Member \in [Agents -> SUBSET Scopes]
  /\ Grants \subseteq Agents \X Scopes
  /\ Risk \in [Agents -> Risks]
  /\ Authority \in [Ids -> Authorities]
  /\ Age \in [Ids -> Nat] /\ Horizon \in [Ids -> Nat]
  /\ Needs \subseteq (SUBSET Ids) \ {{}}
  /\ IsFiniteSet(Agents)
  /\ MaxConnections \in Nat /\ MaxCalls \in [Agents -> Nat] /\ MaxChanges \in Nat /\ MaxFaults \in Nat

VARIABLES
  status,               \* of every claim
  redacted,             \* claims whose evidence was erased
  past,                 \* claims whose expires_at has gone by
  contradicts,          \* pairs of claims
  granted,              \* the grants that are live
  req,                  \* the request of every agent
  trace,                \* the trace of an agent's last packet
  changes, faults

store == <<status, redacted, past, contradicts, granted, changes>>
vars == <<status, redacted, past, contradicts, granted, req, trace, changes, faults>>

Phases == {"plan", "lanes", "claims", "relations", "evidence", "probe",
           "trace", "record", "answer"}

NoTrace == [made |-> FALSE, ids |-> {}, allowed |-> FALSE]

\* The request in progress.  "gone", "hidden" and "opposed" only remember what
\* was so when it began; they are not in the code.
NoReq == [pc |-> "ready", doing |-> "query", ids |-> {}, reach |-> {}, lanes |-> {},
          broken |-> FALSE, now |-> {}, held |-> 0,
          seen |-> [i \in Ids |-> "missing"], rivals |-> {}, cited |-> {},
          uses |-> [i \in Ids |-> "absent"], blocking |-> {},
          gone |-> {}, hidden |-> {}, opposed |-> {}, calls |-> 0]

Init ==
  /\ status = [i \in Ids |-> IF i \in Unknown THEN "missing" ELSE "accepted"]
  /\ redacted = {} /\ past = {} /\ contradicts = {}
  /\ granted = Grants
  /\ req = [a \in Agents |-> NoReq]
  /\ trace = [a \in Agents |-> NoTrace]
  /\ changes = 0 /\ faults = 0

-----------------------------------------------------------------------------
(* What happens to claims and grants meanwhile                             *)

Change == changes < MaxChanges /\ changes' = changes + 1

\* A contradiction that stood when a request began is remembered for as long
\* as its other side stays accepted and within reach.
Forget(b, d) ==
  req' = [a \in Agents |-> IF a \in b
                           THEN [req[a] EXCEPT !.opposed = {p \in @ : p[2] \notin d}] ELSE req[a]]

SetStatus(i, to) ==
  /\ Change
  /\ \/ status[i] = "accepted" /\ to \in {"disputed", "superseded", "revoked"}
     \/ status[i] = "disputed" /\ to \in {"accepted", "superseded", "revoked"}
     \/ status[i] = "superseded" /\ to = "revoked"
  /\ status' = [status EXCEPT ![i] = to]
  /\ Forget(Agents, {i})
  /\ UNCHANGED <<redacted, past, contradicts, granted, trace, faults>>

Redact(i) ==
  /\ Change
  /\ i \notin Unknown \cup redacted
  /\ redacted' = redacted \cup {i}
  /\ UNCHANGED <<status, past, contradicts, granted, req, trace, faults>>

Expire(i) ==
  /\ Change
  /\ i \notin Unknown \cup past
  /\ past' = past \cup {i}
  /\ UNCHANGED <<status, redacted, contradicts, granted, req, trace, faults>>

Contradict(i, j) ==
  /\ Change
  /\ i # j /\ {i, j} \cap Unknown = {}
  /\ <<i, j>> \notin contradicts
  /\ contradicts' = contradicts \cup {<<i, j>>}
  /\ UNCHANGED <<status, redacted, past, granted, req, trace, faults>>

Withdraw(g) ==
  /\ Change
  /\ g \in granted
  /\ granted' = granted \ {g}
  /\ Forget({g[1]}, {i \in Ids : ScopeOf[i] = g[2]})
  /\ UNCHANGED <<status, redacted, past, contradicts, trace, faults>>

-----------------------------------------------------------------------------
\* The connections held between the steps of requests.  A transaction that is
\* over within one step takes one and gives it back.
InUse == Cardinality({a \in Agents : req[a].held = 1})
Free == InUse < MaxConnections

Reach(a) == Member[a] \cup {s \in Scopes : <<a, s>> \in granted}

\* Row-level security, by the scopes the transaction bound.
Visible(a, i) == i \notin Unknown /\ ScopeOf[i] \in req[a].reach

Standing(i) == status[i] \in {"accepted", "disputed"}

\* A pair in either direction.
Rivals(i) == {j \in Ids : <<i, j>> \in contradicts \/ <<j, i>> \in contradicts}

\* What no request that begins now may rest on.
GoneNow == {i \in Ids : i \in Unknown \cup redacted \cup past \/ ~Standing(i)}
HiddenNow(a) == {i \in Ids : ScopeOf[i] \notin Reach(a)}
OpposedNow(a) ==
  {p \in Ids \X Ids : /\ p[2] \in Rivals(p[1]) /\ status[p[2]] = "accepted"
                      /\ {p[1], p[2]} \cap HiddenNow(a) = {}}

Started(a, what, ids) ==
  [NoReq EXCEPT !.pc = "plan", !.doing = what, !.ids = ids, !.now = past,
                !.gone = GoneNow, !.hidden = HiddenNow(a), !.opposed = OpposedNow(a),
                !.calls = req[a].calls + 1]

\* recallMemory, and beforeAction with a set of claims that is not empty.
Ask(a) ==
  /\ req[a].pc = "ready" /\ req[a].calls < MaxCalls[a]
  /\ \/ req' = [req EXCEPT ![a] = Started(a, "query", {})]
     \/ \E ids \in Needs : req' = [req EXCEPT ![a] = Started(a, "gate", ids)]
  /\ UNCHANGED <<store, trace, faults>>

Ended(a) == [NoReq EXCEPT !.calls = req[a].calls]

Step(a, changed) ==
  /\ req' = [req EXCEPT ![a] = changed]
  /\ UNCHANGED <<store, faults>>

\* The reach is computed anew for every request, in a transaction that binds
\* no scope; a query that reaches nothing goes on to its trace.
Plan(a) ==
  /\ req[a].pc = "plan" /\ Free
  /\ UNCHANGED trace
  /\ Step(a, [req[a] EXCEPT
       !.reach = Reach(a),
       !.lanes = IF req[a].doing = "query" THEN Lanes ELSE {},
       !.pc = IF req[a].doing = "gate" THEN "claims"
              ELSE IF Reach(a) = {} THEN "trace" ELSE "lanes"])

\* A lane is settled: the request goes on when both are.
LaneEnds(a, lane, hits, broken) ==
  LET left == req[a].lanes \ {lane}
      failed == req[a].broken \/ broken
  IN IF left = {} /\ failed THEN Ended(a)
     ELSE [req[a] EXCEPT !.lanes = left, !.broken = failed, !.ids = @ \cup hits,
                         !.pc = IF left = {} THEN "claims" ELSE "lanes"]

\* Each lane has a transaction of its own and finds some of what it may see.
Retrieve(a, lane, hits) ==
  /\ req[a].pc = "lanes" /\ lane \in req[a].lanes /\ Free
  /\ \A i \in hits : Visible(a, i) /\ status[i] = "accepted"
  /\ UNCHANGED trace
  /\ Step(a, LaneEnds(a, lane, hits, FALSE))

LaneFails(a, lane) ==
  /\ req[a].pc = "lanes" /\ lane \in req[a].lanes
  /\ faults < MaxFaults /\ faults' = faults + 1
  /\ req' = [req EXCEPT ![a] = LaneEnds(a, lane, {}, TRUE)]
  /\ UNCHANGED <<store, trace>>

-----------------------------------------------------------------------------
(* The transaction that reads claims, relations and evidence, one          *)
(* statement after the other.                                              *)

ReadClaims(a) ==
  /\ req[a].pc = "claims" /\ Free
  /\ UNCHANGED trace
  /\ Step(a, [req[a] EXCEPT
       !.pc = "relations", !.held = 1,
       !.seen = [i \in Ids |-> IF i \in req[a].ids /\ Visible(a, i) THEN status[i] ELSE "missing"]])

\* A mistake: only the relations that come from a claim are followed.
ReadOutgoing(a) ==
  /\ req[a].pc = "relations"
  /\ UNCHANGED trace
  /\ Step(a, [req[a] EXCEPT
       !.pc = "evidence",
       !.rivals = {i \in req[a].ids : \E j \in Ids :
                     /\ <<i, j>> \in contradicts /\ Visible(a, i) /\ Visible(a, j)
                     /\ status[j] = "accepted"}])

\* The claims that are contradicted by an accepted one; both must be visible.
ReadRelations(a) ==
  /\ req[a].pc = "relations"
  /\ UNCHANGED trace
  /\ Step(a, [req[a] EXCEPT
       !.pc = "evidence",
       !.rivals = {i \in req[a].ids : \E j \in Rivals(i) :
                     Visible(a, i) /\ Visible(a, j) /\ status[j] = "accepted"}])

FactsOf(a, i, cited) ==
  [status |-> req[a].seen[i], authority |-> Authority[i], age |-> Age[i], horizon |-> Horizon[i],
   past |-> i \in req[a].now, cited |-> i \in cited, conflicted |-> i \in req[a].rivals]

Found(a) == {i \in req[a].ids : req[a].seen[i] # "missing"}

\* A mistake: the connection is not given back.
FinishedLeaking(a, pc, uses, blocking) ==
  [req[a] EXCEPT !.pc = pc, !.uses = uses, !.blocking = blocking, !.reach = {},
                 !.now = {}, !.seen = NoReq.seen, !.rivals = {}, !.cited = {}]

\* The transaction is over: the answer is all that is left.
Finished(a, pc, uses, blocking) ==
  [req[a] EXCEPT !.pc = pc, !.held = 0, !.uses = uses, !.blocking = blocking, !.reach = {},
                 !.now = {}, !.seen = NoReq.seen, !.rivals = {}, !.cited = {}]

\* A mistake: the digests are taken as verified, as they were at promotion.
ComposeUnverified(a, cited) ==
  /\ req[a].doing = "query"
  /\ Step(a, Finished(a, "answer", [i \in Ids |-> IF i \in Found(a)
                 THEN Use(FactsOf(a, i, Found(a)), Risk[a]) ELSE "absent"], {}))
  /\ trace' = [trace EXCEPT ![a] = [NoTrace EXCEPT !.made = TRUE]]

\* compose: the packet and its trace in the transaction that read them, which
\* commits.
Compose(a, cited) ==
  /\ req[a].doing = "query"
  /\ Step(a, Finished(a, "answer", [i \in Ids |-> IF i \in Found(a)
                 THEN Use(FactsOf(a, i, cited), Risk[a]) ELSE "absent"], {}))
  /\ trace' = [trace EXCEPT ![a] = [NoTrace EXCEPT !.made = TRUE]]

\* A mistake: the verdict is answered and not recorded.
Unchecked(a) == "answer"

Checked(a) == IF trace[a].made THEN "record" ELSE "answer"

\* A mistake: a claim that was not found blocks nothing.
JudgedFound(a, cited) ==
  Finished(a, Checked(a), NoReq.uses, {i \in Found(a) : Blocks(FactsOf(a, i, cited), Risk[a])})

\* evaluateAction: the claims that block, the missing ones among them.
Judged(a, cited) ==
  Finished(a, Checked(a), NoReq.uses,
           {i \in req[a].ids : i \notin Found(a) \/ Blocks(FactsOf(a, i, cited), Risk[a])})

\* The verdict needs to know of a missing claim whether it exists, which is
\* asked on a connection of its own while this one is held.
Judge(a, cited) ==
  /\ req[a].doing = "gate"
  /\ Step(a, IF Found(a) = req[a].ids THEN Judged(a, cited)
             ELSE [req[a] EXCEPT !.pc = "probe", !.cited = cited])
  /\ UNCHANGED trace

ReadEvidence(a) ==
  LET cited == {i \in Found(a) : i \notin redacted} IN
  /\ req[a].pc = "evidence"
  /\ Compose(a, cited) \/ Judge(a, cited)

Probe(a) ==
  /\ req[a].pc = "probe" /\ Free
  /\ UNCHANGED trace
  /\ Step(a, Judged(a, req[a].cited))

\* writeTrace, for a query that reaches nothing.
Trace(a) ==
  /\ req[a].pc = "trace" /\ Free
  /\ trace' = [trace EXCEPT ![a] = [NoTrace EXCEPT !.made = TRUE]]
  /\ Step(a, [req[a] EXCEPT !.pc = "answer"])

\* recordActionCheck: the last check of a trace replaces the one before.
Record(a) ==
  /\ req[a].pc = "record" /\ Free
  /\ trace' = [trace EXCEPT ![a] = [made |-> TRUE, ids |-> req[a].ids,
                                    allowed |-> req[a].blocking = {}]]
  /\ Step(a, [req[a] EXCEPT !.pc = "answer"])

Waiting == {"plan", "lanes", "claims", "probe", "trace", "record"}

\* A mistake: a request that holds a connection waits without end.
TimeoutUnlessHolding(a) ==
  /\ req[a].pc \in Waiting \ {"probe"} /\ ~Free
  /\ UNCHANGED trace
  /\ Step(a, IF req[a].pc = "lanes"
             THEN LaneEnds(a, CHOOSE lane \in req[a].lanes : TRUE, {}, TRUE)
             ELSE Ended(a))

\* No connection was free for five seconds: the request fails, and gives up
\* the one it holds.
PoolTimeout(a) ==
  /\ req[a].pc \in Waiting /\ ~Free
  /\ UNCHANGED trace
  /\ Step(a, IF req[a].pc = "lanes"
             THEN LaneEnds(a, CHOOSE lane \in req[a].lanes : TRUE, {}, TRUE)
             ELSE Ended(a))

-----------------------------------------------------------------------------
Allowed(a) == req[a].blocking = {}

\* The agent has the answer; it goes on with its action if the gate allowed it.
Answer(a) ==
  /\ req[a].pc = "answer"
  /\ UNCHANGED trace
  /\ Step(a, IF req[a].doing = "gate" /\ Allowed(a)
             THEN [req[a] EXCEPT !.pc = "cleared"] ELSE Ended(a))

\* The answer is lost: status 0 is no permission.
LoseAnswer(a) ==
  /\ req[a].pc = "answer"
  /\ faults < MaxFaults /\ faults' = faults + 1
  /\ req' = [req EXCEPT ![a] = Ended(a)]
  /\ UNCHANGED <<store, trace>>

Act(a) ==
  /\ req[a].pc = "cleared"
  /\ UNCHANGED trace
  /\ Step(a, Ended(a))

Serve(a) ==
  \/ Plan(a) \/ (\E lane \in Lanes, hits \in SUBSET Ids : Retrieve(a, lane, hits))
  \/ ReadClaims(a) \/ ReadRelations(a) \/ ReadEvidence(a)
  \/ Probe(a) \/ Trace(a) \/ Record(a) \/ PoolTimeout(a)

Happen ==
  \/ \E i \in Ids : Redact(i) \/ Expire(i) \/ (\E to \in Statuses : SetStatus(i, to))
  \/ \E i, j \in Ids : Contradict(i, j)
  \/ \E g \in Grants : Withdraw(g)

Next ==
  \/ Happen
  \/ \E a \in Agents :
       \/ Ask(a) \/ Serve(a) \/ Answer(a) \/ LoseAnswer(a) \/ Act(a)
       \/ \E lane \in Lanes : LaneFails(a, lane)

Spec == Init /\ [][Next]_vars

\* The server goes on with a request it has, its timers run, and the answer
\* reaches the client or is lost.
FairSpec == Spec /\ \A a \in Agents : WF_vars(Serve(a)) /\ WF_vars(Answer(a))

-----------------------------------------------------------------------------
Seen == Statuses \cup {"missing"}

Traces == [made : BOOLEAN, ids : SUBSET Ids, allowed : BOOLEAN]

Requests ==
  [pc : Phases \cup {"ready", "cleared"}, doing : {"query", "gate"}, ids : SUBSET Ids,
   reach : SUBSET Scopes, lanes : SUBSET Lanes, broken : BOOLEAN, now : SUBSET Ids,
   held : {0, 1}, seen : [Ids -> Seen], rivals : SUBSET Ids, cited : SUBSET Ids,
   uses : [Ids -> Uses \cup {"absent"}], blocking : SUBSET Ids,
   gone : SUBSET Ids, hidden : SUBSET Ids, opposed : SUBSET (Ids \X Ids), calls : Nat]

\* Requests are well formed, and they hold no more connections than there are.
TypeOK ==
  /\ status \in [Ids -> Seen] /\ redacted \subseteq Ids /\ past \subseteq Ids
  /\ contradicts \subseteq Ids \X Ids /\ granted \subseteq Grants
  /\ req \in [Agents -> Requests]
  /\ trace \in [Agents -> Traces]
  /\ changes \in Nat /\ faults \in Nat
  /\ \A a \in Agents : req[a].held = 1 <=> req[a].pc \in {"relations", "evidence", "probe"}
  /\ InUse <= MaxConnections

Answering(a, what) == req[a].pc \in {"answer", "cleared"} /\ req[a].doing = what

\* What was withdrawn, erased or expired before a query began is denied by its
\* packet, and nothing is in it that the agent could not reach by then,
\* whatever the channels found (compose.ts 409-416).
PacketDeniesWhatIsGone ==
  \A a \in Agents : Answering(a, "query") =>
    \A i \in Ids : req[a].uses[i] # "absent" =>
      i \notin req[a].hidden /\ (i \in req[a].gone => req[a].uses[i] = "deny")

\* An agent that is about to act rests on claims that were there, believed,
\* with their evidence and within its reach when it asked the gate
\* (action-gate.ts 64-67, hooks.ts 453-457).
ActionsRestOnStandingClaims ==
  \A a \in Agents : req[a].pc = "cleared" =>
    req[a].ids # {} /\ req[a].ids \cap (req[a].gone \cup req[a].hidden) = {}

\* Nor does it act, at medium or high risk, on a claim that an accepted one it
\* can reach contradicted from before it asked until now.
NoActionAgainstContradiction ==
  \A a \in Agents : req[a].pc = "cleared" /\ Risk[a] # "low" =>
    \A p \in req[a].opposed : p[1] \notin req[a].ids

\* An agent that has a packet acts only once the packet's trace says that this
\* very action was allowed (action-gate.ts 214-219).
ActionsAreOnRecord ==
  \A a \in Agents : req[a].pc = "cleared" /\ trace[a].made =>
    trace[a].ids = req[a].ids /\ trace[a].allowed

\* Every request is answered, although a gate holds one connection and waits
\* for another (action-gate.ts 131).
EveryRequestIsAnswered ==
  \A a \in Agents : (req[a].pc \in Phases) ~> (req[a].pc \in {"ready", "cleared"})
=============================================================================
