----------------------------- MODULE CommitGate -----------------------------
(***************************************************************************)
(* The claim store of one tenant: extraction (packages/model-adapters/src/ *)
(* pipeline.ts) feeds the commit gate (packages/gate/src/commit-gate.ts),  *)
(* reviewers decide candidates and re-verify claims (apps/server/src/      *)
(* routes), retention revokes and corrects claims, and triggers guard      *)
(* every update of a claim (migrations 0002 and 0010).                     *)
(*                                                                         *)
(* An ingest is one READ COMMITTED transaction.  What it writes is kept in *)
(* tx[w] until it commits: it sees that and what others have committed,    *)
(* its conflict search and the writes that rely on it are separate steps,  *)
(* and its updates wait for the transaction that holds the row.  The other *)
(* operations are one step each.  All proposals are about one subject and  *)
(* predicate.                                                              *)
(***************************************************************************)
EXTENDS ScopePolicy, FiniteSets

CONSTANTS
  Workers,              \* concurrent ingests: outbox workers, extract requests
  Events,
  Home, At,             \* scope_id and occurred_at of an event
  Proposals,            \* what extractors find
  Scalars,              \* the objects that are not structured
  Interventions,        \* the operations beside ingest that take place
  Ids,                  \* claim ids, a bound on the claims written
  MaxDeliveries,        \* bound on ingests
  MaxActs,              \* bound on interventions
  Now,                  \* the clock, which revocation and correction read
  Ends,                 \* the ends a correction may name
  Open,                 \* valid_to IS NULL
  Idle, None            \* no transaction; no verdict

Grades == {"unsupported", "privileged", "weak", "strong"}

ASSUME GateAssumption ==
  /\ Home \in [Events -> Scope] /\ At \in [Events -> Nat]
  /\ Now \in Nat /\ Ends \subseteq Nat /\ Open \notin Nat
  /\ \A p \in Proposals : /\ p.event \in Events /\ p.requested \in Scope
                          /\ p.grades \subseteq Grades

VARIABLES
  claims,               \* committed rows, a function on the ids in use
  decisions,            \* committed pairs <<claim, outcome>>
  relations,            \* committed triples <<from, to, kind>>
  candidates,           \* committed candidate rows per proposal
  tx,                   \* the transaction of each worker
  deliveries, acts,     \* ingests and interventions so far
  refused               \* history: updates of the gate that a guard refused

rows == <<claims, decisions, relations, candidates>>
vars == <<rows, tx, deliveries, acts, refused>>

Init ==
  /\ claims = <<>>
  /\ decisions = {}
  /\ relations = {}
  /\ candidates = [p \in Proposals |-> 0]
  /\ tx = [w \in Workers |-> Idle]
  /\ deliveries = 0
  /\ acts = 0
  /\ refused = {}

-----------------------------------------------------------------------------
\* The relation of a candidate's object to that of an accepted claim.
Classify(existing, candidate) ==
  IF existing = candidate THEN "duplicates"
  ELSE IF {existing, candidate} \subseteq Scalars THEN "contradicts"
  ELSE IF existing \in Scalars \/ candidate \in Scalars THEN "none"
  ELSE LET shared == DOMAIN existing \cap DOMAIN candidate
           more == Cardinality(DOMAIN candidate) - Cardinality(DOMAIN existing) IN
       IF shared = {} THEN "none"
       ELSE IF \E field \in shared : existing[field] # candidate[field] THEN "contradicts"
       ELSE CASE more = 0 -> "duplicates"
              [] more > 0 -> "supersedes"
              [] OTHER -> "narrows"

Believed(row) == row.status = "accepted" /\ row.to = Open

\* A mistake: only claims of the candidate's own scope are searched.
ConflictsInScope(view, p) ==
  LET current == {i \in DOMAIN view : Believed(view[i]) /\ view[i].scope = p.requested}
  IN {hit \in {<<i, Classify(view[i].proposal.object, p.object)>> : i \in current} :
        hit[2] # "none"}

\* findConflicts(), under the row-level security of the event's own scope.
Conflicts(view, p) ==
  LET home == Home[p.event]
      current == {i \in DOMAIN view :
                    Believed(view[i]) /\ Reaches({home}, home.purpose, view[i].scope)}
  IN {hit \in {<<i, Classify(view[i].proposal.object, p.object)>> : i \in current} :
        hit[2] # "none"}

\* The decision, from what the checks of the candidate's evidence, kind and
\* authority found, the conflicts and the requested scope.
Outcome(grade, p, hits) ==
  IF grade = "unsupported" THEN "reject"
  ELSE IF grade = "privileged" THEN "quarantine"
  ELSE IF grade = "weak" \/ \E hit \in hits : hit[2] = "contradicts" THEN "needs_review"
  ELSE IF Contained(p.requested, Home[p.event]) THEN "accept"
  ELSE "accept_limited_scope"

HoldsBelief(outcome) == outcome \in {"accept", "accept_limited_scope"}

\* accept_limited_scope narrows to the scope of the evidence.
AcceptedScope(outcome, p) ==
  IF outcome = "accept_limited_scope" THEN Home[p.event] ELSE p.requested

NewClaim(p, outcome, author, knew) ==
  [proposal |-> p, scope |-> AcceptedScope(outcome, p),
   status |-> IF HoldsBelief(outcome) THEN "accepted" ELSE "proposed",
   to |-> Open, by |-> author, knew |-> knew]

-----------------------------------------------------------------------------
\* valid_claim_transition().
Transitions ==
  {"proposed"} \X {"accepted", "rejected", "disputed", "superseded", "expired"}
  \cup {"accepted"} \X {"disputed", "superseded", "revoked", "expired"}
  \cup {"disputed"} \X {"accepted", "superseded", "revoked", "expired", "rejected"}
  \cup {<<"superseded", "revoked">>, <<"rejected", "superseded">>,
        <<"revoked", "superseded">>, <<"expired", "superseded">>, <<"expired", "accepted">>}

\* The outcome that authorises a status.
Authority(status) ==
  CASE status \in {"accepted", "superseded", "expired"} -> "accept"
    [] status = "revoked" -> "revoke"
    [] status = "rejected" -> "reject"
    [] OTHER -> "needs_review"

BadEdge(row, status) == status # row.status /\ <<row.status, status>> \notin Transitions

BadInterval(row, to) ==
  /\ to # row.to
  /\ to = Open \/ (row.to # Open /\ to < row.to) \/ to <= At[row.proposal.event]

Undecided(i, row, status, decided) ==
  status # row.status /\ <<i, Authority(status)>> \notin decided

\* A mistake: the table has no CHECK on the interval.
ObjectionToStatus(i, row, status, to, decided) ==
  IF BadEdge(row, status) THEN "transition"
  ELSE IF Undecided(i, row, status, decided) THEN "decision" ELSE "none"

\* Why the table or its triggers refuse an update of claim i, if they do:
\* the edge, the interval or the missing decision.
Objection(i, row, status, to, decided) ==
  IF BadEdge(row, status) THEN "transition"
  ELSE IF BadInterval(row, to) THEN "interval"
  ELSE IF Undecided(i, row, status, decided) THEN "decision" ELSE "none"

Drafted == UNION {DOMAIN tx[w].rows : w \in {v \in Workers : tx[v] # Idle}}

\* An id nobody uses.
FreshId == CHOOSE i \in Ids : i \notin DOMAIN claims \cup Drafted

HasFreshId == \E i \in Ids : i \notin DOMAIN claims \cup Drafted

\* The row lock an uncommitted update holds.
LockedByOthers(w, i) == \E v \in Workers \ {w} : tx[v] # Idle /\ i \in DOMAIN tx[v].rows

\* A table with some of its rows written anew.
Over(written, table) ==
  [i \in DOMAIN written \cup DOMAIN table |->
     IF i \in DOMAIN written THEN written[i] ELSE table[i]]

\* What the transaction of w reads.
View(w) == Over(tx[w].rows, claims)

-----------------------------------------------------------------------------
\* Ingest: extraction persists a candidate for every proposal that has none,
\* and leaves all of them to the gate.  The model extractor may find less.
Deliver(w, e) ==
  /\ tx[w] = Idle
  /\ deliveries < MaxDeliveries
  /\ \E found \in SUBSET {p \in Proposals : p.event = e} :
       /\ found # {}
       /\ \A p \in found : Reaches({Home[e]}, Home[e].purpose, p.requested)
       /\ tx' = [tx EXCEPT ![w] =
                   [event |-> e, todo |-> found, verdict |-> None,
                    fresh |-> {p \in found : candidates[p] = 0},
                    gated |-> {}, rows |-> <<>>, decisions |-> {}, relations |-> {}]]
  /\ deliveries' = deliveries + 1
  /\ UNCHANGED <<rows, acts, refused>>

\* evaluate(), up to the decision.
Evaluate(w) ==
  /\ tx[w] # Idle
  /\ tx[w].verdict = None
  /\ \E p \in tx[w].todo : \E grade \in p.grades :
       LET hits == Conflicts(View(w), p) IN
       tx' = [tx EXCEPT ![w].verdict =
                [proposal |-> p, outcome |-> Outcome(grade, p, hits), hits |-> hits,
                 knew |-> DOMAIN View(w)]]
  /\ UNCHANGED <<rows, deliveries, acts, refused>>

\* A mistake: a claim of the same instant is closed too.
ClosingTies(w) ==
  {i \in DOMAIN View(w) :
     /\ HoldsBelief(tx[w].verdict.outcome)
     /\ \E hit \in tx[w].verdict.hits : hit[1] = i /\ hit[2] \in {"supersedes", "duplicates"}
     /\ View(w)[i].to = Open
     /\ At[View(w)[i].proposal.event] <= At[tx[w].event]}

\* A mistake: the claim that was found open is taken to be open still.
ClosingUnchecked(w) ==
  {i \in DOMAIN View(w) :
     /\ HoldsBelief(tx[w].verdict.outcome)
     /\ \E hit \in tx[w].verdict.hits : hit[1] = i /\ hit[2] \in {"supersedes", "duplicates"}
     /\ At[View(w)[i].proposal.event] < At[tx[w].event]}

\* The claims the UPDATEs of insertClaim() match when they run.
Closing(w) ==
  {i \in DOMAIN View(w) :
     /\ HoldsBelief(tx[w].verdict.outcome)
     /\ \E hit \in tx[w].verdict.hits : hit[1] = i /\ hit[2] \in {"supersedes", "duplicates"}
     /\ View(w)[i].to = Open
     /\ At[View(w)[i].proposal.event] < At[tx[w].event]}

\* What the guards have against closing claim i.
ClosingObjection(w, i) ==
  Objection(i, View(w)[i], "superseded", At[tx[w].event], decisions \cup tx[w].decisions)

\* The row of a candidate, once another transaction has marked it gated.
CandidateLocked(w, p) ==
  \E v \in Workers \ {w} : tx[v] # Idle /\ p \in tx[v].gated \ tx[v].fresh

\* The last statement of evaluate() marks the candidate gated.
Settled(w, p) ==
  [tx EXCEPT ![w].todo = @ \ {p}, ![w].verdict = None, ![w].gated = @ \cup {p}]

MaySettle(w, p) == p \in tx[w].fresh \/ ~ CandidateLocked(w, p)

\* A rejected candidate leaves a decision and no claim.
Reject(w) ==
  /\ tx[w] # Idle
  /\ tx[w].verdict # None
  /\ tx[w].verdict.outcome = "reject"
  /\ MaySettle(w, tx[w].verdict.proposal)
  /\ tx' = Settled(w, tx[w].verdict.proposal)
  /\ UNCHANGED <<rows, deliveries, acts, refused>>

\* A mistake: the interval of the older claim ends when the gate runs.
SupersededNow(w, row) == [row EXCEPT !.status = "superseded", !.to = Now]

\* It ends when the new claim became true.
Superseded(w, row) == [row EXCEPT !.status = "superseded", !.to = At[tx[w].event]]

\* insertClaim() and insertDecision(): the claim, its relations and decision,
\* and the end of the claims it supersedes.
Write(w) ==
  LET verdict == tx[w].verdict
      i == FreshId
      claim == NewClaim(verdict.proposal, verdict.outcome, "gate", verdict.knew)
      closed == [j \in Closing(w) |-> Superseded(w, View(w)[j])]
      settled == Settled(w, verdict.proposal)
  IN
  /\ tx[w] # Idle
  /\ verdict # None
  /\ verdict.outcome # "reject"
  /\ MaySettle(w, verdict.proposal)
  /\ HasFreshId
  /\ \A j \in Closing(w) : ~ LockedByOthers(w, j) /\ ClosingObjection(w, j) = "none"
  /\ tx' = [settled EXCEPT
              ![w].rows = Over([j \in {i} |-> claim], Over(closed, @)),
              ![w].decisions = @ \cup {<<i, verdict.outcome>>},
              ![w].relations = @ \cup {<<i, hit[1], hit[2]>> : hit \in verdict.hits}]
  /\ UNCHANGED <<rows, deliveries, acts, refused>>

\* A guard refuses one of the updates: the ingest fails as a whole.
Refuse(w) ==
  /\ tx[w] # Idle
  /\ tx[w].verdict # None
  /\ \E j \in Closing(w) :
       /\ ~ LockedByOthers(w, j)
       /\ ClosingObjection(w, j) # "none"
       /\ refused' = refused \cup {<<j, ClosingObjection(w, j)>>}
  /\ tx' = [tx EXCEPT ![w] = Idle]
  /\ UNCHANGED <<rows, deliveries, acts>>

CommitTx(w) ==
  /\ tx[w] # Idle
  /\ tx[w].todo = {}
  /\ claims' = View(w)
  /\ decisions' = decisions \cup tx[w].decisions
  /\ relations' = relations \cup tx[w].relations
  /\ candidates' = [p \in Proposals |-> candidates[p] + IF p \in tx[w].fresh THEN 1 ELSE 0]
  /\ tx' = [tx EXCEPT ![w] = Idle]
  /\ UNCHANGED <<deliveries, acts, refused>>

\* The process or the connection is lost, a statement times out, or PostgreSQL
\* breaks a deadlock of two ingests.
Abort(w) ==
  /\ tx[w] # Idle
  /\ tx' = [tx EXCEPT ![w] = Idle]
  /\ UNCHANGED <<rows, deliveries, acts, refused>>

Ingest(w) ==
  \/ \E e \in Events : Deliver(w, e)
  \/ Evaluate(w) \/ Reject(w) \/ Write(w) \/ Refuse(w) \/ CommitTx(w) \/ Abort(w)

-----------------------------------------------------------------------------
Intervene(kind) ==
  /\ kind \in Interventions
  /\ acts < MaxActs
  /\ acts' = acts + 1
  /\ UNCHANGED <<tx, deliveries, refused>>

\* POST /v1/candidates/:id/decisions with an accepting outcome: neither the
\* state of the candidate nor the claim store is looked at.
Review(p, outcome) ==
  /\ Intervene("review")
  /\ candidates[p] > 0
  /\ \A v \in Workers : tx[v] # Idle => p \notin tx[v].gated \ tx[v].fresh
  /\ HasFreshId
  /\ claims' = Over([i \in {FreshId} |-> NewClaim(p, outcome, "review", {})], claims)
  /\ decisions' = decisions \cup {<<FreshId, outcome>>}
  /\ UNCHANGED <<relations, candidates>>

\* POST /v1/claims/:id/reverify records a decision and changes no claim.
Reverify(i, digestOk) ==
  /\ Intervene("reverify")
  /\ decisions' = decisions \cup {<<i, IF digestOk THEN "accept" ELSE "needs_review">>}
  /\ UNCHANGED <<claims, relations, candidates>>

\* forget(): every selected claim is revoked, with a decision, or none is.
Revoke(selected) ==
  LET revoked == {i \in selected : claims[i].status # "revoked"}
      end(i) == IF claims[i].to = Open THEN Now ELSE claims[i].to
      row(i) == [claims[i] EXCEPT !.status = "revoked", !.to = end(i)]
      acted == {<<i, "revoke">> : i \in revoked}
  IN
  /\ Intervene("revoke")
  /\ revoked # {} /\ revoked \cap Drafted = {}
  /\ \A i \in revoked :
       Objection(i, claims[i], "revoked", end(i), decisions \cup acted) = "none"
  /\ claims' = Over([i \in revoked |-> row(i)], claims)
  /\ decisions' = decisions \cup acted
  /\ UNCHANGED <<relations, candidates>>

\* correctClaim(): an open claim is closed, then the decision is recorded.
Correct(i, rel, end) ==
  LET status == IF rel = "contradicts" THEN "disputed" ELSE "superseded" IN
  /\ Intervene("correct")
  /\ i \notin Drafted
  /\ \/ /\ claims[i].to = Open
        /\ Objection(i, claims[i], status, end, decisions) = "none"
        /\ claims' = [claims EXCEPT ![i].status = status, ![i].to = end]
     \/ claims[i].to # Open /\ UNCHANGED claims
  /\ decisions' = decisions \cup {<<i, "revoke">>}
  /\ UNCHANGED <<relations, candidates>>

Act ==
  \/ \E p \in Proposals, o \in {"accept", "accept_limited_scope"} : Review(p, o)
  \/ \E i \in DOMAIN claims, digestOk \in BOOLEAN : Reverify(i, digestOk)
  \/ \E selected \in SUBSET DOMAIN claims : Revoke(selected)
  \/ \E i \in DOMAIN claims, rel \in {"supersedes", "contradicts", "narrows"},
        end \in Ends \cup {Now} : Correct(i, rel, end)

Next == (\E w \in Workers : Ingest(w)) \/ Act

Spec == Init /\ [][Next]_vars

-----------------------------------------------------------------------------
Row ==
  [proposal : Proposals, scope : Scope, to : Nat \cup {Open}, by : {"gate", "review"},
   knew : SUBSET Ids,
   status : {"proposed", "accepted", "disputed", "superseded", "revoked", "rejected", "expired"}]

Outcomes ==
  {"accept", "accept_limited_scope", "quarantine", "needs_review", "reject", "revoke"}
Kinds == {"duplicates", "narrows", "contradicts", "supersedes"}

\* Rows, decisions and relations have the shape of their tables, an interval
\* is not empty (CHECK of 0001_core.sql:209), and every relation and decision
\* names a claim that exists.
TypeOK ==
  /\ DOMAIN claims \subseteq Ids
  /\ \A i \in DOMAIN claims :
       /\ claims[i] \in Row
       /\ claims[i].to = Open \/ At[claims[i].proposal.event] < claims[i].to
  /\ decisions \subseteq (DOMAIN claims) \X Outcomes
  /\ relations \subseteq (DOMAIN claims) \X (DOMAIN claims) \X Kinds
  /\ candidates \in [Proposals -> Nat]

\* The claim store is a BeliefStore: an ingest, whose searches and writes are
\* statements among those of others, takes effect at its commit or not at all,
\* and changes no claim that somebody else has changed since it looked.
Promise == INSTANCE BeliefStore

ImplementsBeliefStore == Promise!Spec

\* What has ended stays as it ended: the end of a claim never moves, although
\* the guard only refuses an earlier one (0010_claim_mutation_guard.sql 60,
\* whose message says the opposite), and a revoked claim stays revoked,
\* although the lifecycle of 0002_integrity_and_rls.sql has an edge from
\* revoked to superseded and a gate may have found the claim accepted before.
ClosureIsFinal ==
  [][\A i \in DOMAIN claims :
       /\ claims[i].to # Open => claims'[i].to = claims[i].to
       /\ claims[i].status = "revoked" => claims'[i] = claims[i]]_vars

\* Whatever the gate closed was replaced: a later claim says so in a relation,
\* and the older belief ends when the newer becomes true.  A claim with a
\* revoke decision was closed by a correction.
SupersessionIsExplained ==
  \A i \in DOMAIN claims :
    claims[i].status = "superseded" /\ <<i, "revoke">> \notin decisions =>
      \E j \in DOMAIN claims :
        /\ claims[i].to = At[claims[j].proposal.event]
        /\ \E kind \in {"supersedes", "duplicates"} : <<j, i, kind>> \in relations

GateBelieves(i) == claims[i].by = "gate" /\ Believed(claims[i])

Incompatible(i, j) ==
  Classify(claims[i].proposal.object, claims[j].proposal.object) = "contradicts"

\* Of two contradicting claims the gate believes, neither was there to be
\* found when the other was decided: it had not been committed, or is out of
\* the reach of the other's event.
NoKnownContradiction ==
  \A i, j \in DOMAIN claims :
    GateBelieves(i) /\ GateBelieves(j) /\ Incompatible(j, i) /\ j \in claims[i].knew =>
      LET home == Home[claims[i].proposal.event]
      IN ~ Reaches({home}, home.purpose, claims[j].scope)

\* The only thing that keeps the gate from closing a claim is that the claim
\* was not accepted with outcome accept: neither the interval nor the
\* lifecycle ever makes an ingest fail (commit-gate.ts 793-808).
OnlyMissingDecisionsBlock == \A r \in refused : r[2] = "decision"

-----------------------------------------------------------------------------
\* "The outbox may retry, and a retry must not double-extract" (pipeline.ts
\* 305): the gate believes a proposal once.
NoDoubleExtraction ==
  \A i, j \in DOMAIN claims :
    GateBelieves(i) /\ GateBelieves(j) /\ claims[i].proposal = claims[j].proposal => i = j
=============================================================================
