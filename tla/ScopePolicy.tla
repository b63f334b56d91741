---------------------------- MODULE ScopePolicy ----------------------------
(***************************************************************************)
(* Scopes, the ownership boundaries of events and claims of one tenant,    *)
(* and the three rules over them: containment, which the commit gate uses  *)
(* to keep a claim within its evidence (packages/gate/src/commit-gate.ts), *)
(* directional reach, which row-level security uses to show a row to a     *)
(* request (migrations 0007 and 0014), and the resolution of the scope an  *)
(* extractor asks for (packages/model-adapters/src/pipeline.ts).           *)
(***************************************************************************)
EXTENDS Naturals

CONSTANTS
  Dimensions,           \* project, user, agent, session
  Values,               \* what a dimension can be bound to
  Purposes,
  Unbound               \* SQL NULL

ASSUME ScopeAssumption == Unbound \notin Values

Binding == [Dimensions -> Values \cup {Unbound}]

\* Rows of table scopes: something is bound and there is a purpose.
Scope == {s \in [bind: Binding, purpose: SUBSET Purposes] :
            /\ \E d \in Dimensions : s.bind[d] # Unbound
            /\ s.purpose # {}}

\* What an extractor or a caller of ingest() may ask for.
Ask == [bind: Binding, purpose: SUBSET Purposes]

-----------------------------------------------------------------------------
\* scopeContainment(): requested is within the authority of the evidence.
Contained(requested, authority) ==
  /\ \A d \in Dimensions : \/ authority.bind[d] = Unbound
                           \/ requested.bind[d] = authority.bind[d]
  /\ requested.purpose \subseteq authority.purpose

\* A mistake: a row that leaves a dimension unbound is reached by everyone.
CoversLoosely(outer, inner) ==
  \A d \in Dimensions : \/ Unbound \in {outer.bind[d], inner.bind[d]}
                        \/ outer.bind[d] = inner.bind[d]

\* scope_contains(): a caller that holds outer covers inner.
Covers(outer, inner) ==
  \A d \in Dimensions : outer.bind[d] \in {Unbound, inner.bind[d]}

\* The reachable closure of set_request_context, as row_authorized uses it.
Reaches(held, purposes, row) ==
  /\ purposes \cap row.purpose # {}
  /\ \E s \in held : Covers(s, row)

-----------------------------------------------------------------------------
\* A request for another value than the event's drops the dimension.
Carry(asked, own) ==
  IF asked = Unbound THEN own
  ELSE IF own \notin {Unbound, asked} THEN Unbound ELSE asked

\* The purposes that survive; asking for none, or for none of the event's,
\* leaves the event's.
Overlap(asked, own) == IF asked \cap own = {} THEN own ELSE asked \cap own

\* resolveRequestedScope().
ResolveRequested(event, ask) ==
  LET bind == [d \in Dimensions |-> Carry(ask.bind[d], event.bind[d])] IN
  IF \A d \in Dimensions : bind[d] = Unbound THEN event
  ELSE [bind |-> bind, purpose |-> Overlap(ask.purpose, event.purpose)]
=============================================================================
