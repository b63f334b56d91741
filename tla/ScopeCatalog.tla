---------------------------- MODULE ScopeCatalog ----------------------------
(***************************************************************************)
(* The scopes of a tenant while extractions run: appends create scopes     *)
(* (ensure_scope, migrations/0005), an extraction binds its context to the *)
(* scope of its event and computes there which scopes it reaches           *)
(* (set_request_context, migrations/0014), asks for a scope for every      *)
(* candidate it writes, and fails as a whole when row-level security       *)
(* refuses one.                                                            *)
(***************************************************************************)
EXTENDS ScopePolicy, FiniteSets

CONSTANTS
  Contexts,             \* concurrent extractions
  Initial,              \* the scopes a tenant starts with
  MaxScopes,            \* bound on the scopes of the tenant
  Asks,                 \* what extractors ask for
  NoContext             \* no transaction

ASSUME CatalogAssumption == Initial \subseteq Scope /\ Asks \subseteq Ask

VARIABLES
  catalog,              \* the committed rows of scopes
  ctx,                  \* the transaction of each extraction
  admitted              \* committed pairs <<scope of a candidate, scope of its event>>

catalogVars == <<catalog, ctx, admitted>>

CatalogInit ==
  /\ catalog = Initial
  /\ ctx = [c \in Contexts |-> NoContext]
  /\ admitted = {}

-----------------------------------------------------------------------------
\* An append resolves the scope it names, and creates it if it is new.
EnsureScope(s) ==
  /\ Cardinality(catalog \cup {s}) <= MaxScopes
  /\ catalog' = catalog \cup {s}
  /\ UNCHANGED <<ctx, admitted>>

\* A mistake: the closure asks for a common purpose only.
ClosureByPurpose(held, purposes) == {s \in catalog : s.purpose \cap purposes # {}}

\* A mistake: a scope must share all the purposes of the request.
ClosureOfEveryPurpose(held, purposes) ==
  {s \in catalog : purposes \subseteq s.purpose /\ \E h \in held : Covers(h, s)}

\* The reachable closure is computed once, when the context is bound.
Closure(held, purposes) == {s \in catalog : Reaches(held, purposes, s)}

\* "known" is history: the scopes there were.
Bind(c) ==
  /\ ctx[c] = NoContext
  /\ \E e \in catalog :
       ctx' = [ctx EXCEPT ![c] = [event |-> e, reach |-> Closure({e}, e.purpose),
                                  rows |-> {}, known |-> catalog]]
  /\ UNCHANGED <<catalog, admitted>>

\* A candidate is inserted at the scope it asks for, if the policy on
\* claim_candidates lets it be.
Propose(c, ask) ==
  LET r == ResolveRequested(ctx[c].event, ask) IN
  /\ ctx[c] # NoContext
  /\ r \in ctx[c].reach
  /\ ctx' = [ctx EXCEPT ![c].rows = @ \cup {r}]
  /\ UNCHANGED <<catalog, admitted>>

\* Row-level security refuses the row: the extraction fails, and the scope it
\* may have created is rolled back with it.
Denied(c, ask) ==
  LET r == ResolveRequested(ctx[c].event, ask) IN
  /\ ctx[c] # NoContext
  /\ r \notin ctx[c].reach
  /\ ctx' = [ctx EXCEPT ![c] = NoContext]
  /\ UNCHANGED <<catalog, admitted>>

Commit(c) ==
  /\ ctx[c] # NoContext
  /\ admitted' = admitted \cup (ctx[c].rows \X {ctx[c].event})
  /\ ctx' = [ctx EXCEPT ![c] = NoContext]
  /\ UNCHANGED catalog

CatalogNext ==
  \/ \E s \in Scope : EnsureScope(s)
  \/ \E c \in Contexts : Bind(c) \/ Commit(c)
  \/ \E c \in Contexts, ask \in Asks : Propose(c, ask) \/ Denied(c, ask)

CatalogSpec == CatalogInit /\ [][CatalogNext]_catalogVars

-----------------------------------------------------------------------------
Transaction ==
  [event : Scope, reach : SUBSET Scope, rows : SUBSET Scope, known : SUBSET Scope]

\* Every variable has the values the tables and a request context can hold.
CatalogTypeOK ==
  /\ catalog \subseteq Scope
  /\ \A c \in Contexts : ctx[c] = NoContext \/ ctx[c] \in Transaction
  /\ DOMAIN ctx = Contexts
  /\ admitted \subseteq Scope \X Scope

\* A claim candidate never outgrows its evidence, whatever an extractor asked
\* for: the extraction path narrows (pipeline.ts 408-464), and what it fails to
\* narrow the database refuses.
AdmittedWithinEvidence == \A pair \in admitted : Contained(pair[1], pair[2])

\* Nobody who may read the evidence is kept from the candidate by a dimension:
\* the rule of the gate and the rule of row-level security agree.
ReadersFollowEvidence ==
  \A pair \in admitted : \A s \in catalog : Covers(s, pair[2]) => Covers(s, pair[1])

\* "An extractor that asks for something narrower gets it" (pipeline.ts 403), if
\* the scope was there when its context was bound: a scope that is created for
\* the request itself is out of the transaction's reach.
KnownScopesAreGranted ==
  \A c \in Contexts : ctx[c] # NoContext =>
    \A ask \in Asks :
      LET r == ResolveRequested(ctx[c].event, ask) IN
      (r \in ctx[c].known /\ Contained(r, ctx[c].event)) => r \in ctx[c].reach
=============================================================================
