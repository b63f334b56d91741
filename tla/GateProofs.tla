----------------------------- MODULE GateProofs -----------------------------
(***************************************************************************)
(* Theorems about the claim store (CommitGate), and about the scopes its   *)
(* candidates ask for (ScopeCatalog).                                      *)
(*                                                                         *)
(* The invariant of the claim store is a part about what is committed and  *)
(* a part about each transaction, as it sees the store.  Two facts carry   *)
(* the proof.  A row only ages: its proposal, scope and author stay, and   *)
(* one that is not believed is never believed again, so what a gate found  *)
(* out about a claim keeps its worth while others commit.  And a row that  *)
(* a transaction has closed is locked: nobody else changes it before the   *)
(* transaction ends.  The refinement of BeliefStore adds what the commit   *)
(* of a transaction would be, if it came now.                              *)
(***************************************************************************)
EXTENDS CommitGate, ScopeCatalog, TLAPS

-----------------------------------------------------------------------------
\* The claim store.

\* Rows of the table of claims, and transactions of an ingest.
Table(f) == f \in [DOMAIN f -> Row] /\ DOMAIN f \subseteq Ids
Verdicts ==
  [proposal : Proposals, outcome : Outcomes \ {"revoke"}, hits : SUBSET (Ids \X Kinds), knew : SUBSET Ids]
Drafts(ids) ==
  [event : Events, todo : SUBSET Proposals, verdict : Verdicts \cup {None},
   fresh : SUBSET Proposals, gated : SUBSET Proposals, rows : [ids -> Row],
   decisions : SUBSET (Ids \X Outcomes), relations : SUBSET (Ids \X Ids \X Kinds)]

\* What a transaction t sees.
Seen(t) == Over(t.rows, claims)

\* An interval is not empty, and it is open as long as nothing closed it.
Sound(row) ==
  /\ row.to = Open \/ At[row.proposal.event] < row.to
  /\ row.to = Open <=> row.status \in {"proposed", "accepted"}

\* What may become of a row: no belief comes back.
RowAges(old, new) ==
  /\ new.proposal = old.proposal /\ new.scope = old.scope
  /\ new.by = old.by /\ new.knew = old.knew
  /\ Believed(new) => Believed(old)

Ages(old, new) ==
  /\ DOMAIN old \subseteq DOMAIN new
  /\ \A i \in DOMAIN old : RowAges(old[i], new[i])

\* No claim among known is believed, in reach of the proposal's event, and
\* contradicts the proposal.
Clear(table, p, known) ==
  \A j \in known :
    /\ Believed(table[j])
    /\ Classify(table[j].proposal.object, p.object) = "contradicts"
    => ~ Reaches({Home[p.event]}, Home[p.event].purpose, table[j].scope)

\* A claim the gate believes was clear of what was known when it was decided.
Informed(table, i) ==
  /\ table[i].knew \subseteq DOMAIN table
  /\ table[i].by = "gate" /\ Believed(table[i]) =>
       Clear(table, table[i].proposal, table[i].knew)

StoreInv ==
  /\ Table(claims)
  /\ \A i \in DOMAIN claims : Sound(claims[i]) /\ Informed(claims, i)
  /\ decisions \subseteq (DOMAIN claims) \X Outcomes
  /\ relations \subseteq (DOMAIN claims) \X (DOMAIN claims) \X Kinds
  /\ candidates \in [Proposals -> Nat]
  /\ SupersessionIsExplained
  /\ OnlyMissingDecisionsBlock

\* A transaction names what it sees.
WellScoped(t) ==
  /\ \A p \in t.todo : p.event = t.event
  /\ t.decisions \subseteq (DOMAIN t.rows) \X Outcomes
  /\ t.relations \subseteq (DOMAIN t.rows) \X (DOMAIN Seen(t)) \X Kinds

\* Its rows are new, or locked and closed.
Locked(t) ==
  \A i \in DOMAIN t.rows \cap DOMAIN claims :
    /\ claims[i].to = Open
    /\ t.rows[i].status = "superseded"
    /\ RowAges(claims[i], t.rows[i])

\* What it closed, a claim of its own replaces.
Replaced(t) ==
  \A i \in DOMAIN t.rows : t.rows[i].status = "superseded" =>
    /\ t.rows[i].to = At[t.event]
    /\ \E j \in DOMAIN t.rows :
         /\ t.rows[j].proposal.event = t.event
         /\ \E kind \in {"supersedes", "duplicates"} : <<j, i, kind>> \in t.relations

\* A verdict in favour of a proposal is still clear of what it knew.
Standing(t) ==
  t.verdict # None =>
    /\ t.verdict.proposal \in t.todo
    /\ t.verdict.knew \subseteq DOMAIN Seen(t)
    /\ \A hit \in t.verdict.hits : hit[1] \in DOMAIN Seen(t)
    /\ HoldsBelief(t.verdict.outcome) =>
         Clear(Seen(t), t.verdict.proposal, t.verdict.knew)

DraftInv(t) ==
  /\ t \in Drafts(DOMAIN t.rows) /\ DOMAIN t.rows \subseteq Ids
  /\ WellScoped(t) /\ Locked(t) /\ Replaced(t) /\ Standing(t)
  /\ \A i \in DOMAIN t.rows : Sound(t.rows[i])
  /\ \A i \in DOMAIN t.rows : Informed(Seen(t), i)

\* No row is locked twice.
Exclusive(t, u) == DOMAIN t.rows \cap DOMAIN u.rows = {}

IInv ==
  /\ StoreInv
  /\ DOMAIN tx = Workers
  /\ \A w \in Workers : tx[w] # Idle => DraftInv(tx[w])
  /\ \A v, w \in Workers : v # w /\ tx[v] # Idle /\ tx[w] # Idle => Exclusive(tx[v], tx[w])

Untouched(t) ==
  \A i \in DOMAIN t.rows \cap DOMAIN claims' : i \in DOMAIN claims /\ claims'[i] = claims[i]

-----------------------------------------------------------------------------
\* Rows over rows are rows.
LEMMA OverIsTable ==
  ASSUME NEW f, NEW g, Table(f), Table(g)
  PROVE  Table(Over(f, g))
  BY DEF Over, Table

\* An id nobody uses, if there is one.
LEMMA FreshIdIsFree ==
  ASSUME HasFreshId
  PROVE  FreshId \in Ids /\ FreshId \notin DOMAIN claims /\ FreshId \notin Drafted
  BY DEF HasFreshId, FreshId

\* The rows a transaction has written are among those drafted.
LEMMA DraftedRows ==
  ASSUME NEW w \in Workers, tx[w] # Idle
  PROVE  DOMAIN tx[w].rows \subseteq Drafted
  BY DEF Drafted

\* The kinds of relations that Classify tells apart.
LEMMA ClassifyKinds ==
  ASSUME NEW a, NEW b, Classify(a, b) # "none"
  PROVE  Classify(a, b) \in Kinds
  BY DEF Classify, Kinds

LEMMA OutcomeIsOutcome ==
  ASSUME NEW grade, NEW p, NEW hits
  PROVE  Outcome(grade, p, hits) \in Outcomes \ {"revoke"}
  BY DEF Outcome, Outcomes

\* The new claim is a row of the table.
LEMMA NewClaimIsRow ==
  ASSUME NEW p \in Proposals, NEW outcome, NEW author \in {"gate", "review"},
         NEW knew \in SUBSET Ids
  PROVE  /\ NewClaim(p, outcome, author, knew) \in Row
         /\ Sound(NewClaim(p, outcome, author, knew))
<1>1. AcceptedScope(outcome, p) \in Scope
  BY GateAssumption DEF AcceptedScope
<1> QED
  BY <1>1 DEF NewClaim, Row, Sound

-----------------------------------------------------------------------------
\* What was clear stays clear while rows age.
LEMMA ClearAges ==
  ASSUME NEW old, NEW new, Ages(old, new), NEW p, NEW known \in SUBSET (DOMAIN old),
         Clear(old, p, known)
  PROVE  Clear(new, p, known)
  BY DEF Ages, RowAges, Clear

LEMMA InformedAges ==
  ASSUME NEW old, NEW new, Ages(old, new), NEW i \in DOMAIN old, Informed(old, i)
  PROVE  Informed(new, i)
<1>1. RowAges(old[i], new[i]) /\ DOMAIN old \subseteq DOMAIN new
  BY DEF Ages
<1>2. new[i].knew = old[i].knew /\ new[i].knew \subseteq DOMAIN old
  BY <1>1 DEF RowAges, Informed
<1>3. ASSUME new[i].by = "gate", Believed(new[i])
      PROVE  Clear(new, new[i].proposal, new[i].knew)
  BY <1>1, <1>2, <1>3, ClearAges DEF RowAges, Informed
<1> QED
  BY <1>1, <1>2, <1>3 DEF Informed

\* A transaction sees what is committed, some of it closed.
LEMMA SeenAgesCommitted ==
  ASSUME NEW t, Locked(t)
  PROVE  Ages(claims, Seen(t))
  BY DEF Over, Locked, Ages, RowAges, Seen

\* Others commit and change rows it has not locked: what it sees ages.
LEMMA SeenAges ==
  ASSUME NEW t, Ages(claims, claims')
  PROVE  Ages(Seen(t), Seen(t)')
  BY DEF Over, Ages, RowAges, Seen

LEMMA DraftSurvives ==
  ASSUME NEW t, DraftInv(t), Ages(claims, claims'), Untouched(t)
  PROVE  DraftInv(t)'
<1> USE DEF DraftInv
<1> DEFINE new == Seen(t)'
<1>1. Ages(Seen(t), new)
  BY SeenAges
<1>2. DOMAIN Seen(t) \subseteq DOMAIN new
  BY <1>1 DEF Ages
<1>3. WellScoped(t)'
  BY <1>2 DEF WellScoped
<1>4. Locked(t)'
  BY DEF Locked, Untouched
<1>5. Replaced(t)'
  BY DEF Replaced
<1>6. Standing(t)'
  <2>1. SUFFICES ASSUME t.verdict # None
                 PROVE  /\ t.verdict.knew \subseteq DOMAIN new
                        /\ \A hit \in t.verdict.hits : hit[1] \in DOMAIN new
                        /\ HoldsBelief(t.verdict.outcome) =>
                             Clear(new, t.verdict.proposal, t.verdict.knew)
    BY DEF Standing
  <2> HIDE DEF new
  <2> QED
    BY <1>1, <1>2, <2>1, ClearAges DEF Standing
<1>7. \A i \in DOMAIN t.rows : Informed(new, i)
  <2>1. DOMAIN t.rows \subseteq DOMAIN Seen(t)
    BY DEF Over, Seen
  <2> HIDE DEF new
  <2> QED
    BY <1>1, <2>1, InformedAges
<1> QED
  BY <1>3, <1>4, <1>5, <1>6, <1>7

-----------------------------------------------------------------------------
\* A step of one transaction that writes nothing to the tables: it is enough
\* to look at what becomes of the transaction.
LEMMA OneTransaction ==
  ASSUME IInv, UNCHANGED rows, OnlyMissingDecisionsBlock',
         NEW w \in Workers, NEW t, tx' = [tx EXCEPT ![w] = t],
         t # Idle => /\ DraftInv(t)
                     /\ \A v \in Workers \ {w} : tx[v] # Idle => Exclusive(t, tx[v])
  PROVE  IInv'
<1>1. /\ claims' = claims /\ decisions' = decisions
      /\ relations' = relations /\ candidates' = candidates
  BY DEF rows
<1>2. StoreInv'
  BY <1>1 DEF IInv, StoreInv, Informed, Clear, SupersessionIsExplained
<1>3. /\ DOMAIN tx' = Workers /\ tx'[w] = t
      /\ \A v \in Workers \ {w} : tx'[v] = tx[v]
  BY DEF IInv
<1>4. ASSUME NEW d, DraftInv(d)
      PROVE  DraftInv(d)'
  <2>1. Ages(claims, claims') /\ Untouched(d)
    BY <1>1 DEF Ages, RowAges, Untouched
  <2> QED
    BY <1>4, <2>1, DraftSurvives
<1>5. ASSUME NEW v \in Workers, tx'[v] # Idle
      PROVE  DraftInv(tx[v])'
  <2>1. PICK d : d = tx'[v]
    OBVIOUS
  <2>2. DraftInv(d)
    BY <1>3, <1>5, <2>1 DEF IInv
  <2>3. DraftInv(d)'
    BY <2>2, <1>4
  <2> QED
    BY <2>1, <2>3
<1>6. \A u, v \in Workers : u # v /\ tx'[u] # Idle /\ tx'[v] # Idle => Exclusive(tx'[u], tx'[v])
  BY <1>3 DEF IInv, Exclusive
<1> QED
  BY <1>2, <1>3, <1>5, <1>6 DEF IInv

LEMMA Initially == Init => IInv
<1> SUFFICES ASSUME Init
             PROVE  IInv
  OBVIOUS
<1>1. claims = <<>> /\ DOMAIN claims = {} /\ claims \in [{} -> Row]
  BY DEF Init
<1>2. StoreInv
  BY <1>1 DEF Init, StoreInv, Table, SupersessionIsExplained, OnlyMissingDecisionsBlock
<1>3. DOMAIN tx = Workers /\ \A w \in Workers : tx[w] = Idle
  BY DEF Init
<1> QED
  BY <1>2, <1>3 DEF IInv

LEMMA DeliverPreserves ==
  ASSUME IInv, NEW w \in Workers, NEW e \in Events, Deliver(w, e)
  PROVE  IInv'
<1>1. PICK found \in SUBSET {p \in Proposals : p.event = e} :
        tx' = [tx EXCEPT ![w] =
                 [event |-> e, todo |-> found, verdict |-> None,
                  fresh |-> {p \in found : candidates[p] = 0},
                  gated |-> {}, rows |-> <<>>, decisions |-> {}, relations |-> {}]]
  BY DEF Deliver
<1>2. PICK t : t = [event |-> e, todo |-> found, verdict |-> None,
                    fresh |-> {p \in found : candidates[p] = 0},
                    gated |-> {}, rows |-> <<>>, decisions |-> {}, relations |-> {}]
  OBVIOUS
<1>3. t.rows \in [{} -> Row] /\ DOMAIN t.rows = {}
  BY <1>2
<1>4. t \in Drafts(DOMAIN t.rows)
  BY <1>2, <1>3 DEF Drafts
<1>5. DraftInv(t)
  BY <1>2, <1>3, <1>4 DEF DraftInv, WellScoped, Locked, Replaced, Standing
<1>6. \A v \in Workers \ {w} : tx[v] # Idle => Exclusive(t, tx[v])
  BY <1>3 DEF Exclusive
<1>7. UNCHANGED rows /\ OnlyMissingDecisionsBlock'
  BY DEF Deliver, IInv, StoreInv, OnlyMissingDecisionsBlock
<1>8. tx' = [tx EXCEPT ![w] = t]
  BY <1>1, <1>2
<1> QED
  BY <1>5, <1>6, <1>7, <1>8, OneTransaction

\* The step that ends a transaction without a trace in the tables.
LEMMA EndPreserves ==
  ASSUME IInv, UNCHANGED rows, OnlyMissingDecisionsBlock',
         NEW w \in Workers, tx' = [tx EXCEPT ![w] = Idle]
  PROVE  IInv'
  BY OneTransaction

LEMMA AbortPreserves ==
  ASSUME IInv, NEW w \in Workers, Abort(w)
  PROVE  IInv'
<1>1. UNCHANGED rows /\ OnlyMissingDecisionsBlock' /\ tx' = [tx EXCEPT ![w] = Idle]
  BY DEF Abort, IInv, StoreInv, OnlyMissingDecisionsBlock
<1> QED
  BY <1>1, EndPreserves

\* What a gate may close is open, so that the lifecycle has an edge to
\* superseded, and began before the new claim, so that the interval is not empty.
LEMMA ObjectionIsDecision ==
  ASSUME IInv, NEW w \in Workers, tx[w] # Idle, NEW j \in Closing(w)
  PROVE  ClosingObjection(w, j) \in {"none", "decision"}
<1> DEFINE row == View(w)[j]
           end == At[tx[w].event]
<1>1. j \in DOMAIN View(w) /\ row.to = Open /\ At[row.proposal.event] < end
  BY DEF Closing
<1>2. row.proposal \in Proposals /\ Sound(row)
  <2>1. CASE j \in DOMAIN tx[w].rows
    <3>1. row = tx[w].rows[j]
      BY <2>1 DEF View, Over
    <3> QED
      BY <2>1, <3>1 DEF IInv, DraftInv, Drafts, Row
  <2>2. CASE j \notin DOMAIN tx[w].rows
    <3>1. row = claims[j] /\ j \in DOMAIN claims
      BY <1>1, <2>2 DEF View, Over
    <3> QED
      BY <3>1 DEF IInv, StoreInv, Table, Row
  <2> QED
    BY <2>1, <2>2
<1>3. tx[w].event \in Events
  BY DEF IInv, DraftInv, Drafts
<1>4. end \in Nat /\ At[row.proposal.event] \in Nat
  BY <1>2, <1>3, GateAssumption
<1> HIDE DEF row, end
<1>5. <<row.status, "superseded">> \in Transitions
  BY <1>1, <1>2 DEF Sound, Transitions
<1>6. end # Open /\ ~ (end <= At[row.proposal.event])
  BY <1>1, <1>4, GateAssumption
<1>7. Objection(j, row, "superseded", end, decisions \cup tx[w].decisions)
        \in {"none", "decision"}
  BY <1>1, <1>5, <1>6 DEF Objection, BadEdge, BadInterval
<1> QED
  BY <1>7 DEF ClosingObjection, row, end

LEMMA RefusePreserves ==
  ASSUME IInv, NEW w \in Workers, Refuse(w)
  PROVE  IInv'
<1>1. PICK j \in Closing(w) :
        /\ ClosingObjection(w, j) # "none"
        /\ refused' = refused \cup {<<j, ClosingObjection(w, j)>>}
  BY DEF Refuse
<1>2. ClosingObjection(w, j) = "decision"
  BY <1>1, ObjectionIsDecision DEF Refuse
<1>3. OnlyMissingDecisionsBlock'
  BY <1>1, <1>2 DEF IInv, StoreInv, OnlyMissingDecisionsBlock
<1>4. UNCHANGED rows /\ tx' = [tx EXCEPT ![w] = Idle]
  BY DEF Refuse
<1> QED
  BY <1>3, <1>4, EndPreserves

\* A verdict in favour of a proposal found no contradiction among the claims
\* in reach.
LEMMA FavourIsClear ==
  ASSUME NEW table, NEW p, NEW grade, HoldsBelief(Outcome(grade, p, Conflicts(table, p)))
  PROVE  Clear(table, p, DOMAIN table)
<1> DEFINE hits == Conflicts(table, p)
<1>1. ~ \E hit \in hits : hit[2] = "contradicts"
  <2> HIDE DEF hits
  <2>1. HoldsBelief(Outcome(grade, p, hits))
    BY DEF hits
  <2> QED
    BY <2>1 DEF HoldsBelief, Outcome
<1>2. SUFFICES ASSUME NEW j \in DOMAIN table, Believed(table[j]),
                      Classify(table[j].proposal.object, p.object) = "contradicts",
                      Reaches({Home[p.event]}, Home[p.event].purpose, table[j].scope)
               PROVE  FALSE
  BY DEF Clear
<1>3. <<j, Classify(table[j].proposal.object, p.object)>> \in hits
  BY <1>2 DEF Conflicts
<1> QED
  BY <1>1, <1>2, <1>3

LEMMA HitsAreRows ==
  ASSUME NEW table, NEW p, NEW hit \in Conflicts(table, p)
  PROVE  hit \in (DOMAIN table) \X Kinds
  BY ClassifyKinds DEF Conflicts

LEMMA EvaluatePreserves ==
  ASSUME IInv, NEW w \in Workers, Evaluate(w)
  PROVE  IInv'
<1>1. tx[w] # Idle /\ DraftInv(tx[w])
  BY DEF Evaluate, IInv
<1>2. PICK p \in tx[w].todo : \E grade \in p.grades :
        tx' = [tx EXCEPT ![w].verdict =
                 [proposal |-> p, outcome |-> Outcome(grade, p, Conflicts(View(w), p)),
                  hits |-> Conflicts(View(w), p), knew |-> DOMAIN View(w)]]
  BY DEF Evaluate
<1>3. PICK grade \in p.grades :
        tx' = [tx EXCEPT ![w].verdict =
                 [proposal |-> p, outcome |-> Outcome(grade, p, Conflicts(View(w), p)),
                  hits |-> Conflicts(View(w), p), knew |-> DOMAIN View(w)]]
  BY <1>2
<1>4. PICK r : r = tx[w]
  OBVIOUS
<1>5. PICK verdict : verdict =
        [proposal |-> p, outcome |-> Outcome(grade, p, Conflicts(View(w), p)),
         hits |-> Conflicts(View(w), p), knew |-> DOMAIN View(w)]
  OBVIOUS
<1>6. View(w) = Seen(r) /\ DraftInv(r)
  BY <1>1, <1>4 DEF View, Seen
<1>7. DOMAIN Seen(r) \subseteq Ids
  BY <1>6 DEF IInv, StoreInv, Table, DraftInv, Over, Seen
<1>8. verdict \in Verdicts
  <2>1. p \in Proposals
    BY <1>4, <1>6 DEF DraftInv, Drafts
  <2>2. Conflicts(View(w), p) \subseteq Ids \X Kinds
    BY <1>6, <1>7, HitsAreRows
  <2> QED
    BY <1>5, <1>6, <1>7, <2>1, <2>2, OutcomeIsOutcome DEF Verdicts
<1>9. PICK t : t = [r EXCEPT !.verdict = verdict]
  OBVIOUS
<1>10. r \in Drafts(DOMAIN r.rows)
  BY <1>6 DEF DraftInv
<1>11. /\ t \in Drafts(DOMAIN r.rows)
       /\ t.event = r.event /\ t.todo = r.todo /\ t.rows = r.rows
       /\ t.decisions = r.decisions /\ t.relations = r.relations
       /\ t.verdict = verdict
  BY <1>8, <1>9, <1>10 DEF Drafts
<1>12. Seen(t) = Seen(r)
  BY <1>11 DEF Seen
<1>13. Standing(t)
  <2>1. /\ verdict.proposal = p /\ verdict.knew = DOMAIN Seen(r)
        /\ verdict.hits = Conflicts(Seen(r), p)
        /\ verdict.outcome = Outcome(grade, p, Conflicts(Seen(r), p))
    BY <1>5, <1>6
  <2>2. p \in r.todo
    BY <1>4
  <2>3. \A hit \in verdict.hits : hit[1] \in DOMAIN Seen(r)
    BY <2>1, HitsAreRows
  <2>4. HoldsBelief(verdict.outcome) => Clear(Seen(r), p, DOMAIN Seen(r))
    BY <2>1, FavourIsClear
  <2> QED
    BY <1>11, <1>12, <2>1, <2>2, <2>3, <2>4 DEF Standing
<1>14. DraftInv(t)
  BY <1>6, <1>11, <1>12, <1>13 DEF DraftInv, WellScoped, Locked, Replaced
<1>15. \A v \in Workers \ {w} : tx[v] # Idle => Exclusive(t, tx[v])
  BY <1>1, <1>4, <1>11 DEF IInv, Exclusive
<1>16. tx' = [tx EXCEPT ![w] = t]
  BY <1>3, <1>4, <1>5, <1>9
<1>17. UNCHANGED rows /\ OnlyMissingDecisionsBlock'
  BY DEF Evaluate, IInv, StoreInv, OnlyMissingDecisionsBlock
<1> QED
  BY <1>14, <1>15, <1>16, <1>17, OneTransaction

LEMMA RejectPreserves ==
  ASSUME IInv, NEW w \in Workers, Reject(w)
  PROVE  IInv'
<1>1. tx[w] # Idle /\ DraftInv(tx[w])
  BY DEF Reject, IInv
<1>2. PICK r : r = tx[w]
  OBVIOUS
<1>3. PICK p : p = r.verdict.proposal
  OBVIOUS
<1>4. PICK t : t = [r EXCEPT !.todo = @ \ {p}, !.verdict = None, !.gated = @ \cup {p}]
  OBVIOUS
<1>5. DraftInv(r) /\ r \in Drafts(DOMAIN r.rows) /\ p \in Proposals
  <2>1. r.verdict # None
    BY <1>2 DEF Reject
  <2> QED
    BY <1>1, <1>2, <1>3, <2>1 DEF DraftInv, Standing, Drafts
<1>6. /\ t \in Drafts(DOMAIN r.rows)
      /\ t.event = r.event /\ t.todo \subseteq r.todo /\ t.rows = r.rows
      /\ t.decisions = r.decisions /\ t.relations = r.relations
      /\ t.verdict = None
  BY <1>4, <1>5 DEF Drafts
<1>7. DraftInv(t)
  BY <1>5, <1>6 DEF DraftInv, WellScoped, Locked, Replaced, Standing, Seen
<1>8. \A v \in Workers \ {w} : tx[v] # Idle => Exclusive(t, tx[v])
  BY <1>1, <1>2, <1>6 DEF IInv, Exclusive
<1>9. tx' = [tx EXCEPT ![w] = t]
  BY <1>2, <1>3, <1>4 DEF Reject, Settled
<1>10. UNCHANGED rows /\ OnlyMissingDecisionsBlock'
  BY DEF Reject, IInv, StoreInv, OnlyMissingDecisionsBlock
<1> QED
  BY <1>7, <1>8, <1>9, <1>10, OneTransaction

\* The row a gate closes: it ages, and it is sound.
LEMMA SupersededAges ==
  ASSUME NEW w \in Workers, tx[w].event \in Events,
         NEW row \in Row, row.to = Open, Sound(row),
         At[row.proposal.event] < At[tx[w].event]
  PROVE  /\ Superseded(w, row) \in Row /\ Sound(Superseded(w, row))
         /\ RowAges(row, Superseded(w, row))
         /\ ~ Believed(Superseded(w, row))
         /\ Superseded(w, row).status = "superseded"
         /\ Superseded(w, row).to = At[tx[w].event]
<1>1. At[tx[w].event] \in Nat /\ At[tx[w].event] # Open
  BY GateAssumption
<1>2. PICK new : new = Superseded(w, row)
  OBVIOUS
<1>3. /\ new.proposal = row.proposal /\ new.scope = row.scope /\ new.by = row.by
      /\ new.knew = row.knew /\ new.status = "superseded" /\ new.to = At[tx[w].event]
      /\ new \in Row
  BY <1>1, <1>2 DEF Superseded, Row
<1>4. Sound(new) /\ RowAges(row, new) /\ ~ Believed(new)
  BY <1>1, <1>3 DEF Sound, RowAges, Believed
<1> QED
  BY <1>2, <1>3, <1>4

\* The rows a gate closes are open and older than the event.
LEMMA ClosingIsSound ==
  ASSUME NEW w \in Workers, DraftInv(tx[w]), StoreInv, NEW j \in Closing(w)
  PROVE  /\ j \in DOMAIN View(w) /\ View(w)[j] \in Row /\ Sound(View(w)[j])
         /\ View(w)[j].to = Open
         /\ At[View(w)[j].proposal.event] < At[tx[w].event]
<1>1. /\ j \in DOMAIN View(w) /\ View(w)[j].to = Open
      /\ At[View(w)[j].proposal.event] < At[tx[w].event]
  BY DEF Closing
<1>2. CASE j \in DOMAIN tx[w].rows
  <2>1. View(w)[j] = tx[w].rows[j]
    BY <1>2 DEF View, Over
  <2> QED
    BY <1>1, <1>2, <2>1 DEF DraftInv, Drafts
<1>3. CASE j \notin DOMAIN tx[w].rows
  <2>1. View(w)[j] = claims[j] /\ j \in DOMAIN claims
    BY <1>1, <1>3 DEF View, Over
  <2> QED
    BY <1>1, <2>1 DEF StoreInv, Table
<1> QED
  BY <1>2, <1>3

\* What insertClaim leaves of the transaction r: the claim under a new id i, the
\* rows it closes, a decision and the relations of the conflicts.
Wrote(r, i, claim, closing, t) ==
  /\ i \notin DOMAIN Seen(r) /\ closing \subseteq DOMAIN Seen(r)
  /\ t.event = r.event /\ t.todo \subseteq r.todo /\ t.verdict = None
  /\ DOMAIN t.rows = {i} \cup closing \cup DOMAIN r.rows
  /\ t.rows[i] = claim
  /\ \A j \in closing :
       /\ Seen(r)[j].to = Open
       /\ RowAges(Seen(r)[j], t.rows[j]) /\ Sound(t.rows[j])
       /\ t.rows[j].status = "superseded" /\ t.rows[j].to = At[r.event]
       /\ \E hit \in r.verdict.hits : hit[1] = j /\ hit[2] \in {"supersedes", "duplicates"}
  /\ \A j \in DOMAIN r.rows \ closing : t.rows[j] = r.rows[j]
  /\ t.decisions = r.decisions \cup {<<i, r.verdict.outcome>>}
  /\ t.relations = r.relations \cup {<<i, hit[1], hit[2]>> : hit \in r.verdict.hits}

\* The claim that a verdict leads to.
FromVerdict(claim, verdict) ==
  /\ claim.proposal = verdict.proposal /\ claim.knew = verdict.knew
  /\ Believed(claim) => HoldsBelief(verdict.outcome)
  /\ claim.status # "superseded" /\ Sound(claim)

\* What is seen afterwards.
SeenAfter(r, i, claim, closing, t) ==
  /\ DOMAIN Seen(t) = {i} \cup DOMAIN Seen(r)
  /\ Seen(t)[i] = claim
  /\ \A j \in closing : Seen(t)[j] = t.rows[j]
  /\ \A j \in DOMAIN Seen(r) \ closing : Seen(t)[j] = Seen(r)[j]

LEMMA WroteSees ==
  ASSUME NEW r, NEW i, NEW claim, NEW closing, NEW t, Wrote(r, i, claim, closing, t)
  PROVE  SeenAfter(r, i, claim, closing, t)
<1>1. /\ DOMAIN Seen(r) = DOMAIN r.rows \cup DOMAIN claims
      /\ \A j \in DOMAIN r.rows : Seen(r)[j] = r.rows[j]
      /\ \A j \in DOMAIN claims \ DOMAIN r.rows : Seen(r)[j] = claims[j]
  BY DEF Seen, Over
<1>2. /\ DOMAIN Seen(t) = DOMAIN t.rows \cup DOMAIN claims
      /\ \A j \in DOMAIN t.rows : Seen(t)[j] = t.rows[j]
      /\ \A j \in DOMAIN claims \ DOMAIN t.rows : Seen(t)[j] = claims[j]
  BY DEF Seen, Over
<1>3. /\ i \notin DOMAIN Seen(r) /\ closing \subseteq DOMAIN Seen(r)
      /\ DOMAIN t.rows = {i} \cup closing \cup DOMAIN r.rows /\ t.rows[i] = claim
      /\ \A j \in DOMAIN r.rows \ closing : t.rows[j] = r.rows[j]
  BY DEF Wrote
<1> QED
  BY <1>1, <1>2, <1>3 DEF SeenAfter

LEMMA WroteAges ==
  ASSUME NEW r, NEW i, NEW claim, NEW closing, NEW t, Wrote(r, i, claim, closing, t)
  PROVE  Ages(Seen(r), Seen(t))
<1>1. /\ DOMAIN Seen(r) \subseteq DOMAIN Seen(t)
      /\ \A j \in closing : Seen(t)[j] = t.rows[j]
      /\ \A j \in DOMAIN Seen(r) \ closing : Seen(t)[j] = Seen(r)[j]
  <2>1. SeenAfter(r, i, claim, closing, t)
    BY WroteSees
  <2> QED
    BY <2>1 DEF SeenAfter
<1>2. \A j \in closing : RowAges(Seen(r)[j], t.rows[j])
  BY DEF Wrote
<1>3. \A row : RowAges(row, row)
  BY DEF RowAges
<1> QED
  BY <1>1, <1>2, <1>3 DEF Ages

LEMMA WroteWellScoped ==
  ASSUME NEW r, NEW i, NEW claim, NEW closing, NEW t, Wrote(r, i, claim, closing, t),
         DraftInv(r), r.verdict # None, r.verdict \in Verdicts
  PROVE  WellScoped(t)
<1>1. \A hit \in r.verdict.hits : hit[1] \in DOMAIN Seen(r) /\ hit[2] \in Kinds
  BY DEF DraftInv, Standing, Verdicts
<1>2. r.verdict.outcome \in Outcomes
  BY DEF Verdicts
<1>3. WellScoped(r)
  BY DEF DraftInv
<1>4. /\ t.todo \subseteq r.todo /\ t.event = r.event
      /\ i \in DOMAIN t.rows /\ DOMAIN r.rows \subseteq DOMAIN t.rows
      /\ t.decisions = r.decisions \cup {<<i, r.verdict.outcome>>}
      /\ t.relations = r.relations \cup {<<i, hit[1], hit[2]>> : hit \in r.verdict.hits}
  BY DEF Wrote
<1>5. DOMAIN Seen(r) \subseteq DOMAIN Seen(t)
  BY WroteAges DEF Ages
<1>6. \A q \in t.todo : q.event = t.event
  BY <1>3, <1>4 DEF WellScoped
<1>7. t.decisions \subseteq (DOMAIN t.rows) \X Outcomes
  BY <1>2, <1>3, <1>4 DEF WellScoped
<1>8. {<<i, hit[1], hit[2]>> : hit \in r.verdict.hits}
        \subseteq (DOMAIN t.rows) \X (DOMAIN Seen(t)) \X Kinds
  BY <1>1, <1>4, <1>5
<1>9. r.relations \subseteq (DOMAIN t.rows) \X (DOMAIN Seen(t)) \X Kinds
  BY <1>3, <1>4, <1>5 DEF WellScoped
<1>10. t.relations \subseteq (DOMAIN t.rows) \X (DOMAIN Seen(t)) \X Kinds
  BY <1>4, <1>8, <1>9
<1> QED
  BY <1>6, <1>7, <1>10 DEF WellScoped

LEMMA WroteLocked ==
  ASSUME NEW r, NEW i, NEW claim, NEW closing, NEW t, Wrote(r, i, claim, closing, t),
         DraftInv(r)
  PROVE  Locked(t)
<1>1. SUFFICES ASSUME NEW j \in DOMAIN t.rows \cap DOMAIN claims
               PROVE  /\ claims[j].to = Open /\ t.rows[j].status = "superseded"
                      /\ RowAges(claims[j], t.rows[j])
  BY DEF Locked
<1>2. /\ DOMAIN claims \subseteq DOMAIN Seen(r)
      /\ \A k \in DOMAIN r.rows : Seen(r)[k] = r.rows[k]
      /\ \A k \in DOMAIN claims \ DOMAIN r.rows : Seen(r)[k] = claims[k]
  BY DEF Seen, Over
<1>3. /\ j # i /\ j \in closing \cup DOMAIN r.rows
      /\ j \notin closing => t.rows[j] = r.rows[j]
      /\ j \in closing => /\ Seen(r)[j].to = Open /\ t.rows[j].status = "superseded"
                          /\ RowAges(Seen(r)[j], t.rows[j])
  BY <1>1, <1>2 DEF Wrote
<1>4. j \in DOMAIN r.rows =>
        /\ claims[j].to = Open /\ r.rows[j].status = "superseded"
        /\ RowAges(claims[j], r.rows[j]) /\ r.rows[j].to # Open
  BY <1>1 DEF DraftInv, Locked, Sound
<1>5. CASE j \notin closing
  BY <1>3, <1>4, <1>5
<1>6. CASE j \in closing
  <2>1. j \notin DOMAIN r.rows
    BY <1>2, <1>3, <1>4, <1>6
  <2>2. Seen(r)[j] = claims[j]
    BY <1>1, <1>2, <2>1
  <2> QED
    BY <1>3, <1>6, <2>2
<1> QED
  BY <1>5, <1>6

LEMMA WroteReplaced ==
  ASSUME NEW r, NEW i, NEW claim, NEW closing, NEW t, Wrote(r, i, claim, closing, t),
         DraftInv(r), FromVerdict(claim, r.verdict), r.verdict.proposal.event = r.event
  PROVE  Replaced(t)
<1>1. /\ t.event = r.event /\ i \in DOMAIN t.rows /\ t.rows[i] = claim
      /\ DOMAIN t.rows = {i} \cup closing \cup DOMAIN r.rows
      /\ \A j \in closing :
           /\ t.rows[j].to = At[r.event]
           /\ \E kind \in {"supersedes", "duplicates"} : <<i, j, kind>> \in t.relations
      /\ \A j \in DOMAIN r.rows \ closing : t.rows[j] = r.rows[j]
      /\ r.relations \subseteq t.relations
  <2>1. \A hit \in r.verdict.hits : <<i, hit[1], hit[2]>> \in t.relations
    BY DEF Wrote
  <2> QED
    BY <2>1 DEF Wrote
<1>2. claim.proposal.event = r.event /\ claim.status # "superseded"
  BY DEF FromVerdict
<1>3. \A j \in DOMAIN r.rows : t.rows[j].proposal = r.rows[j].proposal
  <2>1. \A j \in closing : RowAges(Seen(r)[j], t.rows[j])
    BY DEF Wrote
  <2>2. \A j \in DOMAIN r.rows : Seen(r)[j] = r.rows[j]
    BY DEF Seen, Over
  <2> QED
    BY <1>1, <2>1, <2>2 DEF RowAges
<1>4. SUFFICES ASSUME NEW j \in DOMAIN t.rows, t.rows[j].status = "superseded"
               PROVE  /\ t.rows[j].to = At[t.event]
                      /\ \E k \in DOMAIN t.rows :
                           /\ t.rows[k].proposal.event = t.event
                           /\ \E kind \in {"supersedes", "duplicates"} :
                                <<k, j, kind>> \in t.relations
  BY DEF Replaced
<1>5. CASE j \in closing
  BY <1>1, <1>2, <1>5
<1>6. CASE j \notin closing
  <2>1. j \in DOMAIN r.rows /\ t.rows[j] = r.rows[j]
    BY <1>1, <1>2, <1>4, <1>6
  <2>2. r.rows[j].to = At[r.event]
    BY <1>4, <2>1 DEF DraftInv, Replaced
  <2>3. PICK k \in DOMAIN r.rows :
          /\ r.rows[k].proposal.event = r.event
          /\ \E kind \in {"supersedes", "duplicates"} : <<k, j, kind>> \in r.relations
    BY <1>4, <2>1 DEF DraftInv, Replaced
  <2>4. k \in DOMAIN t.rows /\ t.rows[k].proposal.event = t.event
    BY <1>1, <1>3, <2>3
  <2>5. \E kind \in {"supersedes", "duplicates"} : <<k, j, kind>> \in t.relations
    BY <1>1, <2>3
  <2> QED
    BY <1>1, <2>1, <2>2, <2>4, <2>5
<1> QED
  BY <1>5, <1>6

LEMMA WroteInformed ==
  ASSUME NEW r, NEW i, NEW claim, NEW closing, NEW t, Wrote(r, i, claim, closing, t),
         StoreInv, DraftInv(r), r.verdict # None, FromVerdict(claim, r.verdict)
  PROVE  \A j \in DOMAIN t.rows : Informed(Seen(t), j)
<1>1. Ages(Seen(r), Seen(t))
  BY WroteAges
<1>2. /\ DOMAIN Seen(r) \subseteq DOMAIN Seen(t) /\ Seen(t)[i] = claim
      /\ DOMAIN t.rows \subseteq {i} \cup DOMAIN Seen(r)
  <2>1. SeenAfter(r, i, claim, closing, t)
    BY WroteSees
  <2>2. DOMAIN t.rows \subseteq DOMAIN Seen(t)
    BY DEF Seen, Over
  <2> QED
    BY <2>1, <2>2 DEF SeenAfter
<1>3. Informed(Seen(t), i)
  <2>1. r.verdict.knew \in SUBSET DOMAIN Seen(r)
    BY DEF DraftInv, Standing
  <2>2. HoldsBelief(r.verdict.outcome) => Clear(Seen(r), r.verdict.proposal, r.verdict.knew)
    BY DEF DraftInv, Standing
  <2>3. HoldsBelief(r.verdict.outcome) => Clear(Seen(t), r.verdict.proposal, r.verdict.knew)
    BY <1>1, <2>1, <2>2, ClearAges
  <2>4. /\ claim.proposal = r.verdict.proposal /\ claim.knew = r.verdict.knew
        /\ Believed(claim) => HoldsBelief(r.verdict.outcome)
    BY DEF FromVerdict
  <2> QED
    BY <1>2, <2>1, <2>3, <2>4 DEF Informed
<1>4. ASSUME NEW j \in DOMAIN Seen(r)
      PROVE  Informed(Seen(r), j)
  <2>1. CASE j \in DOMAIN r.rows
    BY <2>1 DEF DraftInv
  <2>2. CASE j \notin DOMAIN r.rows
    <3>1. j \in DOMAIN claims
      BY <2>2 DEF Seen, Over
    <3>2. Ages(claims, Seen(r))
      BY SeenAgesCommitted DEF DraftInv
    <3>3. Informed(claims, j)
      BY <3>1 DEF StoreInv
    <3> QED
      BY <3>1, <3>2, <3>3, InformedAges
  <2> QED
    BY <2>1, <2>2
<1>5. \A j \in DOMAIN Seen(r) : Informed(Seen(t), j)
  BY <1>1, <1>4, InformedAges
<1> QED
  BY <1>2, <1>3, <1>5

\* A gate that writes leaves its transaction in order.
LEMMA WroteDraft ==
  ASSUME NEW r, NEW i, NEW claim, NEW closing, NEW t, Wrote(r, i, claim, closing, t),
         t \in Drafts(DOMAIN t.rows), DOMAIN t.rows \subseteq Ids,
         StoreInv, DraftInv(r), r.verdict # None, r.verdict \in Verdicts,
         FromVerdict(claim, r.verdict), r.verdict.proposal.event = r.event
  PROVE  DraftInv(t)
<1>1. WellScoped(t) /\ Locked(t) /\ Replaced(t)
  BY WroteWellScoped, WroteLocked, WroteReplaced
<1>2. Standing(t)
  BY DEF Wrote, Standing
<1>3. \A j \in DOMAIN t.rows : Sound(t.rows[j])
  <2>1. Sound(claim)
    BY DEF FromVerdict
  <2>2. \A j \in DOMAIN r.rows : Sound(r.rows[j])
    BY DEF DraftInv
  <2> QED
    BY <2>1, <2>2 DEF Wrote
<1>4. \A j \in DOMAIN t.rows : Informed(Seen(t), j)
  BY WroteInformed
<1> QED
  BY <1>1, <1>2, <1>3, <1>4 DEF DraftInv

\* What a gate closes, row by row.
LEMMA ClosedRows ==
  ASSUME IInv, NEW w \in Workers, tx[w] # Idle, NEW j \in Closing(w)
  PROVE  /\ View(w)[j].to = Open
         /\ Superseded(w, View(w)[j]) \in Row /\ Sound(Superseded(w, View(w)[j]))
         /\ RowAges(View(w)[j], Superseded(w, View(w)[j]))
         /\ Superseded(w, View(w)[j]).status = "superseded"
         /\ Superseded(w, View(w)[j]).to = At[tx[w].event]
<1>1. DraftInv(tx[w]) /\ StoreInv
  BY DEF IInv
<1>2. tx[w].event \in Events
  BY <1>1 DEF DraftInv, Drafts
<1>3. PICK row : row = View(w)[j]
  OBVIOUS
<1>4. row \in Row /\ Sound(row) /\ row.to = Open /\ At[row.proposal.event] < At[tx[w].event]
  BY <1>1, <1>3, ClosingIsSound
<1> QED
  BY <1>2, <1>3, <1>4, SupersededAges

\* The transaction of w after insertClaim: t, with the claim under the new id i.
Takes(w, i, t) ==
  LET verdict == tx[w].verdict IN
  /\ i \in Ids /\ i \notin DOMAIN claims /\ i \notin Drafted
  /\ Wrote(tx[w], i, NewClaim(verdict.proposal, verdict.outcome, "gate", verdict.knew),
           Closing(w), t)
  /\ \A j \in Closing(w) : t.rows[j] = Superseded(w, View(w)[j])
  /\ DraftInv(t)
  /\ tx' = [tx EXCEPT ![w] = t]

LEMMA WriteTakes ==
  ASSUME IInv, NEW w \in Workers, Write(w)
  PROVE  \E i, t : Takes(w, i, t)
<1>1. PICK r : r = tx[w]
  OBVIOUS
<1>2. PICK i : i = FreshId
  OBVIOUS
<1>3. PICK p : p = r.verdict.proposal
  OBVIOUS
<1>4. PICK claim : claim = NewClaim(p, r.verdict.outcome, "gate", r.verdict.knew)
  OBVIOUS
<1>5. PICK closing : closing = Closing(w)
  OBVIOUS
<1>6. PICK closed : closed = [j \in closing |-> Superseded(w, View(w)[j])]
  OBVIOUS
<1>7. PICK new : new = Over([j \in {i} |-> claim], Over(closed, r.rows))
  OBVIOUS
<1>8. PICK related : related = {<<i, hit[1], hit[2]>> : hit \in r.verdict.hits}
  OBVIOUS
<1>9. PICK t : t = [r EXCEPT !.todo = @ \ {p}, !.verdict = None, !.gated = @ \cup {p},
                       !.rows = new, !.decisions = @ \cup {<<i, r.verdict.outcome>>},
                       !.relations = @ \cup related]
  OBVIOUS
<1>10. /\ r # Idle /\ r.verdict # None /\ HasFreshId
       /\ \A j \in closing : ~ LockedByOthers(w, j)
  BY <1>1, <1>5 DEF Write
<1>11. StoreInv /\ DraftInv(r) /\ r \in Drafts(DOMAIN r.rows) /\ DOMAIN r.rows \subseteq Ids
  BY <1>1, <1>10 DEF IInv, DraftInv
<1>12. /\ r.verdict \in Verdicts /\ p \in Proposals /\ p.event = r.event
       /\ r.verdict.knew \in SUBSET Ids /\ r.verdict.outcome \in Outcomes
       /\ r.verdict.hits \subseteq Ids \X Kinds
  BY <1>3, <1>10, <1>11 DEF DraftInv, Drafts, Verdicts, Standing, WellScoped
<1>13. claim \in Row /\ FromVerdict(claim, r.verdict)
  <2>1. claim \in Row /\ Sound(claim)
    BY <1>4, <1>12, NewClaimIsRow
  <2> QED
    BY <1>3, <1>4, <2>1 DEF FromVerdict, NewClaim, Believed
<1>14. i \in Ids /\ i \notin DOMAIN claims /\ i \notin Drafted
  BY <1>2, <1>10, FreshIdIsFree
<1>15. View(w) = Seen(r) /\ DOMAIN Seen(r) = DOMAIN r.rows \cup DOMAIN claims
  BY <1>1 DEF View, Seen, Over
<1>16. i \notin DOMAIN Seen(r)
  BY <1>1, <1>10, <1>14, <1>15, DraftedRows
<1>17. closing \subseteq DOMAIN Seen(r)
  BY <1>5, <1>15 DEF Closing
<1>18. \A j \in closing :
         /\ Seen(r)[j].to = Open
         /\ closed[j] \in Row /\ RowAges(Seen(r)[j], closed[j]) /\ Sound(closed[j])
         /\ closed[j].status = "superseded" /\ closed[j].to = At[r.event]
  BY <1>1, <1>5, <1>6, <1>10, <1>15, ClosedRows
<1>19. \A j \in closing :
         \E hit \in r.verdict.hits : hit[1] = j /\ hit[2] \in {"supersedes", "duplicates"}
  BY <1>1, <1>5 DEF Closing
<1>20. /\ DOMAIN new = {i} \cup closing \cup DOMAIN r.rows
       /\ new[i] = claim
       /\ \A j \in closing : new[j] = closed[j]
       /\ \A j \in DOMAIN r.rows \ closing : new[j] = r.rows[j]
       /\ new = [j \in DOMAIN new |-> new[j]]
  BY <1>6, <1>7, <1>15, <1>16, <1>17 DEF Over
<1>21. new \in [DOMAIN new -> Row] /\ DOMAIN new \subseteq Ids
  <2>1. \A j \in DOMAIN r.rows : r.rows[j] \in Row
    BY <1>11 DEF Drafts
  <2>2. \A j \in DOMAIN new : new[j] \in Row
    BY <1>13, <1>18, <1>20, <2>1
  <2>3. DOMAIN claims \subseteq Ids
    BY <1>11 DEF StoreInv, Table
  <2>4. DOMAIN new \subseteq Ids
    BY <1>11, <1>14, <1>15, <1>17, <1>20, <2>3
  <2> QED
    BY <1>20, <2>2, <2>4
<1>22. /\ t \in Drafts(DOMAIN new)
       /\ t.event = r.event /\ t.todo \subseteq r.todo /\ t.verdict = None /\ t.rows = new
       /\ t.decisions = r.decisions \cup {<<i, r.verdict.outcome>>}
       /\ t.relations = r.relations \cup related
  <2>1. related \in SUBSET (Ids \X Ids \X Kinds)
    BY <1>8, <1>12, <1>14
  <2>2. {<<i, r.verdict.outcome>>} \in SUBSET (Ids \X Outcomes)
    BY <1>12, <1>14
  <2> QED
    BY <1>9, <1>11, <1>12, <1>21, <2>1, <2>2 DEF Drafts
<1>23. Wrote(r, i, claim, closing, t)
  BY <1>8, <1>16, <1>17, <1>18, <1>19, <1>20, <1>22 DEF Wrote
<1>24. DraftInv(t)
  BY <1>3, <1>10, <1>11, <1>12, <1>13, <1>21, <1>22, <1>23, WroteDraft
<1>25. tx' = [tx EXCEPT ![w] = t]
  <2>1. PICK s : s = [r EXCEPT !.todo = @ \ {p}, !.verdict = None, !.gated = @ \cup {p}]
    OBVIOUS
  <2>2. Settled(w, p) = [tx EXCEPT ![w] = s]
    BY <1>1, <2>1 DEF Settled
  <2>3. Settled(w, p)[w] = s
    BY <2>2 DEF IInv
  <2>4. s.rows = r.rows /\ s.decisions = r.decisions /\ s.relations = r.relations
    BY <1>11, <2>1 DEF Drafts
  <2>5. tx' = [Settled(w, p) EXCEPT
                 ![w].rows = new, ![w].decisions = r.decisions \cup {<<i, r.verdict.outcome>>},
                 ![w].relations = r.relations \cup related]
    BY <1>1, <1>2, <1>3, <1>4, <1>5, <1>6, <1>7, <1>8, <2>3, <2>4 DEF Write
  <2>6. tx' = [tx EXCEPT ![w] = [s EXCEPT !.rows = new,
                                          !.decisions = r.decisions \cup {<<i, r.verdict.outcome>>},
                                          !.relations = r.relations \cup related]]
    BY <2>2, <2>5
  <2>7. t = [s EXCEPT !.rows = new, !.decisions = r.decisions \cup {<<i, r.verdict.outcome>>},
                      !.relations = r.relations \cup related]
    BY <1>9, <2>1
  <2> QED
    BY <2>6, <2>7
<1>26. \A j \in closing : t.rows[j] = Superseded(w, View(w)[j])
  BY <1>6, <1>20, <1>22
<1>27. Takes(w, i, t)
  BY <1>1, <1>3, <1>4, <1>5, <1>14, <1>23, <1>24, <1>25, <1>26 DEF Takes
<1> QED
  BY <1>27

LEMMA WritePreserves ==
  ASSUME IInv, NEW w \in Workers, Write(w)
  PROVE  IInv'
<1>1. PICK i, t : Takes(w, i, t)
  BY WriteTakes
<1>2. /\ tx[w] # Idle /\ \A j \in Closing(w) : ~ LockedByOthers(w, j)
      /\ UNCHANGED rows /\ OnlyMissingDecisionsBlock'
  BY DEF Write, IInv, StoreInv, OnlyMissingDecisionsBlock
<1>3. /\ i \notin Drafted /\ DraftInv(t) /\ tx' = [tx EXCEPT ![w] = t]
      /\ DOMAIN t.rows = {i} \cup Closing(w) \cup DOMAIN tx[w].rows
  BY <1>1 DEF Takes, Wrote
<1>4. ASSUME NEW v \in Workers \ {w}, tx[v] # Idle
      PROVE  Exclusive(t, tx[v])
  <2>1. DOMAIN tx[w].rows \cap DOMAIN tx[v].rows = {}
    BY <1>2, <1>4 DEF IInv, Exclusive
  <2>2. i \notin DOMAIN tx[v].rows
    BY <1>3, <1>4, DraftedRows
  <2>3. Closing(w) \cap DOMAIN tx[v].rows = {}
    BY <1>2, <1>4 DEF LockedByOthers
  <2> QED
    BY <1>3, <2>1, <2>2, <2>3 DEF Exclusive
<1> QED
  BY <1>2, <1>3, <1>4, OneTransaction

-----------------------------------------------------------------------------
\* Claim i of a table was replaced by a claim of the table.
Explained(table, related, i) ==
  \E j \in DOMAIN table :
    /\ table[i].to = At[table[j].proposal.event]
    /\ \E kind \in {"supersedes", "duplicates"} : <<j, i, kind>> \in related

\* What a step that writes to the tables has to show about them.
StoreStep ==
  /\ Ages(claims, claims') /\ Table(claims')
  /\ \A i \in DOMAIN claims' : Sound(claims'[i])
  /\ \A i \in DOMAIN claims' \ DOMAIN claims : Informed(claims', i)
  /\ decisions \subseteq decisions' /\ decisions' \subseteq (DOMAIN claims') \X Outcomes
  /\ relations \subseteq relations'
  /\ relations' \subseteq (DOMAIN claims') \X (DOMAIN claims') \X Kinds
  /\ candidates' \in [Proposals -> Nat]
  /\ \A i \in DOMAIN claims' :
       claims'[i].status = "superseded" /\ <<i, "revoke">> \notin decisions' =>
         \/ Explained(claims', relations', i)
         \/ i \in DOMAIN claims /\ claims'[i] = claims[i]
  /\ UNCHANGED refused

LEMMA StoreStepPreserves ==
  ASSUME StoreInv, StoreStep
  PROVE  StoreInv'
<1>1. Ages(claims, claims') /\ DOMAIN claims \subseteq DOMAIN claims'
  BY DEF StoreStep, Ages
<1>2. ASSUME NEW i \in DOMAIN claims'
      PROVE  Informed(claims', i)
  <2>1. CASE i \in DOMAIN claims
    <3>1. Informed(claims, i)
      BY <2>1 DEF StoreInv
    <3> QED
      BY <1>1, <2>1, <3>1, InformedAges
  <2>2. CASE i \notin DOMAIN claims
    BY <1>2, <2>2 DEF StoreStep
  <2> QED
    BY <2>1, <2>2
<1>3. ASSUME NEW i \in DOMAIN claims, Explained(claims, relations, i), claims'[i] = claims[i]
      PROVE  Explained(claims', relations', i)
  <2>1. PICK j \in DOMAIN claims :
          /\ claims[i].to = At[claims[j].proposal.event]
          /\ \E kind \in {"supersedes", "duplicates"} : <<j, i, kind>> \in relations
    BY <1>3 DEF Explained
  <2>2. j \in DOMAIN claims' /\ claims'[j].proposal = claims[j].proposal
    BY <1>1 DEF Ages, RowAges
  <2>3. \E kind \in {"supersedes", "duplicates"} : <<j, i, kind>> \in relations'
    BY <2>1 DEF StoreStep
  <2> QED
    BY <1>3, <2>1, <2>2, <2>3 DEF Explained
<1>4. \A i \in DOMAIN claims :
        claims[i].status = "superseded" /\ <<i, "revoke">> \notin decisions =>
          Explained(claims, relations, i)
  BY DEF StoreInv, SupersessionIsExplained, Explained
<1>5. \A i \in DOMAIN claims' :
        claims'[i].status = "superseded" /\ <<i, "revoke">> \notin decisions' =>
          Explained(claims', relations', i)
  BY <1>3, <1>4 DEF StoreStep
<1>6. SupersessionIsExplained'
  BY <1>5 DEF SupersessionIsExplained, Explained
<1>7. OnlyMissingDecisionsBlock'
  BY DEF StoreInv, StoreStep, OnlyMissingDecisionsBlock
<1> QED
  BY <1>2, <1>6, <1>7 DEF StoreInv, StoreStep, Table

LEMMA TransactionsSurvive ==
  ASSUME IInv, StoreStep, DOMAIN tx' = Workers,
         \A v \in Workers : tx'[v] # Idle => tx'[v] = tx[v] /\ Untouched(tx[v])
  PROVE  IInv'
<1>1. StoreInv'
  BY StoreStepPreserves DEF IInv
<1>2. ASSUME NEW v \in Workers, tx'[v] # Idle
      PROVE  DraftInv(tx[v])'
  <2>1. PICK d : d = tx[v]
    OBVIOUS
  <2>2. DraftInv(d) /\ Untouched(d) /\ tx'[v] = d
    BY <1>2, <2>1 DEF IInv
  <2>3. Ages(claims, claims')
    BY DEF StoreStep
  <2>4. DraftInv(d)'
    BY <2>2, <2>3, DraftSurvives
  <2> QED
    BY <2>2, <2>4
<1>3. \A u, v \in Workers : u # v /\ tx'[u] # Idle /\ tx'[v] # Idle => Exclusive(tx'[u], tx'[v])
  BY DEF IInv, Exclusive
<1> QED
  BY <1>1, <1>2, <1>3 DEF IInv

LEMMA CommitPreserves ==
  ASSUME IInv, NEW w \in Workers, CommitTx(w)
  PROVE  IInv'
<1>1. PICK r : r = tx[w]
  OBVIOUS
<1>2. /\ r # Idle /\ claims' = Seen(r)
      /\ decisions' = decisions \cup r.decisions
      /\ relations' = relations \cup r.relations
      /\ candidates' = [p \in Proposals |-> candidates[p] + IF p \in r.fresh THEN 1 ELSE 0]
      /\ tx' = [tx EXCEPT ![w] = Idle]
      /\ UNCHANGED refused
  BY <1>1 DEF CommitTx, View, Seen
<1>3. DraftInv(r) /\ StoreInv
  BY <1>1, <1>2 DEF IInv
<1>4. /\ DOMAIN claims' = DOMAIN r.rows \cup DOMAIN claims
      /\ \A i \in DOMAIN r.rows : claims'[i] = r.rows[i]
      /\ \A i \in DOMAIN claims \ DOMAIN r.rows : claims'[i] = claims[i]
  BY <1>2 DEF Seen, Over
<1>5. Ages(claims, claims')
  BY <1>2, <1>3, SeenAgesCommitted DEF DraftInv
<1>6. Table(claims')
  <2>1. Table(r.rows) /\ Table(claims)
    BY <1>3 DEF DraftInv, StoreInv, Drafts, Table
  <2> QED
    BY <1>2, <2>1, OverIsTable DEF Seen
<1>7. \A i \in DOMAIN claims' : Sound(claims'[i])
  BY <1>3, <1>4 DEF DraftInv, StoreInv
<1>8. \A i \in DOMAIN claims' \ DOMAIN claims : Informed(claims', i)
  BY <1>2, <1>3, <1>4 DEF DraftInv
<1>9. /\ decisions' \subseteq (DOMAIN claims') \X Outcomes
      /\ relations' \subseteq (DOMAIN claims') \X (DOMAIN claims') \X Kinds
  BY <1>2, <1>3, <1>4 DEF DraftInv, WellScoped, StoreInv
<1>10. candidates' \in [Proposals -> Nat]
  BY <1>2, <1>3 DEF StoreInv
<1>11. ASSUME NEW i \in DOMAIN claims', claims'[i].status = "superseded"
       PROVE  \/ Explained(claims', relations', i)
              \/ i \in DOMAIN claims /\ claims'[i] = claims[i]
  <2>1. CASE i \in DOMAIN r.rows
    <3>1. r.rows[i].to = At[r.event]
      BY <1>3, <1>4, <1>11, <2>1 DEF DraftInv, Replaced
    <3>2. PICK j \in DOMAIN r.rows :
            /\ r.rows[j].proposal.event = r.event
            /\ \E kind \in {"supersedes", "duplicates"} : <<j, i, kind>> \in r.relations
      BY <1>3, <1>4, <1>11, <2>1 DEF DraftInv, Replaced
    <3> QED
      BY <1>2, <1>4, <2>1, <3>1, <3>2 DEF Explained
  <2>2. CASE i \notin DOMAIN r.rows
    BY <1>4, <2>2
  <2> QED
    BY <2>1, <2>2
<1>12. StoreStep
  BY <1>2, <1>5, <1>6, <1>7, <1>8, <1>9, <1>10, <1>11 DEF StoreStep
<1>13. DOMAIN tx' = Workers
  BY <1>2 DEF IInv
<1>14. ASSUME NEW v \in Workers, tx'[v] # Idle
       PROVE  tx'[v] = tx[v] /\ Untouched(tx[v])
  <2>1. v # w /\ tx'[v] = tx[v]
    BY <1>2, <1>14 DEF IInv
  <2>2. DOMAIN tx[v].rows \cap DOMAIN r.rows = {}
    BY <1>1, <1>2, <1>14, <2>1 DEF IInv, Exclusive
  <2> QED
    BY <1>4, <2>1, <2>2 DEF Untouched
<1> QED
  BY <1>12, <1>13, <1>14, TransactionsSurvive

-----------------------------------------------------------------------------
\* An intervention that leaves the rows others have drafted alone.
LEMMA InterventionPreserves ==
  ASSUME IInv, StoreStep, UNCHANGED tx,
         \A i \in DOMAIN claims' : i \in Drafted => i \in DOMAIN claims /\ claims'[i] = claims[i]
  PROVE  IInv'
<1>1. ASSUME NEW v \in Workers, tx'[v] # Idle
      PROVE  tx'[v] = tx[v] /\ Untouched(tx[v])
  <2>1. DOMAIN tx[v].rows \subseteq Drafted
    BY <1>1, DraftedRows
  <2> QED
    BY <2>1 DEF Untouched
<1>2. DOMAIN tx' = Workers
  BY DEF IInv
<1> QED
  BY <1>1, <1>2, TransactionsSurvive

LEMMA ReviewPreserves ==
  ASSUME IInv, NEW p \in Proposals, NEW outcome \in {"accept", "accept_limited_scope"},
         Review(p, outcome)
  PROVE  IInv'
<1>1. PICK i : i = FreshId
  OBVIOUS
<1>2. PICK claim : claim = NewClaim(p, outcome, "review", {})
  OBVIOUS
<1>3. /\ claims' = Over([j \in {i} |-> claim], claims)
      /\ decisions' = decisions \cup {<<i, outcome>>}
      /\ UNCHANGED <<relations, candidates, tx, refused>>
  BY <1>1, <1>2 DEF Review, Intervene
<1>4. i \in Ids /\ i \notin DOMAIN claims /\ i \notin Drafted
  BY <1>1, FreshIdIsFree DEF Review
<1>5. claim \in Row /\ Sound(claim)
  BY <1>2, NewClaimIsRow
<1>6. claim.knew = {} /\ claim.by = "review" /\ claim.status # "superseded"
  BY <1>2 DEF NewClaim
<1>7. /\ DOMAIN claims' = {i} \cup DOMAIN claims /\ claims'[i] = claim
      /\ \A j \in DOMAIN claims : claims'[j] = claims[j]
  BY <1>3, <1>4 DEF Over
<1>8. StoreInv
  BY DEF IInv
<1>9. Ages(claims, claims')
  BY <1>7 DEF Ages, RowAges
<1>10. Table(claims')
  <2>1. Table([j \in {i} |-> claim])
    BY <1>4, <1>5 DEF Table
  <2>2. Table(claims)
    BY <1>8 DEF StoreInv
  <2> QED
    BY <1>3, <2>1, <2>2, OverIsTable
<1>11. \A j \in DOMAIN claims' : Sound(claims'[j])
  BY <1>5, <1>7, <1>8 DEF StoreInv
<1>12. \A j \in DOMAIN claims' \ DOMAIN claims : Informed(claims', j)
  BY <1>6, <1>7 DEF Informed
<1>13. /\ decisions' \subseteq (DOMAIN claims') \X Outcomes
       /\ relations' \subseteq (DOMAIN claims') \X (DOMAIN claims') \X Kinds
       /\ candidates' \in [Proposals -> Nat]
  BY <1>3, <1>7, <1>8 DEF StoreInv, Outcomes
<1>14. StoreStep
  BY <1>3, <1>6, <1>7, <1>9, <1>10, <1>11, <1>12, <1>13 DEF StoreStep
<1> QED
  BY <1>3, <1>4, <1>7, <1>14, InterventionPreserves

\* The claims of the table change, or one of them, and no id is added.
LEMMA UpdatePreserves ==
  ASSUME IInv, UNCHANGED <<relations, candidates, tx, refused>>,
         decisions \subseteq decisions', decisions' \subseteq (DOMAIN claims) \X Outcomes,
         claims' \in [DOMAIN claims -> Row],
         \A i \in DOMAIN claims :
           \/ claims'[i] = claims[i]
           \/ /\ i \notin Drafted
              /\ RowAges(claims[i], claims'[i]) /\ Sound(claims'[i])
              /\ claims'[i].status # "superseded" \/ <<i, "revoke">> \in decisions'
  PROVE  IInv'
<1>1. DOMAIN claims' = DOMAIN claims
  OBVIOUS
<1>2. StoreInv
  BY DEF IInv
<1>3. Ages(claims, claims')
  <2>1. \A row : RowAges(row, row)
    BY DEF RowAges
  <2> QED
    BY <1>1, <2>1 DEF Ages
<1>4. Table(claims')
  BY <1>1, <1>2 DEF StoreInv, Table
<1>5. \A i \in DOMAIN claims' : Sound(claims'[i])
  BY <1>1, <1>2 DEF StoreInv
<1>6. StoreStep
  BY <1>1, <1>2, <1>3, <1>4, <1>5 DEF StoreStep, StoreInv
<1> QED
  BY <1>1, <1>6, InterventionPreserves

LEMMA ReverifyPreserves ==
  ASSUME IInv, NEW i \in DOMAIN claims, NEW digestOk \in BOOLEAN, Reverify(i, digestOk)
  PROVE  IInv'
<1>1. /\ UNCHANGED <<claims, relations, candidates, tx, refused>>
      /\ decisions' = decisions \cup {<<i, IF digestOk THEN "accept" ELSE "needs_review">>}
  BY DEF Reverify, Intervene
<1>2. decisions' \subseteq (DOMAIN claims) \X Outcomes
  BY <1>1 DEF IInv, StoreInv, Outcomes
<1>3. claims' \in [DOMAIN claims -> Row]
  BY <1>1 DEF IInv, StoreInv, Table
<1> QED
  BY <1>1, <1>2, <1>3, UpdatePreserves

\* A new end that the table accepts closes an interval that is not empty.
LEMMA AcceptedEnd ==
  ASSUME NEW row \in Row, Sound(row), NEW to \in Nat, ~ BadInterval(row, to)
  PROVE  At[row.proposal.event] < to
<1>1. At[row.proposal.event] \in Nat /\ row.to \in Nat \cup {Open} /\ to # Open
  BY GateAssumption DEF Row
<1> QED
  BY <1>1, GateAssumption DEF BadInterval, Sound

LEMMA RevokePreserves ==
  ASSUME IInv, NEW selected \in SUBSET DOMAIN claims, Revoke(selected)
  PROVE  IInv'
<1> DEFINE end(i) == IF claims[i].to = Open THEN Now ELSE claims[i].to
           row(i) == [claims[i] EXCEPT !.status = "revoked", !.to = end(i)]
<1>1. PICK revoked : revoked = {i \in selected : claims[i].status # "revoked"}
  OBVIOUS
<1>2. /\ UNCHANGED <<relations, candidates, tx, refused>>
      /\ decisions' = decisions \cup {<<i, "revoke">> : i \in revoked}
      /\ revoked \cap Drafted = {}
      /\ claims' = Over([i \in revoked |-> row(i)], claims)
      /\ \A i \in revoked :
           Objection(i, claims[i], "revoked", end(i),
                     decisions \cup {<<j, "revoke">> : j \in revoked}) = "none"
  BY <1>1 DEF Revoke, Intervene
<1>3. revoked \subseteq DOMAIN claims
  BY <1>1
<1>4. /\ DOMAIN claims' = DOMAIN claims
      /\ \A i \in revoked : claims'[i] = row(i)
      /\ \A i \in DOMAIN claims \ revoked : claims'[i] = claims[i]
      /\ claims' = [i \in DOMAIN claims' |-> claims'[i]]
  BY <1>2, <1>3 DEF Over
<1>5. ASSUME NEW i \in revoked
      PROVE  /\ row(i) \in Row /\ Sound(row(i)) /\ RowAges(claims[i], row(i))
             /\ row(i).status = "revoked"
  <2>1. claims[i] \in Row /\ Sound(claims[i])
    BY <1>3 DEF IInv, StoreInv, Table
  <2>2. end(i) \in Nat /\ end(i) # Open
    BY <2>1, GateAssumption DEF Row
  <2>3. ~ BadInterval(claims[i], end(i))
    BY <1>2 DEF Objection
  <2> HIDE DEF end
  <2>4. At[claims[i].proposal.event] < end(i)
    BY <2>1, <2>2, <2>3, AcceptedEnd
  <2>5. PICK new : new = row(i)
    OBVIOUS
  <2>6. /\ new \in Row /\ new.status = "revoked" /\ new.to = end(i)
        /\ new.proposal = claims[i].proposal /\ new.scope = claims[i].scope
        /\ new.by = claims[i].by /\ new.knew = claims[i].knew
    BY <2>1, <2>2, <2>5 DEF Row
  <2> HIDE DEF row
  <2> QED
    BY <2>2, <2>4, <2>5, <2>6 DEF Sound, RowAges, Believed
<1> HIDE DEF row, end
<1>6. claims' \in [DOMAIN claims -> Row]
  BY <1>4, <1>5 DEF IInv, StoreInv, Table
<1>7. decisions' \subseteq (DOMAIN claims) \X Outcomes
  BY <1>2, <1>3 DEF IInv, StoreInv, Outcomes
<1>8. \A i \in DOMAIN claims :
        \/ claims'[i] = claims[i]
        \/ /\ i \notin Drafted
           /\ RowAges(claims[i], claims'[i]) /\ Sound(claims'[i])
           /\ claims'[i].status # "superseded"
  BY <1>2, <1>4, <1>5
<1> QED
  BY <1>2, <1>6, <1>7, <1>8, UpdatePreserves

LEMMA CorrectPreserves ==
  ASSUME IInv, NEW i \in DOMAIN claims, NEW rel, NEW end \in Ends \cup {Now},
         Correct(i, rel, end)
  PROVE  IInv'
<1>1. PICK status : status = IF rel = "contradicts" THEN "disputed" ELSE "superseded"
  OBVIOUS
<1>2. /\ UNCHANGED <<relations, candidates, tx, refused>>
      /\ decisions' = decisions \cup {<<i, "revoke">>}
      /\ i \notin Drafted
  BY DEF Correct, Intervene
<1>3. decisions' \subseteq (DOMAIN claims) \X Outcomes
  BY <1>2 DEF IInv, StoreInv, Outcomes
<1>4. CASE UNCHANGED claims
  <2>1. claims' \in [DOMAIN claims -> Row]
    BY <1>4 DEF IInv, StoreInv, Table
  <2> QED
    BY <1>2, <1>3, <1>4, <2>1, UpdatePreserves
<1>5. CASE /\ claims[i].to = Open
           /\ Objection(i, claims[i], status, end, decisions) = "none"
           /\ claims' = [claims EXCEPT ![i].status = status, ![i].to = end]
  <2>1. claims[i] \in Row /\ Sound(claims[i]) /\ claims \in [DOMAIN claims -> Row]
    BY DEF IInv, StoreInv, Table
  <2>2. end \in Nat /\ end # Open
    BY GateAssumption
  <2>3. ~ BadInterval(claims[i], end)
    BY <1>5 DEF Objection
  <2>4. At[claims[i].proposal.event] < end
    BY <2>1, <2>2, <2>3, AcceptedEnd
  <2>5. PICK new : new = [claims[i] EXCEPT !.status = status, !.to = end]
    OBVIOUS
  <2>6. /\ new \in Row /\ new.status = status /\ new.to = end
        /\ new.proposal = claims[i].proposal /\ new.scope = claims[i].scope
        /\ new.by = claims[i].by /\ new.knew = claims[i].knew
    BY <1>1, <2>1, <2>2, <2>5 DEF Row
  <2>7. claims' = [claims EXCEPT ![i] = new]
    BY <1>5, <2>5
  <2>8. Sound(new) /\ RowAges(claims[i], new)
    BY <1>1, <2>2, <2>4, <2>6 DEF Sound, RowAges, Believed
  <2>9. claims' \in [DOMAIN claims -> Row]
    BY <2>1, <2>6, <2>7
  <2>10. \A j \in DOMAIN claims :
           \/ claims'[j] = claims[j]
           \/ /\ j \notin Drafted
              /\ RowAges(claims[j], claims'[j]) /\ Sound(claims'[j])
              /\ <<j, "revoke">> \in decisions'
    BY <1>2, <2>7, <2>8
  <2> QED
    BY <1>2, <1>3, <2>9, <2>10, UpdatePreserves
<1> QED
  BY <1>1, <1>4, <1>5 DEF Correct

LEMMA IngestPreserves ==
  ASSUME IInv, NEW w \in Workers, Ingest(w)
  PROVE  IInv'
  BY DeliverPreserves, EvaluatePreserves, RejectPreserves, WritePreserves, RefusePreserves,
     CommitPreserves, AbortPreserves
  DEF Ingest

LEMMA ActPreserves ==
  ASSUME IInv, Act
  PROVE  IInv'
  BY ReviewPreserves, ReverifyPreserves, RevokePreserves, CorrectPreserves DEF Act

LEMMA Inductive == IInv /\ [Next]_vars => IInv'
<1> SUFFICES ASSUME IInv, [Next]_vars
             PROVE  IInv'
  OBVIOUS
<1>1. CASE Next
  BY <1>1, IngestPreserves, ActPreserves DEF Next
<1>2. CASE UNCHANGED vars
  <2>1. /\ UNCHANGED <<claims, relations, candidates, tx, refused>>
        /\ decisions' = decisions
    BY <1>2 DEF vars, rows
  <2>2. claims' \in [DOMAIN claims -> Row] /\ decisions' \subseteq (DOMAIN claims) \X Outcomes
    BY <2>1 DEF IInv, StoreInv, Table
  <2> QED
    BY <2>1, <2>2, UpdatePreserves
<1> QED
  BY <1>1, <1>2

LEMMA Invariance == Spec => []IInv
  BY Initially, Inductive, PTL DEF Spec

-----------------------------------------------------------------------------
\* Rows, decisions and relations of the claim store have the shape of their
\* tables, and name claims that exist, whatever ingests and people do.
THEOREM TypeCorrect == Spec => []TypeOK
<1>1. IInv => TypeOK
  BY DEF IInv, StoreInv, Table, Sound, TypeOK
<1> QED
  BY <1>1, Invariance, PTL

\* What the gate closed, a later claim replaced: the lock on a closed row lasts
\* until the claim that replaces it is committed with it.
THEOREM GateExplainsSupersession == Spec => []SupersessionIsExplained
<1>1. IInv => SupersessionIsExplained
  BY DEF IInv, StoreInv
<1> QED
  BY <1>1, Invariance, PTL

\* Only a missing decision makes the guards refuse what the gate does.
THEOREM GuardsAskForDecisions == Spec => []OnlyMissingDecisionsBlock
<1>1. IInv => OnlyMissingDecisionsBlock
  BY DEF IInv, StoreInv
<1> QED
  BY <1>1, Invariance, PTL

\* The gate believes no claim against one that was there for it to find.
THEOREM GateBelievesNoKnownContradiction == Spec => []NoKnownContradiction
<1>1. ASSUME IInv
      PROVE  NoKnownContradiction
  <2>1. SUFFICES ASSUME NEW i \in DOMAIN claims, NEW j \in DOMAIN claims,
                        GateBelieves(i), GateBelieves(j), Incompatible(j, i),
                        j \in claims[i].knew
                 PROVE  ~ Reaches({Home[claims[i].proposal.event]},
                                  Home[claims[i].proposal.event].purpose, claims[j].scope)
    BY DEF NoKnownContradiction
  <2>2. Clear(claims, claims[i].proposal, claims[i].knew)
    BY <1>1, <2>1 DEF IInv, StoreInv, Informed, GateBelieves
  <2> QED
    BY <2>1, <2>2 DEF Clear, GateBelieves, Incompatible
<1> QED
  BY <1>1, Invariance, PTL

\* A commit changes only claims that were open.
LEMMA CommitChangesOpenClaims ==
  ASSUME IInv, NEW w \in Workers, CommitTx(w), NEW i \in DOMAIN claims, claims[i].to # Open
  PROVE  claims'[i] = claims[i]
<1>1. tx[w] # Idle /\ claims' = Over(tx[w].rows, claims)
  BY DEF CommitTx, View
<1>2. Locked(tx[w])
  BY <1>1 DEF IInv, DraftInv
<1>3. i \notin DOMAIN tx[w].rows
  BY <1>2 DEF Locked
<1> QED
  BY <1>1, <1>3 DEF Over

LEMMA StepKeepsClosed ==
  ASSUME IInv, Next, NEW i \in DOMAIN claims, claims[i].to # Open
  PROVE  /\ claims'[i].to = claims[i].to
         /\ claims[i].status = "revoked" => claims'[i] = claims[i]
<1> DEFINE Goal == /\ claims'[i].to = claims[i].to
                   /\ claims[i].status = "revoked" => claims'[i] = claims[i]
<1>1. ASSUME NEW w \in Workers, Ingest(w)
      PROVE  Goal
  <2>1. CASE CommitTx(w)
    BY <2>1, CommitChangesOpenClaims
  <2>2. CASE ~ CommitTx(w)
    BY <1>1, <2>2 DEF Ingest, Deliver, Evaluate, Reject, Write, Refuse, Abort, rows
  <2> QED
    BY <2>1, <2>2
<1>2. ASSUME NEW p \in Proposals, NEW o \in {"accept", "accept_limited_scope"}, Review(p, o)
      PROVE  Goal
  <2>1. FreshId \notin DOMAIN claims
    BY <1>2, FreshIdIsFree DEF Review
  <2>2. claims' = Over([j \in {FreshId} |-> NewClaim(p, o, "review", {})], claims)
    BY <1>2 DEF Review
  <2> QED
    BY <2>1, <2>2 DEF Over
<1>3. ASSUME NEW j \in DOMAIN claims, NEW digestOk \in BOOLEAN, Reverify(j, digestOk)
      PROVE  Goal
  BY <1>3 DEF Reverify
<1>4. ASSUME NEW selected \in SUBSET DOMAIN claims, Revoke(selected)
      PROVE  Goal
  <2>1. PICK old \in Row : old = claims[i]
    BY DEF IInv, StoreInv, Table
  <2> DEFINE new == [old EXCEPT !.status = "revoked", !.to = old.to]
  <2>2. PICK row : row = new /\ row.to = old.to
    <3>1. new.to = old.to
      BY DEF Row
    <3> HIDE DEF new
    <3> QED
      BY <3>1
  <2>3. CASE i \in selected /\ claims[i].status # "revoked"
    <3>1. claims'[i] = row
      BY <1>4, <2>1, <2>2, <2>3 DEF Revoke, Over
    <3> QED
      BY <2>1, <2>2, <2>3, <3>1
  <2>4. CASE ~ (i \in selected /\ claims[i].status # "revoked")
    BY <1>4, <2>4 DEF Revoke, Over
  <2> QED
    BY <2>3, <2>4
<1>5. ASSUME NEW j \in DOMAIN claims, NEW rel, NEW end, Correct(j, rel, end)
      PROVE  Goal
  <2>1. CASE UNCHANGED claims
    BY <2>1
  <2>2. CASE ~ UNCHANGED claims
    <3>1. i # j
      BY <1>5, <2>2 DEF Correct
    <3>2. claims'[i] = claims[i]
      BY <1>5, <2>2, <3>1 DEF Correct
    <3> QED
      BY <3>2
  <2> QED
    BY <2>1, <2>2
<1> QED
  BY <1>1, <1>2, <1>3, <1>4, <1>5 DEF Next, Act

\* No end of an interval moves, and a revoked claim is never touched again: no
\* gate holds a closed claim open, and nobody else closes what is closed.
THEOREM ClosedClaimsStay == Spec => ClosureIsFinal
<1>1. IInv /\ [Next]_vars =>
        [\A i \in DOMAIN claims :
           /\ claims[i].to # Open => claims'[i].to = claims[i].to
           /\ claims[i].status = "revoked" => claims'[i] = claims[i]]_vars
  <2>1. IInv => \A i \in DOMAIN claims : claims[i].status = "revoked" => claims[i].to # Open
    BY DEF IInv, StoreInv, Sound
  <2> QED
    BY <2>1, StepKeepsClosed
<1> QED
  BY <1>1, Invariance, PTL DEF Spec, ClosureIsFinal

-----------------------------------------------------------------------------
(* The claim store implements BeliefStore.                                 *)
(*                                                                         *)
(* The commit of an ingest must be right as a whole, so the invariant says *)
(* of every transaction under way what its commit would be: its new rows   *)
(* have one decision each, its other rows are claims as they stand in the  *)
(* table but for their end, and only its new rows speak in decisions and   *)
(* relations.                                                              *)

\* A claim that enters with a transaction t.
Entered(t, i) ==
  /\ t.rows[i].by = "gate" /\ t.rows[i].to = Open /\ t.rows[i].proposal.event = t.event
  /\ \E outcome \in Promise!Accepting \cup Promise!Doubting :
       /\ {d \in t.decisions : d[1] = i} = {<<i, outcome>>}
       /\ t.rows[i].status = IF outcome \in Promise!Accepting THEN "accepted" ELSE "proposed"

\* A claim of the table that t closes.
Ended(t, i) ==
  /\ At[claims[i].proposal.event] < At[t.event]
  /\ <<i, "accept">> \in decisions
  /\ t.rows[i] = [claims[i] EXCEPT !.status = "superseded", !.to = At[t.event]]

Whole(t) ==
  /\ \A i \in DOMAIN t.rows \ DOMAIN claims : Entered(t, i)
  /\ \A i \in DOMAIN t.rows \cap DOMAIN claims : Ended(t, i)
  /\ \A d \in t.decisions : d[1] \notin DOMAIN claims
  /\ \A r \in t.relations : r[1] \notin DOMAIN claims

AtomInv == IInv /\ \A w \in Workers : tx[w] # Idle => Whole(tx[w])

\* The tables grow, and the rows of the given ids stay as they are.
Spares(ids) ==
  /\ DOMAIN claims \subseteq DOMAIN claims' /\ decisions \subseteq decisions'
  /\ \A i \in ids \cap DOMAIN claims' : i \in DOMAIN claims /\ claims'[i] = claims[i]

LEMMA WholeSurvives ==
  ASSUME NEW t, DraftInv(t), Whole(t), Spares(DOMAIN t.rows)
  PROVE  Whole(t)'
<1>1. /\ DOMAIN t.rows \ DOMAIN claims' = DOMAIN t.rows \ DOMAIN claims
      /\ DOMAIN t.rows \cap DOMAIN claims' = DOMAIN t.rows \cap DOMAIN claims
      /\ \A i \in DOMAIN t.rows \cap DOMAIN claims : claims'[i] = claims[i]
      /\ decisions \subseteq decisions'
  BY DEF Spares
<1>2. \A i \in DOMAIN t.rows \ DOMAIN claims' : Entered(t, i)'
  BY <1>1 DEF Whole, Entered, Promise!Accepting, Promise!Doubting
<1>3. \A i \in DOMAIN t.rows \cap DOMAIN claims' : Ended(t, i)'
  BY <1>1 DEF Whole, Ended
<1>4. /\ \A d \in t.decisions : d[1] \in DOMAIN t.rows
      /\ \A r \in t.relations : r[1] \in DOMAIN t.rows
  BY DEF DraftInv, WellScoped
<1>5. /\ \A d \in t.decisions : d[1] \notin DOMAIN claims'
      /\ \A r \in t.relations : r[1] \notin DOMAIN claims'
  BY <1>1, <1>4 DEF Whole
<1> QED
  BY <1>2, <1>3, <1>5 DEF Whole

\* A step that changes one transaction, or ends it, and spares the others.
LEMMA OneWhole ==
  ASSUME AtomInv, NEW w \in Workers, NEW t, tx' = [tx EXCEPT ![w] = t],
         t # Idle => Whole(t)',
         \A v \in Workers \ {w} : tx[v] # Idle => Spares(DOMAIN tx[v].rows)
  PROVE  \A v \in Workers : tx'[v] # Idle => Whole(tx[v])'
<1>1. tx'[w] = t /\ \A v \in Workers \ {w} : tx'[v] = tx[v]
  BY DEF AtomInv, IInv
<1>2. ASSUME NEW v \in Workers \ {w}, tx'[v] # Idle
      PROVE  Whole(tx[v])'
  <2>1. PICK d : d = tx[v]
    OBVIOUS
  <2>2. DraftInv(d) /\ Whole(d) /\ Spares(DOMAIN d.rows) /\ tx'[v] = d
    BY <1>1, <1>2, <2>1 DEF AtomInv, IInv
  <2>3. Whole(d)'
    BY <2>2, WholeSurvives
  <2> QED
    BY <2>2, <2>3
<1>3. ASSUME tx'[w] # Idle
      PROVE  Whole(tx[w])'
  BY <1>1, <1>3
<1> QED
  BY <1>2, <1>3

\* What a gate closes is in the table, is not its own and carries an acceptance.
LEMMA ClosingInTable ==
  ASSUME AtomInv, NEW w \in Workers, Write(w), NEW j \in Closing(w)
  PROVE  /\ j \in DOMAIN claims \ DOMAIN tx[w].rows /\ View(w)[j] = claims[j]
         /\ At[claims[j].proposal.event] < At[tx[w].event]
         /\ <<j, "accept">> \in decisions
<1>1. tx[w] # Idle /\ ClosingObjection(w, j) = "none"
  BY DEF Write
<1>2. DraftInv(tx[w]) /\ StoreInv /\ Whole(tx[w])
  BY <1>1 DEF AtomInv, IInv
<1>3. /\ j \in DOMAIN View(w) /\ View(w)[j] \in Row /\ Sound(View(w)[j])
      /\ View(w)[j].to = Open /\ At[View(w)[j].proposal.event] < At[tx[w].event]
  BY <1>2, ClosingIsSound
<1>4. tx[w].event \in Events /\ At[tx[w].event] \in Nat /\ At[tx[w].event] # Open
  BY <1>2, GateAssumption DEF DraftInv, Drafts
<1>5. j \notin DOMAIN tx[w].rows
  <2>1. SUFFICES ASSUME j \in DOMAIN tx[w].rows
                 PROVE  FALSE
    OBVIOUS
  <2>2. View(w)[j] = tx[w].rows[j]
    BY <2>1 DEF View, Over
  <2>3. CASE j \notin DOMAIN claims
    <3>1. tx[w].rows[j].proposal.event = tx[w].event
      BY <1>2, <2>1, <2>3 DEF Whole, Entered
    <3> QED
      BY <1>3, <1>4, <2>2, <3>1
  <2>4. CASE j \in DOMAIN claims
    <3>1. tx[w].rows[j].status = "superseded"
      BY <1>2, <2>1, <2>4 DEF DraftInv, Locked
    <3> QED
      BY <1>3, <2>2, <3>1 DEF Sound
  <2> QED
    BY <2>3, <2>4
<1>6. j \in DOMAIN claims /\ View(w)[j] = claims[j]
  BY <1>3, <1>5 DEF View, Over
<1>7. <<j, "accept">> \in decisions \cup tx[w].decisions
  <2>1. View(w)[j].status # "superseded"
    BY <1>3 DEF Sound
  <2>2. ~ Undecided(j, View(w)[j], "superseded", decisions \cup tx[w].decisions)
    BY <1>1 DEF ClosingObjection, Objection
  <2> QED
    BY <2>1, <2>2 DEF Undecided, Authority
<1>8. <<j, "accept">> \notin tx[w].decisions
  BY <1>2, <1>6 DEF Whole
<1> QED
  BY <1>3, <1>5, <1>6, <1>7, <1>8

LEMMA WriteIsWhole ==
  ASSUME AtomInv, NEW w \in Workers, Write(w), NEW i, NEW t, Takes(w, i, t)
  PROVE  Whole(t)
<1>1. PICK r : r = tx[w]
  OBVIOUS
<1>2. PICK o : o = r.verdict.outcome
  OBVIOUS
<1>3. PICK claim : claim = NewClaim(r.verdict.proposal, o, "gate", r.verdict.knew)
  OBVIOUS
<1>4. /\ i \notin DOMAIN claims /\ i \notin Drafted
      /\ Wrote(r, i, claim, Closing(w), t)
      /\ \A j \in Closing(w) : t.rows[j] = Superseded(w, View(w)[j])
  BY <1>1, <1>2, <1>3 DEF Takes
<1>5. r # Idle /\ r.verdict # None /\ o # "reject"
  BY <1>1, <1>2 DEF Write
<1>6. DraftInv(r) /\ Whole(r)
  BY <1>1, <1>5 DEF AtomInv, IInv
<1>7. /\ t.event = r.event /\ DOMAIN t.rows = {i} \cup Closing(w) \cup DOMAIN r.rows
      /\ t.rows[i] = claim
      /\ \A j \in DOMAIN r.rows \ Closing(w) : t.rows[j] = r.rows[j]
      /\ t.decisions = r.decisions \cup {<<i, o>>}
      /\ t.relations = r.relations \cup {<<i, hit[1], hit[2]>> : hit \in r.verdict.hits}
  BY <1>2, <1>4 DEF Wrote
<1>8. i \notin DOMAIN r.rows
  BY <1>1, <1>4, <1>5, DraftedRows
<1>9. \A j \in Closing(w) :
        /\ j \in DOMAIN claims \ DOMAIN r.rows
        /\ t.rows[j] = [claims[j] EXCEPT !.status = "superseded", !.to = At[r.event]]
        /\ At[claims[j].proposal.event] < At[r.event] /\ <<j, "accept">> \in decisions
  BY <1>1, <1>4, ClosingInTable DEF Superseded
<1>10. \A d \in r.decisions : d[1] \in DOMAIN r.rows
  BY <1>6 DEF DraftInv, WellScoped
<1>11. Entered(t, i)
  <2>1. claim.by = "gate" /\ claim.to = Open /\ claim.proposal.event = r.event
    BY <1>3, <1>5, <1>6 DEF NewClaim, DraftInv, Standing, WellScoped
  <2>2. claim.status = IF o \in Promise!Accepting THEN "accepted" ELSE "proposed"
    BY <1>3 DEF NewClaim, HoldsBelief, Promise!Accepting
  <2>3. o \in Promise!Accepting \cup Promise!Doubting
    <3>1. o \in Outcomes \ {"revoke"}
      BY <1>2, <1>5, <1>6 DEF DraftInv, Drafts, Verdicts
    <3> QED
      BY <1>5, <3>1 DEF Outcomes, Promise!Accepting, Promise!Doubting
  <2>4. {d \in t.decisions : d[1] = i} = {<<i, o>>}
    BY <1>7, <1>8, <1>10
  <2> QED
    BY <1>7, <2>1, <2>2, <2>3, <2>4 DEF Entered
<1>12. ASSUME NEW j \in DOMAIN r.rows \ DOMAIN claims
       PROVE  Entered(t, j)
  <2>1. Entered(r, j) /\ j # i /\ t.rows[j] = r.rows[j]
    BY <1>6, <1>7, <1>8, <1>9, <1>12 DEF Whole
  <2>2. {d \in t.decisions : d[1] = j} = {d \in r.decisions : d[1] = j}
    BY <1>7, <2>1
  <2> QED
    BY <1>7, <2>1, <2>2 DEF Entered
<1>13. \A j \in DOMAIN t.rows \ DOMAIN claims : Entered(t, j)
  BY <1>7, <1>9, <1>11, <1>12
<1>14. \A j \in DOMAIN t.rows \cap DOMAIN claims : Ended(t, j)
  BY <1>4, <1>6, <1>7, <1>9 DEF Whole, Ended
<1>15. /\ \A d \in t.decisions : d[1] \notin DOMAIN claims
       /\ \A q \in t.relations : q[1] \notin DOMAIN claims
  BY <1>4, <1>6, <1>7 DEF Whole
<1> QED
  BY <1>13, <1>14, <1>15 DEF Whole

\* The statements of an ingest before its commit.
LEMMA IngestStaysWhole ==
  ASSUME AtomInv, NEW w \in Workers, Ingest(w), ~ CommitTx(w)
  PROVE  /\ UNCHANGED <<claims, decisions, relations>>
         /\ \A v \in Workers : tx'[v] # Idle => Whole(tx[v])'
<1>1. UNCHANGED <<claims, decisions, relations>>
  BY DEF Ingest, Deliver, Evaluate, Reject, Write, Refuse, Abort, rows
<1>2. \A v \in Workers : Spares(DOMAIN tx[v].rows)
  BY <1>1 DEF Spares
<1>3. \A t : Whole(t) => Whole(t)'
  BY <1>1 DEF Whole, Entered, Ended, Promise!Accepting, Promise!Doubting
<1>4. ASSUME NEW t, tx' = [tx EXCEPT ![w] = t], t # Idle => Whole(t)
      PROVE  \A v \in Workers : tx'[v] # Idle => Whole(tx[v])'
  BY <1>2, <1>3, <1>4, OneWhole
<1>5. ASSUME NEW e \in Events, Deliver(w, e)
      PROVE  \E t : tx' = [tx EXCEPT ![w] = t] /\ Whole(t)
  <2>1. PICK found \in SUBSET {p \in Proposals : p.event = e} :
          tx' = [tx EXCEPT ![w] =
                   [event |-> e, todo |-> found, verdict |-> None,
                    fresh |-> {p \in found : candidates[p] = 0},
                    gated |-> {}, rows |-> <<>>, decisions |-> {}, relations |-> {}]]
    BY <1>5 DEF Deliver
  <2>2. PICK t : t = [event |-> e, todo |-> found, verdict |-> None,
                      fresh |-> {p \in found : candidates[p] = 0},
                      gated |-> {}, rows |-> <<>>, decisions |-> {}, relations |-> {}]
    OBVIOUS
  <2>3. DOMAIN t.rows = {} /\ t.decisions = {} /\ t.relations = {}
    BY <2>2
  <2> QED
    BY <2>1, <2>2, <2>3 DEF Whole
<1>6. ASSUME Evaluate(w) \/ Reject(w)
      PROVE  \E t : /\ tx' = [tx EXCEPT ![w] = t]
                    /\ t.event = tx[w].event /\ t.rows = tx[w].rows
                    /\ t.decisions = tx[w].decisions /\ t.relations = tx[w].relations
  <2>1. PICK r : r = tx[w] /\ r # Idle
    BY <1>6 DEF Evaluate, Reject
  <2>2. r \in Drafts(DOMAIN r.rows)
    BY <2>1 DEF AtomInv, IInv, DraftInv
  <2>3. CASE Evaluate(w)
    <3>1. PICK verdict : tx' = [tx EXCEPT ![w].verdict = verdict]
      BY <2>3 DEF Evaluate
    <3>2. PICK t : t = [r EXCEPT !.verdict = verdict]
      OBVIOUS
    <3>3. /\ t.event = r.event /\ t.rows = r.rows
          /\ t.decisions = r.decisions /\ t.relations = r.relations
      BY <2>2, <3>2 DEF Drafts
    <3> QED
      BY <2>1, <3>1, <3>2, <3>3
  <2>4. CASE Reject(w)
    <3>1. PICK p : p = r.verdict.proposal
      OBVIOUS
    <3>2. PICK t : t = [r EXCEPT !.todo = @ \ {p}, !.verdict = None, !.gated = @ \cup {p}]
      OBVIOUS
    <3>3. /\ t.event = r.event /\ t.rows = r.rows
          /\ t.decisions = r.decisions /\ t.relations = r.relations
      BY <2>2, <3>2 DEF Drafts
    <3> QED
      BY <2>1, <2>4, <3>1, <3>2, <3>3 DEF Reject, Settled
  <2> QED
    BY <1>6, <2>3, <2>4
<1>7. CASE Evaluate(w) \/ Reject(w)
  <2>1. PICK r : r = tx[w] /\ Whole(r)
    BY <1>7 DEF AtomInv, Evaluate, Reject
  <2>2. PICK t : /\ tx' = [tx EXCEPT ![w] = t]
                 /\ t.event = r.event /\ t.rows = r.rows
                 /\ t.decisions = r.decisions /\ t.relations = r.relations
    BY <1>6, <1>7, <2>1
  <2>3. \A i : (Entered(r, i) => Entered(t, i)) /\ (Ended(r, i) => Ended(t, i))
    BY <2>2 DEF Entered, Ended
  <2>4. Whole(t)
    BY <2>1, <2>2, <2>3 DEF Whole
  <2> QED
    BY <1>1, <1>4, <2>2, <2>4
<1>8. CASE Write(w)
  <2>1. PICK i, t : Takes(w, i, t)
    BY <1>8, WriteTakes DEF AtomInv
  <2>2. Whole(t) /\ tx' = [tx EXCEPT ![w] = t]
    BY <1>8, <2>1, WriteIsWhole DEF Takes
  <2> QED
    BY <1>1, <1>4, <2>2
<1>9. CASE tx' = [tx EXCEPT ![w] = Idle]
  BY <1>1, <1>4, <1>9
<1> QED
  BY <1>1, <1>4, <1>5, <1>7, <1>8, <1>9 DEF Ingest, Refuse, Abort

\* A commit is what BeliefStore calls learning of an event.
LEMMA CommitLearns ==
  ASSUME AtomInv, NEW w \in Workers, CommitTx(w)
  PROVE  Promise!Learn(tx[w].event) /\ tx[w].event \in Events
<1>1. PICK r : r = tx[w]
  OBVIOUS
<1>2. /\ r # Idle /\ claims' = Over(r.rows, claims)
      /\ decisions' = decisions \cup r.decisions /\ relations' = relations \cup r.relations
  BY <1>1 DEF CommitTx, View
<1>3. DraftInv(r) /\ Whole(r) /\ StoreInv
  BY <1>1, <1>2 DEF AtomInv, IInv
<1>4. /\ DOMAIN claims' = DOMAIN r.rows \cup DOMAIN claims
      /\ \A i \in DOMAIN r.rows : claims'[i] = r.rows[i]
      /\ \A i \in DOMAIN claims \ DOMAIN r.rows : claims'[i] = claims[i]
  BY <1>2 DEF Over
<1>5. Promise!New = DOMAIN r.rows \ DOMAIN claims
  BY <1>4 DEF Promise!New
<1>6. /\ \A d \in r.decisions : d[1] \in Promise!New
      /\ \A q \in r.relations : q[1] \in Promise!New
  BY <1>3, <1>5 DEF DraftInv, WellScoped, Whole
<1>7. Promise!Grows
  BY <1>2, <1>4, <1>6 DEF Promise!Grows
<1>8. ASSUME NEW i \in Promise!New
      PROVE  claims'[i].proposal.event = r.event /\ Promise!Begins(i, "gate")
  <2>1. Entered(r, i) /\ claims'[i] = r.rows[i]
    BY <1>3, <1>4, <1>5, <1>8 DEF Whole
  <2>2. \A d \in decisions : d[1] \in DOMAIN claims
    BY <1>3 DEF StoreInv
  <2>3. {d \in decisions' : d[1] = i} = {d \in r.decisions : d[1] = i}
    BY <1>2, <1>5, <1>8, <2>2
  <2> QED
    BY <2>1, <2>3 DEF Entered, Promise!Begins
<1>9. ASSUME NEW i \in DOMAIN claims \cap DOMAIN r.rows
      PROVE  Promise!Replaced(i, r.event)
  <2>1. claims[i].to = Open /\ r.rows[i].status = "superseded"
    BY <1>3, <1>9 DEF DraftInv, Locked
  <2>2. Ended(r, i)
    BY <1>3, <1>9 DEF Whole
  <2>3. PICK j \in DOMAIN r.rows, kind \in {"supersedes", "duplicates"} :
          <<j, i, kind>> \in r.relations
    BY <1>3, <1>9, <2>1 DEF DraftInv, Replaced
  <2>4. j \in Promise!New
    BY <1>3, <1>5, <2>3 DEF Whole
  <2>5. <<j, i, kind>> \in relations'
    BY <1>2, <2>3
  <2> QED
    BY <1>4, <1>9, <2>1, <2>2, <2>4, <2>5 DEF Ended, Promise!Replaced, Promise!Start
<1>10. r.event \in Events
  BY <1>3 DEF DraftInv, Drafts
<1> QED
  BY <1>1, <1>4, <1>7, <1>8, <1>9, <1>10 DEF Promise!Learn

LEMMA ReviewAdmits ==
  ASSUME IInv, NEW p, NEW outcome \in {"accept", "accept_limited_scope"}, Review(p, outcome)
  PROVE  Promise!Next /\ Spares(Drafted) /\ UNCHANGED tx
<1>1. PICK i : i = FreshId
  OBVIOUS
<1>2. PICK claim : claim = NewClaim(p, outcome, "review", {})
  OBVIOUS
<1>3. /\ claims' = Over([j \in {i} |-> claim], claims)
      /\ decisions' = decisions \cup {<<i, outcome>>}
      /\ UNCHANGED <<relations, tx>>
  BY <1>1, <1>2 DEF Review, Intervene
<1>4. i \notin DOMAIN claims /\ i \notin Drafted
  BY <1>1, FreshIdIsFree DEF Review
<1>5. /\ DOMAIN claims' = {i} \cup DOMAIN claims /\ claims'[i] = claim
      /\ \A j \in DOMAIN claims : claims'[j] = claims[j]
  BY <1>3, <1>4 DEF Over
<1>6. Promise!New = {i}
  BY <1>4, <1>5 DEF Promise!New
<1>7. {d \in decisions' : d[1] = i} = {<<i, outcome>>}
  <2>1. \A d \in decisions : d[1] \in DOMAIN claims
    BY DEF IInv, StoreInv
  <2> QED
    BY <1>3, <1>4, <2>1
<1>8. claim.by = "review" /\ claim.to = Open /\ claim.status = "accepted"
  BY <1>2 DEF NewClaim, HoldsBelief
<1>9. Promise!Begins(i, "review")
  BY <1>5, <1>7, <1>8 DEF Promise!Begins, Promise!Accepting
<1>10. Promise!Grows
  BY <1>3, <1>5, <1>6 DEF Promise!Grows
<1>11. Promise!Admit(i)
  BY <1>3, <1>5, <1>6, <1>9, <1>10 DEF Promise!Admit
<1>12. Spares(Drafted)
  BY <1>3, <1>4, <1>5 DEF Spares
<1> QED
  BY <1>3, <1>6, <1>11, <1>12 DEF Promise!Next

\* A decision on a claim, and nothing else.
LEMMA JudgementIsNext ==
  ASSUME NEW i \in DOMAIN claims, NEW outcome \in {"accept", "needs_review", "revoke"},
         decisions' = decisions \cup {<<i, outcome>>}, UNCHANGED <<claims, relations>>
  PROVE  Promise!Next /\ Spares(Drafted)
<1>1. Promise!Judge(i, outcome)
  BY DEF Promise!Judge
<1>2. Spares(Drafted)
  BY DEF Spares
<1> QED
  BY <1>1, <1>2 DEF Promise!Next

LEMMA RevokeRetires ==
  ASSUME IInv, NEW selected \in SUBSET DOMAIN claims, Revoke(selected)
  PROVE  Promise!Next /\ Spares(Drafted) /\ UNCHANGED tx
<1> DEFINE end(i) == IF claims[i].to = Open THEN Now ELSE claims[i].to
           row(i) == [claims[i] EXCEPT !.status = "revoked", !.to = end(i)]
<1>1. PICK revoked : revoked = {i \in selected : claims[i].status # "revoked"}
  OBVIOUS
<1>2. /\ UNCHANGED <<relations, tx>>
      /\ decisions' = decisions \cup {<<i, "revoke">> : i \in revoked}
      /\ revoked \cap Drafted = {}
      /\ claims' = Over([i \in revoked |-> row(i)], claims)
      /\ \A i \in revoked :
           Objection(i, claims[i], "revoked", end(i),
                     decisions \cup {<<j, "revoke">> : j \in revoked}) = "none"
  BY <1>1 DEF Revoke, Intervene
<1>3. revoked \in SUBSET DOMAIN claims
  BY <1>1
<1>4. /\ DOMAIN claims' = DOMAIN claims
      /\ \A i \in revoked : claims'[i] = row(i)
      /\ \A i \in DOMAIN claims \ revoked : claims'[i] = claims[i]
  BY <1>2, <1>3 DEF Over
<1>5. ASSUME NEW i \in revoked
      PROVE  /\ claims[i].status \in {"accepted", "disputed", "superseded"}
             /\ Promise!EndsOnce(i)
             /\ claims'[i] = [claims[i] EXCEPT !.status = "revoked", !.to = claims'[i].to]
  <2>1. claims[i] \in Row /\ Sound(claims[i]) /\ claims[i].status # "revoked"
    BY <1>1, <1>3 DEF IInv, StoreInv, Table
  <2>2. ~ BadEdge(claims[i], "revoked") /\ ~ BadInterval(claims[i], end(i))
    BY <1>2 DEF Objection
  <2>3. claims[i].status \in {"accepted", "disputed", "superseded"}
    BY <2>1, <2>2 DEF BadEdge, Transitions
  <2>4. end(i) \in Nat
    BY <2>1, GateAssumption DEF Row
  <2>5. At[claims[i].proposal.event] < end(i)
    <3> HIDE DEF end
    <3> QED
      BY <2>1, <2>2, <2>4, AcceptedEnd
  <2>6. claims'[i].to = end(i)
    <3>1. PICK old \in Row : old = claims[i]
      BY <2>1
    <3>2. PICK n : n = end(i)
      OBVIOUS
    <3>3. [old EXCEPT !.status = "revoked", !.to = n].to = n
      BY DEF Row
    <3>4. claims'[i] = [old EXCEPT !.status = "revoked", !.to = n]
      BY <1>4, <3>1, <3>2
    <3> QED
      BY <3>2, <3>3, <3>4
  <2>7. Promise!EndsOnce(i)
    BY <2>4, <2>5, <2>6 DEF Promise!EndsOnce, Promise!Start
  <2>8. claims'[i] = [claims[i] EXCEPT !.status = "revoked", !.to = claims'[i].to]
    BY <1>4, <2>6
  <2> QED
    BY <2>3, <2>7, <2>8
<1>6. Promise!Revoke(revoked)
  BY <1>2, <1>4, <1>5 DEF Promise!Revoke, Promise!Retire
<1>7. Spares(Drafted)
  BY <1>2, <1>4 DEF Spares
<1> QED
  BY <1>2, <1>3, <1>6, <1>7 DEF Promise!Next

LEMMA CorrectRetires ==
  ASSUME IInv, NEW i \in DOMAIN claims, NEW rel, NEW end \in Ends \cup {Now},
         Correct(i, rel, end)
  PROVE  Promise!Next /\ Spares(Drafted) /\ UNCHANGED tx
<1>1. PICK status : status = IF rel = "contradicts" THEN "disputed" ELSE "superseded"
  OBVIOUS
<1>2. /\ UNCHANGED <<relations, tx>> /\ i \notin Drafted
      /\ decisions' = decisions \cup {<<i, "revoke">>}
  BY DEF Correct, Intervene
<1>3. CASE UNCHANGED claims
  BY <1>2, <1>3, JudgementIsNext
<1>4. CASE /\ claims[i].to = Open
           /\ Objection(i, claims[i], status, end, decisions) = "none"
           /\ claims' = [claims EXCEPT ![i].status = status, ![i].to = end]
  <2>1. PICK old \in Row : old = claims[i] /\ Sound(old)
    BY DEF IInv, StoreInv, Table
  <2>2. end \in Nat /\ ~ BadInterval(old, end)
    BY <1>4, <2>1, GateAssumption DEF Objection
  <2>3. At[old.proposal.event] < end
    BY <2>1, <2>2, AcceptedEnd
  <2>4. PICK new : new = [old EXCEPT !.status = status, !.to = end]
    OBVIOUS
  <2>5. new.to = end
    BY <2>4 DEF Row
  <2>6. claims' = [claims EXCEPT ![i] = new]
    BY <1>4, <2>1, <2>4
  <2>7. /\ DOMAIN claims' = DOMAIN claims /\ claims'[i] = new
        /\ \A j \in DOMAIN claims \ {i} : claims'[j] = claims[j]
    BY <2>6
  <2>8. Promise!EndsOnce(i)
    BY <1>4, <2>1, <2>2, <2>3, <2>5, <2>7 DEF Promise!EndsOnce, Promise!Start
  <2>9. claims'[i] = [claims[i] EXCEPT !.status = status, !.to = claims'[i].to]
    BY <2>1, <2>4, <2>5, <2>7
  <2>10. decisions' = decisions \cup {<<j, "revoke">> : j \in {i}}
    BY <1>2
  <2>11. Promise!Retire({i}, status)
    BY <1>2, <2>7, <2>8, <2>9, <2>10 DEF Promise!Retire
  <2>12. Promise!Correct(i)
    BY <1>1, <1>4, <2>11 DEF Promise!Correct
  <2>13. Spares(Drafted)
    BY <1>2, <2>7 DEF Spares
  <2> QED
    BY <1>2, <2>12, <2>13 DEF Promise!Next
<1> QED
  BY <1>1, <1>3, <1>4 DEF Correct

LEMMA ActIsNext ==
  ASSUME IInv, Act
  PROVE  Promise!Next /\ Spares(Drafted) /\ UNCHANGED tx
<1>1. ASSUME NEW i \in DOMAIN claims, NEW digestOk \in BOOLEAN, Reverify(i, digestOk)
      PROVE  Promise!Next /\ Spares(Drafted) /\ UNCHANGED tx
  BY <1>1, JudgementIsNext DEF Reverify, Intervene
<1> QED
  BY <1>1, ReviewAdmits, RevokeRetires, CorrectRetires DEF Act

LEMMA AtomStep ==
  ASSUME AtomInv, [Next]_vars
  PROVE  AtomInv' /\ [Promise!Next]_(Promise!vars)
<1>1. IInv'
  BY Inductive DEF AtomInv
<1>2. ASSUME NEW w \in Workers, Ingest(w), ~ CommitTx(w)
      PROVE  AtomInv' /\ [Promise!Next]_(Promise!vars)
  BY <1>1, <1>2, IngestStaysWhole DEF AtomInv, Promise!vars
<1>3. ASSUME NEW w \in Workers, CommitTx(w)
      PROVE  AtomInv' /\ [Promise!Next]_(Promise!vars)
  <2>1. Promise!Next
    BY <1>3, CommitLearns DEF Promise!Next
  <2>2. /\ tx' = [tx EXCEPT ![w] = Idle] /\ tx[w] # Idle
        /\ claims' = Over(tx[w].rows, claims) /\ decisions \subseteq decisions'
    BY <1>3 DEF CommitTx, View
  <2>3. ASSUME NEW v \in Workers \ {w}, tx[v] # Idle
        PROVE  Spares(DOMAIN tx[v].rows)
    <3>1. DOMAIN tx[v].rows \cap DOMAIN tx[w].rows = {}
      BY <2>2, <2>3 DEF AtomInv, IInv, Exclusive
    <3> QED
      BY <2>2, <3>1 DEF Spares, Over
  <2>4. \A v \in Workers : tx'[v] # Idle => Whole(tx[v])'
    BY <2>2, <2>3, OneWhole
  <2> QED
    BY <1>1, <2>1, <2>4 DEF AtomInv
<1>4. CASE Act
  <2>1. Promise!Next /\ Spares(Drafted) /\ UNCHANGED tx
    BY <1>4, ActIsNext DEF AtomInv
  <2>2. ASSUME NEW v \in Workers, tx[v] # Idle
        PROVE  Whole(tx[v])'
    <3>1. PICK d : d = tx[v]
      OBVIOUS
    <3>2. DraftInv(d) /\ Whole(d) /\ DOMAIN d.rows \subseteq Drafted
      BY <2>2, <3>1, DraftedRows DEF AtomInv, IInv
    <3>3. Spares(DOMAIN d.rows)
      BY <2>1, <3>2 DEF Spares
    <3>4. Whole(d)'
      BY <3>2, <3>3, WholeSurvives
    <3> QED
      BY <2>1, <3>1, <3>4
  <2> QED
    BY <1>1, <2>1, <2>2 DEF AtomInv
<1>5. CASE UNCHANGED vars
  <2>1. UNCHANGED <<claims, decisions, relations, tx>>
    BY <1>5 DEF vars, rows
  <2>2. \A t : Whole(t) => Whole(t)'
    BY <2>1 DEF Whole, Entered, Ended, Promise!Accepting, Promise!Doubting
  <2> QED
    BY <1>1, <2>1, <2>2 DEF AtomInv, Promise!vars
<1> QED
  BY <1>2, <1>3, <1>4, <1>5 DEF Next

\* Whatever ingests search and write at the same time, whoever decides, revokes
\* and corrects meanwhile: readers see a store into which each event's claims
\* come at one instant, and close what they replace at the same one.
THEOREM GateImplementsBeliefStore == Spec => ImplementsBeliefStore
<1>1. Init => AtomInv /\ Promise!Init
  BY Initially DEF Init, AtomInv, Promise!Init
<1>2. AtomInv /\ [Next]_vars => AtomInv' /\ [Promise!Next]_(Promise!vars)
  BY AtomStep
<1> QED
  BY <1>1, <1>2, PTL DEF Spec, ImplementsBeliefStore, Promise!Spec

-----------------------------------------------------------------------------
\* The scope catalogue.  The invariant that carries the proof is about the rows
\* an extraction has not committed yet: each was in the closure computed when
\* the context was bound, and the resolution of the scope keeps the purposes
\* within those of the event.

\* A row of the event's own reach, with no purpose the event does not have.
Narrowed(r, e) == Covers(e, r) /\ r.purpose \subseteq e.purpose

DraftsNarrowed ==
  \A c \in Contexts : ctx[c] # NoContext =>
    /\ \A s \in ctx[c].reach : Covers(ctx[c].event, s)
    /\ \A r \in ctx[c].rows : Narrowed(r, ctx[c].event)

\* The closure is what there was to reach when the context was bound.
ReachIsClosure ==
  \A c \in Contexts : ctx[c] # NoContext =>
    \A s \in ctx[c].known : Reaches({ctx[c].event}, ctx[c].event.purpose, s) => s \in ctx[c].reach

AdmittedNarrowed == \A pair \in admitted : Narrowed(pair[1], pair[2])

CatalogIInv == CatalogTypeOK /\ DraftsNarrowed /\ ReachIsClosure /\ AdmittedNarrowed

-----------------------------------------------------------------------------
\* Covering and containment are the same relation on the dimensions.
LEMMA CoversIsContainment ==
  ASSUME NEW e \in Scope, NEW r \in Scope, Narrowed(r, e)
  PROVE  Contained(r, e)
  BY DEF Narrowed, Covers, Contained, Scope, Binding

\* What is contained in the event's scope is reached by it.
LEMMA ContainedIsReached ==
  ASSUME NEW e \in Scope, NEW r \in Scope, Contained(r, e)
  PROVE  Reaches({e}, e.purpose, r)
<1>1. Covers(e, r)
  BY DEF Contained, Covers, Scope, Binding
<1>2. e.purpose \cap r.purpose # {}
  BY DEF Contained, Scope
<1> QED
  BY <1>1, <1>2 DEF Reaches

\* Who covers the event covers what the event covers.
LEMMA CoversIsTransitive ==
  ASSUME NEW s \in Scope, NEW e \in Scope, NEW r \in Scope, Covers(s, e), Covers(e, r)
  PROVE  Covers(s, r)
  BY DEF Covers, Scope, Binding

\* What resolveRequestedScope returns is a row of scopes, within the purposes
\* of the event.
LEMMA ResolutionIsScope ==
  ASSUME NEW e \in Scope, NEW ask \in Ask
  PROVE  /\ ResolveRequested(e, ask) \in Scope
         /\ ResolveRequested(e, ask).purpose \subseteq e.purpose
<1> DEFINE bind == [d \in Dimensions |-> Carry(ask.bind[d], e.bind[d])]
           both == [bind |-> bind, purpose |-> Overlap(ask.purpose, e.purpose)]
<1>1. bind \in Binding
  BY DEF Carry, Ask, Scope, Binding
<1>2. /\ Overlap(ask.purpose, e.purpose) # {}
      /\ Overlap(ask.purpose, e.purpose) \subseteq e.purpose
  BY DEF Overlap, Scope
<1>3. CASE \A d \in Dimensions : bind[d] = Unbound
  BY <1>3 DEF ResolveRequested
<1>4. CASE ~ \A d \in Dimensions : bind[d] = Unbound
  <2>1. ResolveRequested(e, ask) = both
    BY <1>4 DEF ResolveRequested
  <2>2. both \in Scope
    BY <1>1, <1>2, <1>4 DEF Scope
  <2> QED
    BY <2>1, <2>2, <1>2
<1> QED
  BY <1>3, <1>4

-----------------------------------------------------------------------------
LEMMA CatalogInitially == CatalogInit => CatalogIInv
<1> SUFFICES ASSUME CatalogInit
             PROVE  CatalogIInv
  OBVIOUS
<1>1. CatalogTypeOK
  BY CatalogAssumption DEF CatalogInit, CatalogTypeOK
<1>2. DraftsNarrowed /\ ReachIsClosure /\ AdmittedNarrowed
  BY DEF CatalogInit, DraftsNarrowed, ReachIsClosure, AdmittedNarrowed
<1> QED
  BY <1>1, <1>2 DEF CatalogIInv

LEMMA CatalogInductive == CatalogIInv /\ [CatalogNext]_catalogVars => CatalogIInv'
<1> SUFFICES ASSUME CatalogIInv, [CatalogNext]_catalogVars
             PROVE  CatalogIInv'
  OBVIOUS
<1> USE DEF CatalogIInv
<1>1. CASE UNCHANGED catalogVars
  BY <1>1 DEF catalogVars, CatalogTypeOK, DraftsNarrowed, ReachIsClosure, AdmittedNarrowed, Transaction
<1>2. ASSUME NEW s \in Scope, EnsureScope(s)
      PROVE  CatalogIInv'
  BY <1>2 DEF EnsureScope, CatalogTypeOK, DraftsNarrowed, ReachIsClosure, AdmittedNarrowed, Transaction
<1>3. ASSUME NEW c \in Contexts, Bind(c)
      PROVE  CatalogIInv'
  <2>1. PICK e \in catalog :
          ctx' = [ctx EXCEPT ![c] = [event |-> e, reach |-> Closure({e}, e.purpose),
                                     rows |-> {}, known |-> catalog]]
    BY <1>3 DEF Bind
  <2>2. Closure({e}, e.purpose) \subseteq Scope
    BY DEF Closure, CatalogTypeOK
  <2>3. \A s \in Closure({e}, e.purpose) : Covers(e, s)
    BY DEF Closure, Reaches
  <2>4. CatalogTypeOK'
    BY <1>3, <2>1, <2>2 DEF Bind, CatalogTypeOK, Transaction
  <2>5. DraftsNarrowed'
    BY <2>1, <2>3 DEF DraftsNarrowed, CatalogTypeOK
  <2>6. AdmittedNarrowed'
    BY <1>3 DEF Bind, AdmittedNarrowed
  <2>7. ReachIsClosure'
    <3>1. \A s \in catalog : Reaches({e}, e.purpose, s) => s \in Closure({e}, e.purpose)
      BY DEF Closure
    <3> QED
      BY <2>1, <3>1 DEF ReachIsClosure, CatalogTypeOK
  <2> QED
    BY <2>4, <2>5, <2>6, <2>7
<1>4. ASSUME NEW c \in Contexts, Commit(c)
      PROVE  CatalogIInv'
  <2>1. ctx[c] \in Transaction
    BY <1>4 DEF Commit, CatalogTypeOK
  <2>2. CatalogTypeOK'
    BY <1>4, <2>1 DEF Commit, CatalogTypeOK, Transaction
  <2>3. DraftsNarrowed'
    BY <1>4 DEF Commit, DraftsNarrowed, CatalogTypeOK
  <2>4. AdmittedNarrowed'
    BY <1>4, <2>1 DEF Commit, DraftsNarrowed, AdmittedNarrowed, Transaction
  <2>5. ReachIsClosure'
    BY <1>4 DEF Commit, ReachIsClosure, CatalogTypeOK
  <2> QED
    BY <2>2, <2>3, <2>4, <2>5
<1>5. ASSUME NEW c \in Contexts, NEW ask \in Asks, Propose(c, ask)
      PROVE  CatalogIInv'
  <2> DEFINE r == ResolveRequested(ctx[c].event, ask)
  <2>1. ctx[c] \in Transaction /\ ctx[c].event \in Scope /\ ask \in Ask
    BY <1>5, CatalogAssumption DEF Propose, CatalogTypeOK, Transaction
  <2>2. r \in Scope /\ r.purpose \subseteq ctx[c].event.purpose
    BY <2>1, ResolutionIsScope
  <2>3. Narrowed(r, ctx[c].event)
    BY <1>5, <2>2 DEF Propose, Narrowed, DraftsNarrowed
  <2> HIDE DEF r
  <2>4. ctx' = [ctx EXCEPT ![c].rows = @ \cup {r}]
    BY <1>5 DEF Propose, r
  <2>5. CatalogTypeOK'
    BY <1>5, <2>1, <2>2, <2>4 DEF Propose, CatalogTypeOK, Transaction
  <2>a. /\ ctx'[c].event = ctx[c].event
        /\ ctx'[c].reach = ctx[c].reach
        /\ ctx'[c].rows = ctx[c].rows \cup {r}
        /\ ctx'[c].known = ctx[c].known
    BY <2>1, <2>4 DEF CatalogTypeOK, Transaction
  <2>b. \A d \in Contexts \ {c} : ctx'[d] = ctx[d]
    BY <2>4 DEF CatalogTypeOK
  <2>6. DraftsNarrowed'
    BY <1>5, <2>3, <2>a, <2>b DEF Propose, DraftsNarrowed
  <2>7. AdmittedNarrowed'
    BY <1>5 DEF Propose, AdmittedNarrowed
  <2>8. ReachIsClosure'
    BY <1>5, <2>a, <2>b DEF Propose, ReachIsClosure
  <2> QED
    BY <2>5, <2>6, <2>7, <2>8
<1>6. ASSUME NEW c \in Contexts, NEW ask \in Asks, Denied(c, ask)
      PROVE  CatalogIInv'
  BY <1>6 DEF Denied, CatalogTypeOK, DraftsNarrowed, ReachIsClosure, AdmittedNarrowed
<1> QED
  BY <1>1, <1>2, <1>3, <1>4, <1>5, <1>6 DEF CatalogNext

LEMMA CatalogInvariance == CatalogSpec => []CatalogIInv
  BY CatalogInitially, CatalogInductive, PTL DEF CatalogSpec

-----------------------------------------------------------------------------
\* The tables and the request contexts of the scope catalogue hold what they
\* are declared to hold, whatever extractors ask for.
THEOREM CatalogTypeCorrect == CatalogSpec => []CatalogTypeOK
<1>1. CatalogIInv => CatalogTypeOK
  BY DEF CatalogIInv
<1> QED
  BY <1>1, CatalogInvariance, PTL

\* No candidate is written outside the authority of its evidence.
THEOREM AdmissionStaysWithinEvidence == CatalogSpec => []AdmittedWithinEvidence
<1>1. CatalogIInv => AdmittedWithinEvidence
  BY CoversIsContainment DEF CatalogIInv, CatalogTypeOK, AdmittedNarrowed, AdmittedWithinEvidence
<1> QED
  BY <1>1, CatalogInvariance, PTL

\* Who holds a scope that covers the evidence covers the candidate.
THEOREM ReadersReachCandidates == CatalogSpec => []ReadersFollowEvidence
<1>1. CatalogIInv => ReadersFollowEvidence
  BY CoversIsTransitive
  DEF CatalogIInv, CatalogTypeOK, AdmittedNarrowed, Narrowed, ReadersFollowEvidence
<1> QED
  BY <1>1, CatalogInvariance, PTL

\* A narrower scope that existed when the context was bound is granted.
THEOREM NarrowRequestsAreGranted == CatalogSpec => []KnownScopesAreGranted
<1>1. ASSUME CatalogIInv
      PROVE  KnownScopesAreGranted
  <2>1. SUFFICES ASSUME NEW c \in Contexts, ctx[c] # NoContext, NEW ask \in Asks,
                        NEW r \in ctx[c].known, Contained(r, ctx[c].event)
                 PROVE  r \in ctx[c].reach
    BY DEF KnownScopesAreGranted
  <2>2. ctx[c].event \in Scope /\ r \in Scope
    BY <1>1, <2>1 DEF CatalogIInv, CatalogTypeOK, Transaction
  <2>3. Reaches({ctx[c].event}, ctx[c].event.purpose, r)
    BY <2>1, <2>2, ContainedIsReached
  <2> QED
    BY <1>1, <2>1, <2>3 DEF CatalogIInv, ReachIsClosure
<1> QED
  BY <1>1, CatalogInvariance, PTL
=============================================================================
