----------------------------- MODULE BeliefStore -----------------------------
(***************************************************************************)
(* What the claim store promises whoever reads it, independently of        *)
(* transactions, locks and triggers: everything that extraction makes of   *)
(* an event appears at one instant.  The new claims are open, each with    *)
(* the one decision it owes its status to; an older claim is closed only   *)
(* by a new one that says so in a relation, as it stood at that instant,   *)
(* if a decision had accepted it.  Whoever else closes a claim leaves its  *)
(* content alone and records that it did.                                  *)
(***************************************************************************)
EXTENDS Naturals

CONSTANTS
  Events,
  At,                   \* occurred_at of an event
  Open                  \* the end of a claim that has not ended

VARIABLES
  claims,               \* the claims there are, a function on their ids
  decisions,            \* pairs <<claim, outcome>>
  relations             \* triples <<from, to, kind>>

vars == <<claims, decisions, relations>>

Init == claims = <<>> /\ decisions = {} /\ relations = {}

Accepting == {"accept", "accept_limited_scope"}
Doubting == {"quarantine", "needs_review"}

Start(i) == At[claims[i].proposal.event]

New == DOMAIN claims' \ DOMAIN claims

\* A claim begins with one decision, and is a belief if that accepts it.
Begins(i, author) ==
  /\ claims'[i].by = author /\ claims'[i].to = Open
  /\ \E outcome \in Accepting \cup Doubting :
       /\ {d \in decisions' : d[1] = i} = {<<i, outcome>>}
       /\ claims'[i].status = IF outcome \in Accepting THEN "accepted" ELSE "proposed"

Replaced(i, e) ==
  /\ claims[i].to = Open /\ Start(i) < At[e]
  /\ <<i, "accept">> \in decisions
  /\ claims'[i] = [claims[i] EXCEPT !.status = "superseded", !.to = At[e]]
  /\ \E j \in New, kind \in {"supersedes", "duplicates"} : <<j, i, kind>> \in relations'

\* Nothing is lost, and only new claims speak.
Grows ==
  /\ DOMAIN claims \subseteq DOMAIN claims'
  /\ decisions \subseteq decisions' /\ \A d \in decisions' \ decisions : d[1] \in New
  /\ relations \subseteq relations' /\ \A r \in relations' \ relations : r[1] \in New

Learn(e) ==
  /\ Grows
  /\ \A i \in New : claims'[i].proposal.event = e /\ Begins(i, "gate")
  /\ \A i \in DOMAIN claims : claims'[i] = claims[i] \/ Replaced(i, e)

Admit(i) ==
  /\ Grows
  /\ New = {i} /\ Begins(i, "review")
  /\ \A j \in DOMAIN claims : claims'[j] = claims[j]
  /\ UNCHANGED relations

Judge(i, outcome) ==
  /\ decisions' = decisions \cup {<<i, outcome>>}
  /\ UNCHANGED <<claims, relations>>

\* An end is not before the beginning, and does not move.
EndsOnce(i) ==
  IF claims[i].to = Open THEN claims'[i].to \in Nat /\ Start(i) < claims'[i].to
                         ELSE claims'[i].to = claims[i].to

Retire(retired, status) ==
  /\ DOMAIN claims' = DOMAIN claims
  /\ \A i \in DOMAIN claims \ retired : claims'[i] = claims[i]
  /\ \A i \in retired :
       /\ EndsOnce(i)
       /\ claims'[i] = [claims[i] EXCEPT !.status = status, !.to = claims'[i].to]
  /\ decisions' = decisions \cup {<<i, "revoke">> : i \in retired}
  /\ UNCHANGED relations

Revoke(revoked) ==
  /\ \A i \in revoked : claims[i].status \in {"accepted", "disputed", "superseded"}
  /\ Retire(revoked, "revoked")

Correct(i) ==
  /\ claims[i].to = Open
  /\ Retire({i}, "superseded") \/ Retire({i}, "disputed")

Next ==
  \/ \E e \in Events : Learn(e)
  \/ \E i \in New : Admit(i)
  \/ \E i \in DOMAIN claims, outcome \in {"accept", "needs_review", "revoke"} : Judge(i, outcome)
  \/ \E revoked \in SUBSET DOMAIN claims : Revoke(revoked)
  \/ \E i \in DOMAIN claims : Correct(i)

Spec == Init /\ [][Next]_vars
=============================================================================
