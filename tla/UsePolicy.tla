----------------------------- MODULE UsePolicy -----------------------------
(***************************************************************************)
(* What a claim may be used for: evaluateUse (packages/claims/src/         *)
(* index.ts) and the rules of the action gate (packages/retrieval/src/     *)
(* action-gate.ts) over the tables of packages/contracts/src/policy.ts.    *)
(***************************************************************************)
EXTENDS Naturals

Risks == {"low", "medium", "high"}

Uses == {"deny", "clarify", "verify", "use"}

Statuses == {"proposed", "rejected", "accepted", "disputed", "superseded", "expired", "revoked"}

Authorities == {"verified_record", "observation", "user_self_report", "hearsay", "inference"}

\* What the policy looks at.  "cited" is that there is evidence and every
\* span of it has its digest; "past" that expires_at has gone by.
Facts == [status : Statuses, authority : Authorities, age : Nat, horizon : Nat,
          past : BOOLEAN, cited : BOOLEAN, conflicted : BOOLEAN]

\* The decisions by consequence.
UseOrder(u) == CASE u = "deny" -> 0 [] u = "clarify" -> 1 [] u = "verify" -> 2 [] u = "use" -> 3

Conflicted(f) == f.status = "disputed" \/ f.conflicted

Doubtful(f) == f.authority \in {"inference", "hearsay"} \/ f.age > f.horizon

\* A claim that cannot be cited or believed is denied at any risk; an agent
\* that nobody attends takes a caution for a permission, so at high risk a
\* contradiction or a doubt is a denial as well.
Denied(f, risk) ==
  \/ f.status \notin {"accepted", "disputed"}
  \/ ~f.cited
  \/ f.past
  \/ risk = "high" /\ (Conflicted(f) \/ Doubtful(f))

Use(f, risk) ==
  IF Denied(f, risk) THEN "deny"
  ELSE IF Conflicted(f) THEN "clarify"
  ELSE IF Doubtful(f) \/ (risk = "high" /\ f.authority # "verified_record") THEN "verify"
  ELSE "use"

-----------------------------------------------------------------------------
Permitted(risk) == IF risk = "low" THEN {"use", "verify", "clarify"} ELSE {"use"}

MaxEvidenceAge(risk) == CASE risk = "low" -> 3650 [] risk = "medium" -> 365 [] risk = "high" -> 90

\* The three rules of the gate; a denied use is never permitted.
Blocks(f, risk) ==
  \/ Use(f, risk) \notin Permitted(risk)
  \/ f.age > MaxEvidenceAge(risk)
  \/ Use(f, risk) = "deny"
=============================================================================
