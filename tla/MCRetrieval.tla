---------------------------- MODULE MCRetrieval ----------------------------
EXTENDS Retrieval, TLC
CONSTANTS insider, guest, c1, c2, u, home, shared

\* Two claims that may contradict each other, and one that does not exist; the
\* guest reaches c1 by a grant and c2 not at all.
ScopeOfId == [i \in Ids |-> IF i = c1 THEN shared ELSE home]
MemberOf == [a \in Agents |-> IF a = insider THEN {home, shared} ELSE {}]
GrantsOf == {<<a, shared>> : a \in Agents \ {insider}}
RiskOf == [a \in Agents |-> IF a = insider THEN "medium" ELSE "high"]
AuthorityOf == [i \in Ids |-> "verified_record"]
AgeOf == [i \in Ids |-> 1]
HorizonOf == [i \in Ids |-> 30]
CallsOf == [a \in Agents |-> IF a = insider THEN 2 ELSE 1]
NeedsOf == {{c1}, {c1, u}}
=============================================================================
