----------------------------- MODULE MCErasure -----------------------------
EXTENDS Erasure, TLC

CONSTANTS e1, e2, j1, j2, b1

\* Two users whose events have the same content.
SharedBlob == [e \in Events |-> b1]

HomeOf(u, a) == [project |-> "p", user |-> u, actor |-> a]

TwoUsers == [e \in Events |-> IF e = e1 THEN HomeOf("u1", "a1") ELSE HomeOf("u2", "a1")]

JobSymmetry == Permutations(Jobs)

\* One user, and one actor who wrote for both.
UserOrActor == {[project |-> All, user |-> "u1", actor |-> All],
                [project |-> All, user |-> All, actor |-> "a1"]}
=============================================================================
