---------------------------- MODULE MCCommitGate ----------------------------
EXTENDS CommitGate, TLC

CONSTANTS w1, w2, project, user, atlas, zeus, read, e1, e2, e3, yes, no, city, since

In(u) ==
  [bind |-> [d \in Dimensions |-> IF d = project THEN atlas ELSE u], purpose |-> {read}]

\* Three events of a project, of which the third belongs to one of its users,
\* and the second is said to have occurred after the clock of the server.
TeamThenMember == [e \in Events |-> IF e = e3 THEN In(zeus) ELSE In(Unbound)]
AllTeam == [e \in Events |-> In(Unbound)]
Successive == [e \in Events |-> CASE e = e1 -> 1 [] e = e2 -> 3 [] OTHER -> 2]

Says(e, object, grades) ==
  [event |-> e, object |-> object, requested |-> Home[e], grades |-> grades]

\* The same value twice, and another.
Values3 ==
  {Says(e1, yes, {"strong"}), Says(e2, yes, {"strong"}), Says(e3, no, {"strong"})}

\* A record, the record with a field more, and one that disagrees.
Records3 ==
  {Says(e1, city :> yes, {"strong", "unsupported"}),
   Says(e2, (city :> yes) @@ (since :> no), {"strong", "weak"}),
   Says(e3, city :> no, {"strong"})}

WorkerSymmetry == Permutations(Workers)
=============================================================================
