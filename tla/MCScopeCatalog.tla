--------------------------- MODULE MCScopeCatalog ---------------------------
EXTENDS ScopeCatalog

CONSTANTS project, user, atlas, zeus, read, act

At(p, u, purposes) ==
  [bind |-> [d \in Dimensions |-> IF d = project THEN p ELSE u], purpose |-> purposes]

Team == At(atlas, Unbound, {read, act})
Member == At(atlas, zeus, {read})

\* The project's scope, and the narrower scope of one of its users.
TeamAndMember == {Team, Member}

\* Nothing, the user, another project, a purpose, and a foreign one.
SomeAsks ==
  {At(Unbound, Unbound, {}), At(Unbound, zeus, {}), At(zeus, Unbound, {}),
   At(zeus, zeus, {read}), At(Unbound, Unbound, {read}), At(atlas, zeus, {act})}
=============================================================================
