------------------------------ MODULE MCAgent ------------------------------
EXTENDS Agent, TLC
CONSTANTS propose, batch, add, out1, script, claim, value

KindOf == [r \in Runs |-> CASE r = propose -> "propose"
                            [] r = batch -> "batch" [] r = add -> "keyless add"]
\* The batch and the add write the same value.
WritesOf == [r \in Runs |-> CASE r = propose -> <<script, claim>>
                            [] r = batch -> <<value, out1>> [] r = add -> <<value>>]
=============================================================================
