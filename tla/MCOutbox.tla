------------------------------ MODULE MCOutbox ------------------------------
EXTENDS Outbox, TLC

CONSTANTS poller, drainer

\* Both loops run in one process, so they claim for the same tenants.
AllServed == [l \in Loops |-> Messages]
=============================================================================
