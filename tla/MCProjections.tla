--------------------------- MODULE MCProjections ---------------------------
EXTENDS Projections

CONSTANTS c1, p1, p2
=============================================================================
