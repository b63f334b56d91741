---------------------------- MODULE MCCorpusLoad ----------------------------
EXTENDS CorpusLoad

CONSTANTS c1, c2
=============================================================================
