------------------------------ MODULE MCLedger ------------------------------
EXTENDS Ledger

CONSTANTS c1, c2, s1, s2, a, b, p, q, k

\* Two projects of a tenant: neither sees the other's events.
Apart == [s \in Scopes |-> {s}]

Ask(s, x, w, i, n) == [stream |-> s, content |-> x, scope |-> w, key |-> i, expected |-> n]

\* A keyed append and its retry, the key on another stream, from another scope
\* and with other content, appends without a key and with an expected_seq.
MixedRequests ==
  {Ask(s1, a, p, k, NoSeq), Ask(s2, a, p, k, NoSeq), Ask(s1, a, q, k, NoSeq),
   Ask(s1, b, p, k, NoSeq), Ask(s1, b, p, NoKey, NoSeq), Ask(s1, a, p, NoKey, 2)}

\* Appends to one stream from both projects.
TwoScopes == {Ask(s1, a, p, NoKey, NoSeq), Ask(s1, a, q, NoKey, NoSeq)}
=============================================================================
