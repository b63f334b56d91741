CONSTANTS
  c1 = c1 c2 = c2 s1 = s1 s2 = s2 a = a b = b p = p q = q k = k
  NoKey = NoKey
  NoSeq = NoSeq
  NoHash = NoHash
  Clients = {c1, c2}
  Streams = {s1, s2}
  Contents = {a, b}
  Scopes = {p, q}
  Keys = {k}
  Reaches <- Apart
  Requests <- MixedRequests
  MaxRequests = 4
SPECIFICATION FairSpec
INVARIANTS AcknowledgedIsDurable KeyNamesOneEvent LinksReachPredecessors ChainVerdict
PROPERTIES ImplementsEventLog AppendsFinish
CHECK_DEADLOCK FALSE
