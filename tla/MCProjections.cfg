CONSTANTS
  c1 = c1 p1 = p1 p2 = p2
  None = None
  Claims = {c1}
  Projectors = {p1, p2}
  MaxFaults = 2
SPECIFICATION FairSpec
INVARIANTS IndexedWasBelieved
PROPERTIES AcceptedStaysIndexed RebuildClears AnnouncedBecomesIndexed
