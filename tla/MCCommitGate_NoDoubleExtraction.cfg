CONSTANTS
  project = project user = user atlas = atlas zeus = zeus read = read
  e1 = e1 e2 = e2 e3 = e3 yes = yes no = no city = city since = since
  Dimensions = {project, user}
  Values = {atlas, zeus}
  Purposes = {read}
  Unbound = Unbound
  Open = Open
  Idle = Idle
  None = None
  w1 = w1 w2 = w2
  Workers = {w1}
  Events = {e1, e2, e3}
  Home <- AllTeam
  At <- Successive
  Proposals <- Values3
  Scalars = {yes, no}
  Interventions = {}
  Ids = {1, 2, 3}
  MaxDeliveries = 3
  MaxActs = 2
  Now = 2
  Ends = {4}
SPECIFICATION Spec
INVARIANT NoDoubleExtraction
CHECK_DEADLOCK FALSE
