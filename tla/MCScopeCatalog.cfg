CONSTANTS
  project = project user = user atlas = atlas zeus = zeus read = read act = act
  Dimensions = {project, user}
  Values = {atlas, zeus}
  Purposes = {read, act}
  Unbound = Unbound
  NoContext = NoContext
  Contexts = {c1, c2}
  Initial <- TeamAndMember
  Asks <- SomeAsks
  MaxScopes = 3
SPECIFICATION CatalogSpec
INVARIANTS AdmittedWithinEvidence KnownScopesAreGranted ReadersFollowEvidence
