CONSTANTS
  insider = insider guest = guest c1 = c1 c2 = c2 u = u home = home shared = shared
  Agents = {insider, guest}
  Ids = {c1, c2, u}
  Scopes = {home, shared}
  Unknown = {u}
  ScopeOf <- ScopeOfId
  Member <- MemberOf
  Grants <- GrantsOf
  Risk <- RiskOf
  Authority <- AuthorityOf
  Age <- AgeOf
  Horizon <- HorizonOf
  Needs <- NeedsOf
  MaxConnections = 2
  MaxCalls <- CallsOf
  MaxChanges = 1
  MaxFaults = 1
SPECIFICATION FairSpec
INVARIANTS TypeOK PacketDeniesWhatIsGone ActionsRestOnStandingClaims NoActionAgainstContradiction ActionsAreOnRecord
PROPERTIES EveryRequestIsAnswered
CHECK_DEADLOCK FALSE
