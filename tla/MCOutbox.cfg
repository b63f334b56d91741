CONSTANTS
  poller = poller
  drainer = drainer
  NoLoop = NoLoop
  Messages = {1, 2}
  Poison = {1}
  Loops = {poller, drainer}
  Drainers = {drainer}
  Serves <- AllServed
  BatchSize = 2
  MaxAttempts = 3
  MaxFaults = 2
SPECIFICATION FairSpec
INVARIANTS AttemptAccounting
PROPERTIES CompletedIsFinal ImplementsDelivery HealthyMessagesComplete PoisonRetires
