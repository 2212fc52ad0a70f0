SPECIFICATION FairPipelineSpec
CONSTANTS
  Replicas = {r1, r2}
  c1 = c1
  p1 = p1
  Chats = {c1}
  NoChat = NoChat
  Partitions = {p1, p2}
  Balancer <- MCBalancer
  UseKafka = TRUE
  HasBrokers = TRUE
  Limit = 2
  MaxRows = 2
  MaxPublishErrors = 0
  MaxMarkErrors = 0
  MaxCrashes = 1
  MaxReadErrors = 1
  MaxFanoutErrors = 1
INVARIANTS HubOrder CaughtUpHubHasAll
PROPERTY ReachesEveryHub
CHECK_DEADLOCK FALSE
