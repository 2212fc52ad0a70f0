SPECIFICATION PipelineSpec
CONSTANTS
  Replicas = {r1}
  c1 = c1
  p1 = p1
  Chats = {c1}
  NoChat = NoChat
  Partitions = {p1}
  Balancer <- MCBalancer
  UseKafka = TRUE
  HasBrokers = TRUE
  Limit = 2
  MaxRows = 2
  MaxPublishErrors = 0
  MaxMarkErrors = 0
  MaxCrashes = 0
  MaxReadErrors = 0
  MaxFanoutErrors = 1
INVARIANT NothingLost
CHECK_DEADLOCK FALSE
