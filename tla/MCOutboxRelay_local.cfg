SPECIFICATION FairSpec
CONSTANTS
  Replicas = {r1}
  Chats = {c1}
  NoChat = NoChat
  UseKafka = FALSE
  HasBrokers = TRUE
  Limit = 2
  MaxRows = 3
  MaxPublishErrors = 1
  MaxMarkErrors = 1
  MaxCrashes = 1
INVARIANT SingleRelayOrder
PROPERTY EventuallyPublished
CHECK_DEADLOCK FALSE
