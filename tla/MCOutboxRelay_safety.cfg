SPECIFICATION Spec
CONSTANTS
  Replicas = {r1, r2}
  Chats = {c1}
  NoChat = NoChat
  UseKafka = TRUE
  HasBrokers = TRUE
  Limit = 2
  MaxRows = 3
  MaxPublishErrors = 1
  MaxMarkErrors = 1
  MaxCrashes = 1
SYMMETRY Symmetry
INVARIANTS TypeOK AckedWasEmitted NoOvertaking
PROPERTY ImplementsContract
CHECK_DEADLOCK FALSE
