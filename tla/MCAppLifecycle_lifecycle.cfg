SPECIFICATION FairSpec
CONSTANTS
  Replicas = {r1, r2}
  Last = 5
  Idempotent = {5}
  UseKafka = TRUE
  Hijackable = TRUE
  MaxFaults = 2
INVARIANTS TypeOK MigratedBeforeServing ProducerOutlivesRelay
PROPERTIES EventuallyServes ShutdownEnds
