SPECIFICATION FairSpec
CONSTANTS
  Conns = {k1, k2}
  Users = {u1}
  Tickets = {t1, t2}
  Senders = {s1}
  Hijackable = TRUE
  Buffer = 1
  None = None
  MaxEvents = 2
CONSTRAINT TwoEventsAfterHandshakes
INVARIANTS TypeOK TicketOpensOnce GaugeCountsClients OnlyFullChannelsDrop OnlineIsConnected
PROPERTY ClosedIsForgotten
CHECK_DEADLOCK FALSE
