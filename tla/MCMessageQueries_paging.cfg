SPECIFICATION QuerySpec
CONSTANTS
  Users = {u1}
  Chats = {1, 2}
  NoChat = NoChat
  None = None
  MaxTx = 3
  Readers = {r1}
  Limits = {1, 2}
INVARIANTS ScrollIsComplete ListIsComplete
CHECK_DEADLOCK FALSE
