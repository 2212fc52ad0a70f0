SPECIFICATION Spec
CONSTANTS
  Requests = {q1, q2}
  Users = {u1}
  Chats = {c1}
  NoChat = NoChat
  Texts = {t1, t2}
  None = None
  MaxTx = 4
SYMMETRY Symmetry
CONSTRAINT FourToReadTwo
INVARIANTS OutboxTellsMessages LastMessageFollowsOutbox CursorFollowsReceipts
PROPERTIES DeletedIsFinal ImplementsContract ImplementsTable
CHECK_DEADLOCK FALSE
