SPECIFICATION Spec
CONSTANTS
  Requests = {q1}
  Users = {u1, u2}
  None = None
  Spellings = {lower}
  AsStored = lower
  MaxChats = 1
  MaxFailures = 1
INVARIANT DirectIsUsable
CHECK_DEADLOCK FALSE
