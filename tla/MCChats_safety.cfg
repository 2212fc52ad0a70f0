SPECIFICATION Spec
CONSTANTS
  Requests = {q1, q2}
  Users = {u1, u2}
  None = None
  Spellings = {lower, upper}
  AsStored = lower
  MaxChats = 2
  MaxFailures = 1
SYMMETRY Symmetry
INVARIANTS TypeOK OneDirectPerPair DirectHasBothMembers RetryFinds
PROPERTIES OwnerLeavesByHimself OwnerlessIsFrozen
CHECK_DEADLOCK FALSE
