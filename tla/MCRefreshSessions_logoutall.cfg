SPECIFICATION Spec
CONSTANTS
  Requests = {q1, q2}
  Users = {u1}
  None = None
  MaxSessions = 2
INVARIANT LogoutAllTerminates
CHECK_DEADLOCK FALSE
