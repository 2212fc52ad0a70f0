SPECIFICATION AuthSpec
CONSTANTS
  Requests = {q1, q2}
  Users = {u1, u2}
  None = None
  MaxSessions = 3
  Emails = {e1, e2}
  Nicks = {"ann", "Ann", "bob"}
  Lower <- LowerCase
CONSTRAINT TwoSessionsForTwoAccounts
SYMMETRY Symmetry
INVARIANTS TypeOK OneActivePerLogin LogoutEndsLogin LogoutAllMissesOnlyRotations OneAccountPerEmail NicknameSharedOnlyByRace
CHECK_DEADLOCK FALSE
