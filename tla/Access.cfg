SPECIFICATION Spec
CONSTANTS
  t1 = t1
  t2 = t2
  p1 = p1
  p2 = p2
  p3 = p3
  a1 = a1
  a2 = a2
  r1 = r1
  r2 = r2
  People = {p1, p2, p3}
  Callers = {t1, t2}
  Accounts = {a1, a2}
  Rows = {r1, r2}
  Snapshots <- MCSnapshots
  Pages <- MCPages
  Nobody = Nobody
  NoAccount = NoAccount
  NoRow = NoRow
  Fields <- MCFields
  Households <- MCHouseholds
  MaxNow = 4
  MaxIssued = 4
  MFA_MAX_FAILED = 2
  MFA_LOCKOUT = 1
  STEP_UP_TTL = 1
  SESSION_TTL = 2
  MAX_SESSIONS_PER_USER = 1
  BACKUP_CODE_COUNT = 1
  RATE_WINDOW = 1
  AiPerMinute = 1
CHECK_DEADLOCK FALSE
SYMMETRY MCSymmetry
INVARIANTS
  OwnerLeft
  SessionsFit
  
PROPERTIES
  MovesAreSafe
