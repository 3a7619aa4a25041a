CONSTANTS
  None = None
  a1 = a1
  a2 = a2
  c1 = c1
  c2 = c2
  c3 = c3
  k1 = k1
  k2 = k2
  t1 = t1
  t2 = t2
  r1 = r1
  r2 = r2
  Accounts = {a1, a2}
  Challenges = {c1, c2, c3}
  Keys = {k1, k2}
  Tokens = {t1, t2}
  Requests = {r1, r2}
  MaxCounter = 1
SPECIFICATION Spec
CHECK_DEADLOCK FALSE
SYMMETRY Symmetry
INVARIANT TypeOK
INVARIANT SpentOnce
INVARIANT GrantsAreEarned
INVARIANT UnclaimedIsUntouched
