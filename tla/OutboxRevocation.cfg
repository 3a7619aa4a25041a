CONSTANTS
  issue = issue
  revoke = revoke
  cred = cred
  None = None
  Ops = {issue, revoke}
  Subjects = {cred}
  Kind <- MCKind
  Subject <- MCSubject
  Clients = {c1}
  Workers = {w1}
  Payloads = {p1}
  BatchSize = 1
  MaxAttempts = 1
  FeePayer = TRUE
  MaxInFlight = 2
  MaxCrashes = 0
  MaxSeq = 1
SPECIFICATION Spec
CHECK_DEADLOCK FALSE
INVARIANT TypeOK
PROPERTY OverlapSpec
