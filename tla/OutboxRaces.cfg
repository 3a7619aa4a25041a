CONSTANTS
  issue = issue
  revoke = revoke
  cred = cred
  None = None
  Ops = {issue}
  Subjects = {cred}
  Kind <- MCRegister
  Subject <- MCSubject
  Clients = {c1, c2}
  Workers = {w1}
  Payloads = {p1, p2}
  BatchSize = 2
  MaxAttempts = 1
  FeePayer = FALSE
  MaxInFlight = 2
  MaxCrashes = 1
  MaxSeq = 1
SPECIFICATION FairSpec
CHECK_DEADLOCK FALSE
INVARIANT ConfirmedIsOnChain
INVARIANT NetworkImpliesStored
INVARIANT SequenceUsedOnce
PROPERTY SignedSettles
PROPERTY NeverResubmitsBlind
PROPERTY LifecycleSpec
