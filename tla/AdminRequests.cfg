CONSTANTS
  l1 = l1
  role = role
  Links = {l1}
  RoleNames = {role}
  Plans <- ListPlan
  Requests = {r1, r2}
  Workers = {w1}
  MaxAttempts = 1
  MaxInFlight = 2
  MaxTx = 2
  MaxCrashes = 1
SPECIFICATION Spec
CHECK_DEADLOCK FALSE
INVARIANTS TypeOK ConfirmedTookEffect TableBehindChain
PROPERTIES RepollsKnownHash
SYMMETRY Symmetry
