CONSTANTS
  None = None
  pair = pair
  c1 = c1
  f1 = f1
  x1 = x1
  x2 = x2
  a1 = a1
  r1 = r1
  r2 = r2
  Creds = {c1}
  Facts = {f1}
  Contents = {x1, x2}
  Reasons = {a1}
  Requests = {r1, r2}
  Pairs = {pair}
  Pair <- MCPair
  MaxLog = 3
  Visitors = {v1}
  MaxBusy = 2
SPECIFICATION PagesSpec
CHECK_DEADLOCK FALSE
SYMMETRY Symmetry
INVARIANT TypeOK
INVARIANT LedgersComeFromChain
INVARIANT ChainHoldsRowContent
INVARIANT IssuedHasCredential
INVARIANT ListsAreHonest
PROPERTY VerificationIsHonest
PROPERTY RevocationsSettle
