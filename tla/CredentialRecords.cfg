CONSTANTS
  None = None
  cA = cA
  cB = cB
  cC = cC
  i1 = i1
  i2 = i2
  op = op
  s1 = s1
  s2 = s2
  h1 = h1
  r1 = r1
  Accounts = {op}
  Roles <- MCRoles
  MaxLedger = 2
  Ids = {cA, cB, cC}
  Issuers = {i1, i2}
  Subjects = {s1, s2}
  Types <- MCTypes
  Hashes = {h1}
  Schemas = {1}
  Reasons = {r1}
  MaxToken = 3
  MaxLinks = 2
SPECIFICATION Spec
CHECK_DEADLOCK FALSE
SYMMETRY Symmetry
INVARIANT TypeOK
INVARIANT AnswersAgree
INVARIANT EventsAreAuthorised
INVARIANT EventsRebuildRecords
PROPERTY ImplementsLedger
