CONSTANTS
  None = None
  e1 = e1
  op = op
  adm = adm
  x = x
  y = y
  r1 = r1
  Accounts = {op, adm}
  Roles <- MCRoles
  MaxLedger = 2
  Entities = {e1}
  Contents = {x, y}
  Schema <- MCSchema
  Schemas = {1, 2}
  Reasons = {r1}
  MaxVersion = 3
SPECIFICATION Spec
CHECK_DEADLOCK FALSE
SYMMETRY Symmetry
INVARIANT TypeOK
INVARIANT OneEditWins
PROPERTY ImplementsHistory
