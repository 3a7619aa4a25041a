CONSTANTS
  None = None
  x = x
  y = y
  s1 = s1
  s2 = s2
  e1 = e1
  Ids = {e1, i1}
  Slugs = {s1, s2}
  Texts = {x, y}
  Forms <- TwoForms
  Imported <- MCImported
  Admins = {a1, a2}
  Flows = {"add", "addToEvent", "edit", "delete", "register", "relate"}
  MaxInFlight = 2
SPECIFICATION Spec
CHECK_DEADLOCK FALSE
SYMMETRY Symmetry
INVARIANT TypeOK
INVARIANT AnchoredHistory
INVARIANT PagesShowAnchored
