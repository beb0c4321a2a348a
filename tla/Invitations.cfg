SPECIFICATION Spec
CONSTANTS
  Desks = {d1}
  Invites = {i1, i2}
  Tx = {x1, x2}
  Roles = {admin, agent}
  StaffOps = {"create", "patch"}
  None = None
INVARIANTS
  OneLiveLink
PROPERTIES
  BurntMeansSeated
  KeepsPromise
