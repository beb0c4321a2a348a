SPECIFICATION FloorSpec
CONSTANTS
  Users = {1, 2, 3}
  Disabled = {}
  Tx = {x1, x2}
  Null = Null
INVARIANTS
  AdminRemains
PROPERTIES
  RefusalIsJust
