SPECIFICATION Spec
CONSTANTS
  LastUser = 2
  Connections = {r1, r2, r3}
  MaxFunded = 3
SYMMETRY Symmetry
INVARIANTS
  PostingsCannotDeadlock
