SPECIFICATION Spec
CONSTANTS
  Users = {ann}
  Procs = {proc1, proc2}
  Nonces = {n1}
  Crossings = {m1}
  Nobody = Nobody
INVARIANTS
  NotTrapped
