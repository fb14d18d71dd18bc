SPECIFICATION Spec
CONSTANTS
  ann = ann
  phone = phone
  Users = {ann}
  Devices = {phone}
  Owner <- MCOwner
  Calls = {c1, c2}
  AccessTime = 1
  RefreshTime = 2
  MaxTime = 2
  MaxSessions = 4
  MaxLost = 1
SYMMETRY Symmetry
INVARIANTS
  TypeOK
  OneLivePerFamily
  EachTokenOnce
  NoFalseAlarm
  SuspendedNeverRenews
PROPERTIES
  RevokesAllButRacing
CHECK_DEADLOCK FALSE
