SPECIFICATION Spec
CONSTANTS
  p1 = p1
  p2 = p2
  t1 = t1
  t2 = t2
  Phones = {p1, p2}
  Telegrams = {t1, t2}
  NumbersOf <- MCNumbersOf
  Bots = {b1}
  NoOne = NoOne
  Handlers = {h1, h2}
  Capacity = 1
  AccountLife = 1
  SessionLives = {1}
  MaxMismatches = 1
  ChannelsRequired = TRUE
  MaxTime = 1
  MaxUsers = 2
  MaxSessions = 2
SYMMETRY HandlersAlike
INVARIANTS
  TypeOK
  OneOpenSession
  LinkedByOwnNumber
  PendingOutlivesSession
PROPERTIES
  SessionsEnd
