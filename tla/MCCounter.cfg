SPECIFICATION Spec
CONSTANTS
  p1 = p1
  t1 = t1
  Phones = {p1}
  Telegrams = {t1}
  NumbersOf <- MCOneNumber
  Bots = {b1}
  NoOne = NoOne
  Handlers = {h1}
  Capacity = 1
  AccountLife = 1
  SessionLives = {1}
  MaxMismatches = 1
  ChannelsRequired = FALSE
  MaxTime = 2
  MaxUsers = 2
  MaxSessions = 2
INVARIANTS
  CounterIsReal
