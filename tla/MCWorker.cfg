SPECIFICATION MCSpec
CONSTANTS
  LastAccount = 2
  Batch = 1
  Workers = {w1, w2}
  Concurrency = 1
  MaxAttempts = 2
  MaxFaults = 2
  MaxEarned = 2
  p1 = p1
  t1 = t1
  Handlers = {h1}
  Bots = {b1}
  NoOne = NoOne
INVARIANTS
  SharedOnlyAfterOverrun
  JobsKeepTrying
PROPERTIES
  DoneStaysDone
  AllUnlocked
  NumberFreed
