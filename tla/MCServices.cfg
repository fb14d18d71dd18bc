SPECIFICATION MCSpec
CONSTANTS
  Nobody = Nobody
  Forms <- MCForms
  Calls = {c1, c2}
  MaxAccounts = 3
  MaxPurged = 1
  p = p
  q = q
  w1 = w1
  w2 = w2
  k1 = k1
  k2 = k2
  x1 = x1
  x2 = x2
  x3 = x3
  Friends = {u1, u2, u3}
  Last = u4
  Viewers = {u1}
  Expiring = {u3}
  MaxLevel = 2
  Computes = {s1, s2}
  Callers = {webhook}
  Probe = probe
  FailingAfter = 2
  MaxErrors = 2
  Procs = {proc1, proc2}
  Nonces = {n1, n2}
  Crossings = {m1, m2}
  Verified = {ann, bob}
INVARIANTS
  AllTyped
  OneAccountPerKey
  CaptchaPerAccount
  EachToItsOwner
  GraphIsTrue
  SnapshotNeverAhead
  FailsOnlyByErrors
  PassIsOwn
PROPERTIES
  CallsEnd
  BotRecovers
  GateConverges
CHECK_DEADLOCK FALSE
