SPECIFICATION MCSpec
CONSTANTS
  ann = ann
  bob = bob
  cid = cid
  NoUser = NoUser
  Users <- MCUsers
  Referrer <- MCReferrer
  Nonces = {n1, n2}
  BankAccounts = {}
  NoAccount = NoAccount
  Handlers = {h1, h2}
  FundingAmounts = {3}
  WithdrawalAmounts = {1}
  Settings <- MCSettings
  BatchLimit = 1
  BurstThreshold = 2
  BurstWindow = 1
  SharedFlagLimit = 1
  MaxTime = 2
  MaxWithdrawals = 0
  LastUser = 2
  Connections = {r1, r2, r3}
  MaxFunded = 3
SYMMETRY Symmetry
INVARIANTS
  LedgerReconciles
  PromisesFunded
  RewardBacked
  DeadlockNeedsBatch
  CommittedMoneyAddsUp
