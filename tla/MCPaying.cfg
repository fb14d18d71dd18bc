SPECIFICATION Spec
CONSTANTS
  ann = ann
  bob = bob
  NoUser = NoUser
  Users <- MCUsers
  Referrer <- MCReferrer
  Nonces = {n1}
  BankAccounts = {acct}
  NoAccount = NoAccount
  Handlers = {h1, h2}
  FundingAmounts = {3}
  WithdrawalAmounts = {1, 2}
  Settings <- MCSettings
  BatchLimit = 1
  BurstThreshold = 2
  BurstWindow = 1
  SharedFlagLimit = 1
  MaxTime = 1
  MaxWithdrawals = 2
INVARIANTS
  TypeOK
  ClearingHoldsActive
  EarningsAccounted
  SettlementMatchesStatus
  OneActive
  BatchMatchesRows
PROPERTIES
  RowsAreFinal
  KeepsPromise
