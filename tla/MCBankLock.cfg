SPECIFICATION Spec
CONSTANTS
  ann = ann
  bob = bob
  NoUser = NoUser
  Users <- MCUsers
  Referrer <- MCReferrer
  Nonces = {n1}
  BankAccounts = {acct1, acct2}
  NoAccount = NoAccount
  Handlers = {h1, h2}
  FundingAmounts = {3}
  WithdrawalAmounts = {1}
  Settings <- MCSettings
  BatchLimit = 1
  BurstThreshold = 2
  BurstWindow = 1
  SharedFlagLimit = 1
  MaxTime = 0
  MaxWithdrawals = 2
PROPERTIES
  BankLockedWhilePaying
