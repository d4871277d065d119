\* Withdrawals of shares of another account.
SPECIFICATION Spec
CONSTANTS
  NumAccounts = 2
  Funds <- FundsLending
  Lenders = {1}
  Borrowers = {}
  Claimers = {}
  Liquidators = {}
  Peers = {2}
  Approvers = {2}
  Amounts = {1, 2}
  Donations = {}
  Approvals = {1}
  Credits = {40}
  Prices = {1}
  TokenScale = 1
  ExpScale = 10
  SecondsPerYear = 1
  FlatRate = 0
  Models = {}
  Caps = {}
  Fees = {}
  NumCollectors = 1
  RewardTotal = 0
  RewardDuration = 1
  RewardExpScale = 1
  MaxUint = 7
  MaxTime = 1
  MaxDebt = 20
PROPERTY ApprovedWithdrawals
CHECK_DEADLOCK FALSE
