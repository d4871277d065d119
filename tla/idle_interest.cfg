\* A loan after a time without loans.
SPECIFICATION Spec
CONSTANTS
  NumAccounts = 2
  Funds <- FundsLending
  Lenders = {1}
  Borrowers = {1, 2}
  Claimers = {}
  Liquidators = {}
  Peers = {}
  Approvers = {}
  Amounts = {1, 2, 3}
  Donations = {}
  Approvals = {}
  Credits = {9}
  Prices = {1}
  TokenScale = 1
  ExpScale = 10
  SecondsPerYear = 1
  FlatRate = 0
  Models = {}
  Caps = {}
  Fees = {}
  NumCollectors = 1
  RewardTotal = 0
  RewardDuration = 1
  RewardExpScale = 1
  MaxUint = 1000
  MaxTime = 3
  MaxDebt = 5
PROPERTY NoIdleInterest
CHECK_DEADLOCK FALSE
