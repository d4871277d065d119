\* The owner, the oracle, the collateral, gifts and rewards beside the loans.
SPECIFICATION Spec
CONSTANTS
  NumAccounts = 2
  Funds <- FundsMarket
  Lenders = {1, 2}
  Borrowers = {2}
  Claimers = {2}
  Liquidators = {1}
  Peers = {}
  Approvers = {}
  Amounts = {2}
  Donations = {2}
  Approvals = {}
  Credits = {0, 2}
  Prices = {1, 2}
  TokenScale = 1
  ExpScale = 10
  SecondsPerYear = 1
  FlatRate = 20000
  Models = {"flat"}
  Caps = {1}
  Fees = {10000}
  NumCollectors = 2
  RewardTotal = 4
  RewardDuration = 1
  RewardExpScale = 1
  MaxUint = 7
  MaxTime = 2
  MaxDebt = 2
INVARIANTS
  CashAccounted
  RewardsWithinTotal
CHECK_DEADLOCK FALSE
