\* maxRedeem read before the interest has accrued.
SPECIFICATION Spec
CONSTANTS
  NumAccounts = 2
  Funds <- FundsRedeem
  Lenders = {1}
  Borrowers = {2}
  Claimers = {}
  Liquidators = {}
  Peers = {}
  Approvers = {}
  Amounts = {18, 20}
  Donations = {}
  Approvals = {}
  Credits = {40}
  Prices = {1}
  TokenScale = 1
  ExpScale = 10
  SecondsPerYear = 1
  FlatRate = 0
  Models = {}
  Caps = {}
  Fees = {}
  NumCollectors = 1
  RewardTotal = 0
  RewardDuration = 1
  RewardExpScale = 1
  MaxUint = 1000
  MaxTime = 4
  MaxDebt = 20
INVARIANT MaxRedeemHonoured
CHECK_DEADLOCK FALSE
