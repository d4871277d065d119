\* Calls that name another account, and calls through the router.
SPECIFICATION RouterSpec
CONSTANTS
  NumAccounts = 3
  Router = 3
  Funds <- FundsRouter
  Lenders = {1}
  Borrowers = {2}
  Claimers = {}
  Liquidators = {}
  Peers = {2}
  Approvers = {2}
  Amounts = {1, 2}
  Donations = {}
  Approvals = {1}
  Credits = {1}
  Prices = {1}
  TokenScale = 1
  ExpScale = 10
  SecondsPerYear = 1
  FlatRate = 40000
  Models = {"flat"}
  Caps = {}
  Fees = {}
  NumCollectors = 1
  RewardTotal = 0
  RewardDuration = 1
  RewardExpScale = 1
  MaxUint = 3
  MaxTime = 2
  MaxDebt = 2
  RouterFees = {5000}
  FeeRecipients = {2}
  Limits = {0, 2}
  Expiries = {2, 3}
INVARIANTS
  RouterTypeOK
  CashAccounted
  MaxWithdrawHonoured
  RouterKeepsNothing
PROPERTIES
  KeepsLedger
CHECK_DEADLOCK FALSE
