\* One lender and two borrowers, at a scale where every rounding shows.
SPECIFICATION Spec
CONSTANTS
  NumAccounts = 2
  Funds <- FundsLending
  Lenders = {1}
  Borrowers = {1, 2}
  Claimers = {}
  Liquidators = {}
  Peers = {}
  Approvers = {1}
  Amounts = {1, 2, 3}
  Donations = {}
  Approvals = {1}
  Credits = {9}
  Prices = {1}
  TokenScale = 1
  ExpScale = 2
  SecondsPerYear = 1
  FlatRate = 0
  Models = {}
  Caps = {}
  Fees = {}
  NumCollectors = 1
  RewardTotal = 0
  RewardDuration = 1
  RewardExpScale = 1
  MaxUint = 1000
  MaxTime = 3
  MaxDebt = 4
INVARIANTS
  TypeOK
  LoanSharesSum
  DebtCovered
  RepaySharesPaysFully
PROPERTIES
  SharePriceNeverFalls
  KeepsLedger
  LendersDontMoveDebt
CHECK_DEADLOCK FALSE
