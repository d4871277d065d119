\* Two borrowers, one of them a contract, two positions, a pool that moves.
SPECIFICATION Spec
CONSTANTS
  alice = alice
  bob = bob
  pool = pool
  usdc = usdc
  weth = weth
  NoOne = NoOne
  Vault = Vault
  NoOracle = NoOracle
  Account = {alice, bob}
  Contracts = {bob}
  Operators = {bob}
  OracleCoins = {weth}
  NumTokens = 2
  Coins = {usdc, weth}
  PoolCoins <- MCPoolCoins
  Positions <- MCPositions
  InitialHolder <- MCHolder
  MinDeposit = 2
  UsdScale = 1
  Q96 = 8
  Ticks = {9, 11}
  Quotes <- MCQuotes
  Scales = {1}
  ExpScale = 1
  LoanPrice = 1
  TokenScale = 1
  Loans = {1}
  Interests = {1}
  MaxDebt = 3
  InitialShares <- MCShares
  Shares = {1}
INVARIANTS
  TypeOK
  EnumerationExact
  ReceiptsBacked
  HealthyNotSeized
  SolvencyKept
CHECK_DEADLOCK FALSE
