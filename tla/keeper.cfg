\* A keeper, a borrower whose contract may be called back, one position.
SPECIFICATION KeeperSpec
CONSTANTS
  alice = alice
  keeper = keeper
  pool = pool
  usdc = usdc
  weth = weth
  NoOne = NoOne
  Vault = Vault
  NoOracle = NoOracle
  Account = {alice, keeper}
  Contracts = {alice, keeper}
  Operators = {}
  OracleCoins = {weth}
  NumTokens = 1
  Coins = {usdc, weth}
  PoolCoins <- MCPoolCoins
  Positions <- MCPositions
  InitialHolder <- MCHolder
  MinDeposit = 2
  UsdScale = 1
  Q96 = 8
  Ticks = {8, 10}
  Quotes <- MCQuotes
  Scales = {1}
  ExpScale = 1
  LoanPrice = 1
  TokenScale = 1
  Loans = {1}
  Interests = {1}
  MaxDebt = 2
  InitialShares <- MCShares
  Shares = {}
PROPERTY UnhealthyLiquidated
CHECK_DEADLOCK FALSE
