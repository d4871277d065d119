\* Claiming what a former stake has earned.
SPECIFICATION Spec
CONSTANTS
  NumAccounts = 2
  Stakes = {0, 1, 2}
  Starts = {1, 2}
  Ends = {3}
  RewardTotal = 2
  RewardDuration = 2
  RewardExpScale = 2
  MaxUint = 9999
  MaxTime = 4
  MaxOwed = 2
  MintAllowances = {2}
  MintAmounts = {1}
  MaxSupply = 3
PROPERTY ClaimLeavesNothing
CHECK_DEADLOCK FALSE
