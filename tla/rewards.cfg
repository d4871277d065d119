\* Two stakers, a start that can still be moved, and time past the end.
SPECIFICATION Spec
CONSTANTS
  NumAccounts = 2
  Stakes = {0, 1, 2}
  Starts = {1, 2}
  Ends = {3}
  RewardTotal = 2
  RewardDuration = 2
  RewardExpScale = 2
  MaxUint = 9999
  MaxTime = 4
  MaxOwed = 2
  MintAllowances = {2}
  MintAmounts = {1}
  MaxSupply = 3
INVARIANTS
  TypeOK
  PaidFromTotal
  EachSecondRewardedOnce
CHECK_DEADLOCK FALSE
