--------------------------- MODULE StakedRewards ---------------------------
(***************************************************************************)
(* Rewards under the simplest contract that inherits from it, the          *)
(* MockRewarder of the test suite: the reward balance of an account is a   *)
(* stake it sets itself, and the reward supply is the sum of the stakes.   *)
(* The reward token is the protocol's MerkleToken, of which the contract   *)
(* gets as much as a minter with an allowance decides to mint.             *)
(***************************************************************************)
EXTENDS Rewards, Sums

CONSTANTS
    Stakes,             \* stakes an account may set
    Starts, Ends,       \* timestamps the owner may set
    RewardTotal, RewardDuration,
    MintAllowances,     \* mint allowances the token's owner grants
    MintAmounts,        \* amounts the minter mints to the contract
    MaxTime,            \* bound of the model on the timestamps
    MaxOwed,            \* bound of the model on owedRewards
    MaxSupply           \* bound of the model on the supply of the token

ASSUME StakedRewardsAssumption ==
    /\ \A x \in Stakes : x \in Nat
    /\ \A x \in Starts : x \in Nat \ {0}
    /\ \A x \in Ends : x \in Nat \ {0}
    /\ RewardTotal \in 0..MaxUint
    /\ RewardDuration \in Nat \ {0}
    /\ \A x \in MintAllowances \cup MintAmounts : x \in Nat
    /\ MaxTime \in Nat
    /\ MaxOwed \in Nat
    /\ MaxSupply \in Nat

VARIABLES
    supplyForAccount,   \* MockRewarder's stakes
    rewardBalance,      \* reward tokens the contract holds
    tokenSupply,        \* totalSupply of the reward token
    mintAllowance       \* mintAllowances of the minter

token == <<rewardBalance, tokenSupply, mintAllowance>>
vars  == <<now, rewards, supplyForAccount, token>>

TotalSupply == Sum(supplyForAccount, NumAccounts)

Init ==
    /\ now = 1
    /\ supplyForAccount = [a \in Account |-> 0]
    /\ \E start \in Starts : rewards = NewRewards(start, RewardTotal, RewardDuration)
    /\ rewardBalance = 0
    /\ tokenSupply = 0
    /\ mintAllowance = 0

\* setAccountSupply
SetAccountSupply(account, supply) ==
    /\ rewards' = UpdateReward(rewards, TotalSupply, account, supply)
    /\ supplyForAccount' = [supplyForAccount EXCEPT ![account] = supply]
    /\ UNCHANGED <<now, token>>

\* update, and getPendingRewards by the same account.
Update(account) ==
    /\ rewards' = UpdateReward(rewards, TotalSupply, account, supplyForAccount[account])
    /\ UNCHANGED <<now, supplyForAccount, token>>

\* claimRewards; the transfer reverts beyond what the contract holds, and with it
\* what was counted before.
ClaimRewards(account) ==
    LET r == BeforeClaim(rewards, TotalSupply)
    IN  /\ PendingFits(r, account)
        /\ ClaimAmount(r, account) <= rewardBalance
        /\ rewards' = Claim(r, account)
        /\ rewardBalance' = rewardBalance - ClaimAmount(r, account)
        /\ UNCHANGED <<now, supplyForAccount, tokenSupply, mintAllowance>>

\* setStartTimestamp and setEndTimestamp: only before the rewards start.  The
\* division by the new duration reverts when that is zero.
SetStartTimestamp(start) ==
    /\ now < rewards.startTimestamp
    /\ Wrap(rewards.endTimestamp - start) # 0
    /\ rewards' = [rewards EXCEPT
                      !.startTimestamp = start,
                      !.rewardPerSecond =
                          rewards.totalRewards \div Wrap(rewards.endTimestamp - start)]
    /\ UNCHANGED <<now, supplyForAccount, token>>

SetEndTimestamp(end) ==
    /\ now < rewards.startTimestamp
    /\ Wrap(end - rewards.startTimestamp) # 0
    /\ rewards' = [rewards EXCEPT
                      !.endTimestamp = end,
                      !.rewardPerSecond =
                          rewards.totalRewards \div Wrap(end - rewards.startTimestamp)]
    /\ UNCHANGED <<now, supplyForAccount, token>>

\* MerkleToken.setMintAllowance and mint, to the contract; the supply of an ERC20
\* fits a word.
SetMintAllowance(amount) ==
    /\ mintAllowance' = amount
    /\ UNCHANGED <<now, rewards, supplyForAccount, rewardBalance, tokenSupply>>

MintReward(amount) ==
    /\ mintAllowance >= amount
    /\ tokenSupply + amount <= MaxUint
    /\ mintAllowance' = mintAllowance - amount
    /\ tokenSupply' = tokenSupply + amount
    /\ rewardBalance' = rewardBalance + amount
    /\ UNCHANGED <<now, rewards, supplyForAccount>>

Tick ==
    /\ now < MaxTime
    /\ now' = now + 1
    /\ UNCHANGED <<rewards, supplyForAccount, token>>

Next ==
    \/ \E a \in Account :
          \/ \E s \in Stakes :
                /\ SetAccountSupply(a, s)
                /\ rewards'.userInfo[a].owedRewards <= MaxOwed
          \/ Update(a)
          \/ ClaimRewards(a)
    \/ \E t \in Starts : SetStartTimestamp(t)
    \/ \E t \in Ends : SetEndTimestamp(t)
    \/ \E x \in MintAllowances : SetMintAllowance(x)
    \/ \E x \in MintAmounts : MintReward(x) /\ tokenSupply' <= MaxSupply
    \/ Tick

Spec == Init /\ [][Next]_vars

-----------------------------------------------------------------------------
(***************************************************************************)
(* Correctness.                                                            *)
(***************************************************************************)

\* Every word of storage holds a natural number, and rewards are never settled
\* past the current block.
TypeOK ==
    /\ now \in Nat
    /\ rewards \in RewardsState
    /\ rewards.lastRewardTimestamp <= now
    /\ supplyForAccount \in [Account -> Nat]
    /\ rewardBalance \in Nat
    /\ tokenSupply \in 0..MaxUint
    /\ mintAllowance \in Nat

\* Whatever the accounts claim, in whatever order, however their stakes change
\* and however late and however much is minted, totalRewardsPaid says what left
\* the contract, and that never exceeds the total rewards.
PaidFromTotal ==
    /\ rewards.totalRewardsPaid + rewardBalance = tokenSupply
    /\ rewards.totalRewardsPaid <= rewards.totalRewards

\* No second is rewarded twice: what one share has earned is at most the whole
\* emission from the start to the last update.  The start cannot be moved once
\* rewards have been handed out.
EachSecondRewardedOnce ==
    /\ rewards.lastRewardTimestamp = 0 => rewards.rewardsPerShare = 0
    /\ rewards.lastRewardTimestamp # 0 =>
          rewards.rewardsPerShare <=
              rewards.rewardPerSecond * RewardExpScale *
                  (rewards.lastRewardTimestamp - rewards.startTimestamp)

-----------------------------------------------------------------------------
(***************************************************************************)
(* What a test promises and the code does not keep.                        *)
(***************************************************************************)

\* The test of claimRewards, "make sure the new pending rewards is 0".
ClaimLeavesNothing ==
    [][\A a \in Account : ClaimRewards(a) => PendingRewards(rewards', a) = 0]_vars
=============================================================================
