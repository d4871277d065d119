------------------------------- MODULE Rewards -------------------------------
(***************************************************************************)
(* rewards/Rewards.sol: rewards are emitted per second between two         *)
(* timestamps and shared by the accounts in proportion to a "reward        *)
(* balance" that the inheriting contract defines.                          *)
(*                                                                         *)
(* The contract is abstract: this module holds its state and the           *)
(* operators that compute its next state, and the inheriting modules       *)
(* (MToken, StakedRewards) the actions that apply them.                    *)
(*                                                                         *)
(* The compiler is solc 0.7, whose +, - and * wrap; Wrap says so where the *)
(* operands of the code can get there.                                     *)
(***************************************************************************)
EXTENDS FixedPointMath

CONSTANTS
    NumAccounts,        \* the accounts that use the contract are 1..NumAccounts
    RewardExpScale,     \* precision of rewardsPerShare
    MaxUint             \* type(uint256).max

ASSUME RewardsAssumption ==
    /\ NumAccounts \in Nat \ {0}
    /\ RewardExpScale \in Nat \ {0}
    /\ MaxUint \in Nat \ {0}

VARIABLES
    now,                \* block.timestamp
    rewards             \* the storage of Rewards

Account == 1..NumAccounts

Wrap(x) == x % (MaxUint + 1)

UserInfo == [shares : Nat, rewardDistributed : Nat, owedRewards : Nat]

RewardsState ==
    [startTimestamp : Nat, endTimestamp : Nat, rewardPerSecond : Nat,
     totalRewards : Nat, totalRewardsPaid : Nat, rewardsPerShare : Nat,
     lastRewardTimestamp : Nat, userInfo : [Account -> UserInfo]]

\* The constructor.  totalRewards is recomputed from the rounded rate.
NewRewards(start, total, duration) ==
    [startTimestamp      |-> start,
     endTimestamp        |-> start + duration,
     rewardPerSecond     |-> total \div duration,
     totalRewards        |-> (total \div duration) * duration,
     totalRewardsPaid    |-> 0,
     rewardsPerShare     |-> 0,
     lastRewardTimestamp |-> 0,
     userInfo |-> [a \in Account |->
                      [shares |-> 0, rewardDistributed |-> 0, owedRewards |-> 0]]]

-----------------------------------------------------------------------------
\* rewardsPerShareForTimeDelta; supply is what totalRewardSupply() returns.
RewardsPerShareForTimeDelta(r, timeDelta, supply) ==
    IF supply # 0
    THEN MulDivDown(timeDelta, r.rewardPerSecond * RewardExpScale, supply)
    ELSE timeDelta * r.rewardPerSecond

\* The condition of the updateReward modifier: otherwise the modifier only
\* runs the function it wraps.
InRewardPeriod(r) ==
    now >= r.startTimestamp /\ r.lastRewardTimestamp <= r.endTimestamp

\* The timestamp up to which rewards have been handed out.
RewardedUntil(r) ==
    IF r.lastRewardTimestamp = 0 THEN r.startTimestamp ELSE r.lastRewardTimestamp

\* Mutant of AdvanceRewards: the timestamp stays where it is.
AdvanceRewardsAgain(r, supply) ==
    [r EXCEPT
        !.lastRewardTimestamp = RewardedUntil(r),
        !.rewardsPerShare =
            Wrap(@ + RewardsPerShareForTimeDelta(r, now - RewardedUntil(r), supply))]

\* Mutant of AdvanceRewards: the whole period counts as handed out.
AdvanceRewardsToEnd(r, supply) ==
    [r EXCEPT
        !.lastRewardTimestamp = r.endTimestamp,
        !.rewardsPerShare =
            Wrap(@ + RewardsPerShareForTimeDelta(r, now - RewardedUntil(r), supply))]

\* The part of updateReward before the wrapped function.  The code computes
\* a timestamp bounded by endTimestamp and then uses block.timestamp.
AdvanceRewards(r, supply) ==
    [r EXCEPT
        !.lastRewardTimestamp = now,
        !.rewardsPerShare =
            Wrap(@ + RewardsPerShareForTimeDelta(r, now - RewardedUntil(r), supply))]

\* The part after it: the account's new share count replaces the old one,
\* and what the old shares earned so far becomes owed.
SettleAccount(r, account, shares) ==
    LET user     == r.userInfo[account]
        joined   == user.shares = 0
        reduced  == user.shares > shares
        increased == user.shares # 0 /\ user.shares < shares
        earning  == IF reduced THEN user.shares - shares
                    ELSE IF increased THEN user.shares ELSE 0
    IN  [r EXCEPT !.userInfo[account] =
            [shares            |-> shares,
             rewardDistributed |-> IF joined \/ increased
                                   THEN Wrap(r.rewardsPerShare * shares)
                                   ELSE user.rewardDistributed,
             owedRewards       |-> Wrap(user.owedRewards +
                 (Wrap(r.rewardsPerShare * earning) \div RewardExpScale))]]

\* The updateReward(account) modifier around a function that leaves the
\* account with the given number of reward shares.
UpdateReward(r, supply, account, sharesAfter) ==
    IF InRewardPeriod(r)
    THEN SettleAccount(AdvanceRewards(r, supply), account, sharesAfter)
    ELSE r

\* The value getPendingRewards returns; mulDivDown reverts when the product
\* does not fit, the subtraction wraps.
PendingFits(r, account) ==
    r.userInfo[account].shares * r.rewardsPerShare <= MaxUint

PendingRewards(r, account) ==
    LET user == r.userInfo[account]
    IN  Wrap(MulDivDown(user.shares, r.rewardsPerShare, RewardExpScale)
             - (user.rewardDistributed \div RewardExpScale)
             + user.owedRewards)

\* claimRewards reads the pending rewards through an external call to the
\* contract itself: the modifier settles the contract's own account, which
\* holds no shares, so that all it does is advance the emission.
BeforeClaim(r, supply) == IF InRewardPeriod(r) THEN AdvanceRewards(r, supply) ELSE r

\* The amount claimRewards transfers, capped by what is left of totalRewards.
ClaimAmount(r, account) ==
    LET pending == PendingRewards(r, account)
    IN  IF Wrap(pending + r.totalRewardsPaid) > r.totalRewards
        THEN Wrap(r.totalRewards - r.totalRewardsPaid)
        ELSE pending

\* Mutant of Claim: counts the pending rewards before they are capped.
ClaimCountsPending(r, account) ==
    [r EXCEPT
        !.totalRewardsPaid = Wrap(@ + PendingRewards(r, account)),
        !.userInfo[account].rewardDistributed =
            Wrap(r.userInfo[account].shares * r.rewardsPerShare)]

\* The rest of claimRewards, applied to the state BeforeClaim leaves.  The
\* statement "user.owedRewards == 0" of the code is a comparison: owedRewards
\* stays as it is.
Claim(r, account) ==
    [r EXCEPT
        !.totalRewardsPaid = Wrap(@ + ClaimAmount(r, account)),
        !.userInfo[account].rewardDistributed =
            Wrap(r.userInfo[account].shares * r.rewardsPerShare)]
=============================================================================
