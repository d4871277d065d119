------------------------ MODULE StakedRewardsProofs ------------------------
(***************************************************************************)
(* Theorems about Rewards under a contract with stakes, for any number of  *)
(* stakers, any stakes, any timestamps the owner sets and any word size.   *)
(***************************************************************************)
EXTENDS StakedRewards, RewardsProofs

\* The inductive invariant.  The token's supply fits a word (a part of TypeOK),
\* which makes the counter of paid rewards exact, and an update must not precede
\* the start for the owner's changes of the timestamps to be harmless.
Inv ==
    /\ TypeOK
    /\ now # 0
    /\ PaidFromTotal
    /\ EmissionOK(rewards)

-----------------------------------------------------------------------------
\* The sum of the stakes is an amount.
LEMMA TotalSupplyNat ==
    ASSUME supplyForAccount \in [Account -> Nat]
    PROVE  TotalSupply \in Nat
<1>1. /\ NumAccounts \in Nat /\ 1 \in 1..NumAccounts
      /\ supplyForAccount \in [1..NumAccounts -> Nat]
  BY RewardsAssumption DEF Account
<1>2. supplyForAccount \in [1..NumAccounts -> Int]
  BY <1>1
<1>3. Sum(supplyForAccount, NumAccounts) \in Int
  BY <1>1, <1>2, SumInt
<1>4. supplyForAccount[1] <= Sum(supplyForAccount, NumAccounts)
  BY <1>1, SumAtLeast
<1>5. supplyForAccount[1] \in Nat
  BY <1>1
<1>. QED BY <1>3, <1>4, <1>5 DEF TotalSupply

\* updateReward keeps the emission bound, and does not touch the counters.
LEMMA UpdateKeeps ==
    ASSUME Inv, NEW a \in Account, NEW s \in Nat,
           rewards' = UpdateReward(rewards, TotalSupply, a, s),
           UNCHANGED <<now, token>>, supplyForAccount' \in [Account -> Nat]
    PROVE  Inv'
<1>1. /\ now \in Nat /\ now # 0 /\ RewardsOK(rewards) /\ EmissionOK(rewards)
      /\ TotalSupply \in Nat
  BY TotalSupplyNat DEF Inv, TypeOK, RewardsOK
<1>2. /\ RewardsOK(rewards')
      /\ rewards'.totalRewardsPaid = rewards.totalRewardsPaid
      /\ rewards'.totalRewards = rewards.totalRewards
  BY <1>1, UpdateType
<1>3. EmissionOK(rewards')
  <2>1. CASE InRewardPeriod(rewards)
    <3> DEFINE adv == AdvanceRewards(rewards, TotalSupply)
    <3>1. EmissionOK(adv) /\ adv \in RewardsState
      BY <1>1, <2>1, AdvanceType, AdvanceEmission DEF RewardsOK
    <3>2. rewards' = SettleAccount(adv, a, s)
      BY <2>1 DEF UpdateReward
    <3>. HIDE DEF adv
    <3>3. /\ rewards'.startTimestamp = adv.startTimestamp
          /\ rewards'.lastRewardTimestamp = adv.lastRewardTimestamp
          /\ rewards'.rewardPerSecond = adv.rewardPerSecond
          /\ rewards'.rewardsPerShare = adv.rewardsPerShare
      BY <3>1, <3>2 DEF SettleAccount, RewardsState
    <3>. QED BY <3>1, <3>3 DEF EmissionOK
  <2>2. CASE ~ InRewardPeriod(rewards)
    BY <1>1, <2>2 DEF UpdateReward
  <2>. QED BY <2>1, <2>2
<1>4. PaidFromTotal'
  BY <1>2 DEF Inv, PaidFromTotal, token
<1>5. TypeOK'
  BY <1>1, <1>2 DEF Inv, TypeOK, RewardsOK, token
<1>6. now' # 0
  BY <1>1
<1>. QED BY <1>3, <1>4, <1>5, <1>6 DEF Inv, EmissionOK

\* claimRewards pays what it counts.
LEMMA ClaimKeeps ==
    ASSUME Inv, NEW a \in Account, ClaimRewards(a)
    PROVE  Inv'
<1> DEFINE r == BeforeClaim(rewards, TotalSupply)
           amount == ClaimAmount(r, a)
<1>1. /\ now \in Nat /\ now # 0 /\ RewardsOK(rewards) /\ EmissionOK(rewards)
      /\ TotalSupply \in Nat /\ rewardBalance \in Nat
      /\ rewards.totalRewardsPaid + rewardBalance = tokenSupply
      /\ rewards.totalRewardsPaid <= rewards.totalRewards
      /\ tokenSupply \in Nat /\ tokenSupply <= MaxUint
  BY TotalSupplyNat, RewardsAssumption DEF Inv, TypeOK, RewardsOK, PaidFromTotal
<1>2. /\ RewardsOK(r)
      /\ r.totalRewardsPaid = rewards.totalRewardsPaid
      /\ r.totalRewards = rewards.totalRewards
  BY <1>1, BeforeClaimType
<1>3. EmissionOK(r)
  BY <1>1, AdvanceEmission DEF BeforeClaim
<1>4. /\ rewards' = Claim(r, a) /\ amount <= rewardBalance
      /\ rewardBalance' = rewardBalance - amount
      /\ UNCHANGED <<now, supplyForAccount, tokenSupply, mintAllowance>>
  BY DEF ClaimRewards
<1>. HIDE DEF r
<1>5. RewardsOK(rewards') /\ rewards'.totalRewardsPaid <= rewards'.totalRewards
  BY <1>1, <1>2, <1>4, ClaimType
<1>6. r \in RewardsState /\ r.totalRewardsPaid \in Nat /\ r.totalRewards \in Nat
  BY <1>2 DEF RewardsOK, RewardsState
<1>7. /\ rewards'.startTimestamp = r.startTimestamp
      /\ rewards'.lastRewardTimestamp = r.lastRewardTimestamp
      /\ rewards'.rewardPerSecond = r.rewardPerSecond
      /\ rewards'.rewardsPerShare = r.rewardsPerShare
      /\ rewards'.totalRewards = r.totalRewards
      /\ rewards'.totalRewardsPaid = Wrap(r.totalRewardsPaid + amount)
  BY <1>4, <1>6 DEF Claim, RewardsState
<1>8. amount \in Nat
  BY <1>1, <1>2, ClaimAmountNat
<1>. HIDE DEF amount
<1>9. Wrap(r.totalRewardsPaid + amount) = r.totalRewardsPaid + amount
  <2>1. /\ r.totalRewardsPaid + amount \in Nat
        /\ r.totalRewardsPaid + amount <= MaxUint
    BY <1>1, <1>2, <1>4, <1>6, <1>8, RewardsAssumption
  <2>. QED BY <2>1, RewardsAssumption DEF Wrap
<1>10. PaidFromTotal'
  BY <1>1, <1>2, <1>4, <1>5, <1>6, <1>7, <1>8, <1>9 DEF PaidFromTotal
<1>11. EmissionOK(rewards)'
  BY <1>3, <1>7 DEF EmissionOK
<1>12. TypeOK'
  <2>1. rewardBalance' \in Nat
    BY <1>1, <1>4, <1>8
  <2>. QED BY <1>1, <1>4, <1>5, <2>1 DEF Inv, TypeOK, RewardsOK
<1>13. now' # 0
  BY <1>1, <1>4
<1>. QED BY <1>10, <1>11, <1>12, <1>13 DEF Inv

\* Before the start nothing has been handed out, so the owner may move the two
\* timestamps.
LEMMA TimestampsKeep ==
    ASSUME Inv, NEW t \in Nat, SetStartTimestamp(t) \/ SetEndTimestamp(t)
    PROVE  Inv'
<1>1. /\ now \in Nat /\ now # 0 /\ rewards \in RewardsState /\ EmissionOK(rewards)
      /\ rewards.lastRewardTimestamp <= now
      /\ rewards.totalRewards \in Nat
      /\ rewards.startTimestamp \in Nat /\ rewards.endTimestamp \in Nat
      /\ rewards.lastRewardTimestamp \in Nat
  BY DEF Inv, TypeOK, RewardsState
<1>2. now < rewards.startTimestamp
  BY DEF SetStartTimestamp, SetEndTimestamp
<1>3. rewards.lastRewardTimestamp = 0 /\ rewards.rewardsPerShare = 0
  BY <1>1, <1>2 DEF EmissionOK
<1>4. PICK s \in Nat, e \in Nat, d \in Nat \ {0} :
         rewards' = [rewards EXCEPT !.startTimestamp = s, !.endTimestamp = e,
                                    !.rewardPerSecond = rewards.totalRewards \div d]
  <2>1. CASE SetStartTimestamp(t)
    <3> DEFINE d == Wrap(rewards.endTimestamp - t)
    <3>1. d \in Nat \ {0}
      BY <1>1, <2>1, WrapNat DEF SetStartTimestamp
    <3>2. rewards' = [rewards EXCEPT !.startTimestamp = t,
                                     !.rewardPerSecond = rewards.totalRewards \div d]
      BY <2>1 DEF SetStartTimestamp
    <3>. HIDE DEF d
    <3>3. rewards' = [rewards EXCEPT !.startTimestamp = t,
                                     !.endTimestamp = rewards.endTimestamp,
                                     !.rewardPerSecond = rewards.totalRewards \div d]
      BY <1>1, <3>2 DEF RewardsState
    <3>. QED BY <1>1, <3>1, <3>3
  <2>2. CASE SetEndTimestamp(t)
    <3> DEFINE d == Wrap(t - rewards.startTimestamp)
    <3>1. d \in Nat \ {0}
      BY <1>1, <2>2, WrapNat DEF SetEndTimestamp
    <3>2. rewards' = [rewards EXCEPT !.endTimestamp = t,
                                     !.rewardPerSecond = rewards.totalRewards \div d]
      BY <2>2 DEF SetEndTimestamp
    <3>. HIDE DEF d
    <3>3. rewards' = [rewards EXCEPT !.startTimestamp = rewards.startTimestamp,
                                     !.endTimestamp = t,
                                     !.rewardPerSecond = rewards.totalRewards \div d]
      BY <1>1, <3>2 DEF RewardsState
    <3>. QED BY <1>1, <3>1, <3>3
  <2>. QED BY <2>1, <2>2
<1>5. rewards.totalRewards \div d \in Nat
  BY <1>1, DivBounds
<1>6. /\ rewards' \in RewardsState
      /\ rewards'.lastRewardTimestamp = 0 /\ rewards'.rewardsPerShare = 0
      /\ rewards'.totalRewards = rewards.totalRewards
      /\ rewards'.totalRewardsPaid = rewards.totalRewardsPaid
  BY <1>1, <1>3, <1>4, <1>5 DEF RewardsState
<1>7. UNCHANGED <<now, supplyForAccount, rewardBalance, tokenSupply, mintAllowance>>
  BY DEF SetStartTimestamp, SetEndTimestamp, token
<1>. QED BY <1>1, <1>6, <1>7 DEF Inv, TypeOK, PaidFromTotal, EmissionOK

\* Neither a new allowance nor a mint is a payment.
LEMMA MintKeeps ==
    ASSUME Inv, NEW x \in Nat, SetMintAllowance(x) \/ MintReward(x)
    PROVE  Inv'
<1>1. /\ rewards \in RewardsState /\ rewards.totalRewardsPaid \in Nat
      /\ rewardBalance \in Nat /\ tokenSupply \in Nat /\ mintAllowance \in Nat
      /\ tokenSupply <= MaxUint /\ MaxUint \in Nat
  BY RewardsAssumption DEF Inv, TypeOK, RewardsState
<1>2. UNCHANGED <<now, rewards, supplyForAccount>>
  BY DEF SetMintAllowance, MintReward
<1>3. /\ rewardBalance' \in Nat /\ tokenSupply' \in Nat /\ mintAllowance' \in Nat
      /\ tokenSupply' <= MaxUint
      /\ tokenSupply' - tokenSupply = rewardBalance' - rewardBalance
  BY <1>1 DEF SetMintAllowance, MintReward
<1>4. PaidFromTotal'
  BY <1>1, <1>2, <1>3 DEF Inv, PaidFromTotal
<1>5. TypeOK'
  BY <1>1, <1>2, <1>3 DEF Inv, TypeOK
<1>. QED BY <1>2, <1>4, <1>5 DEF Inv, EmissionOK

\* Every function of the contract, and the passage of time, keeps the invariant.
LEMMA InvNext == Inv /\ [Next]_vars => Inv'
<1>1. SUFFICES ASSUME Inv, [Next]_vars PROVE Inv'
  OBVIOUS
<1>2. ASSUME NEW a \in Account, NEW s \in Stakes, SetAccountSupply(a, s) PROVE Inv'
  <2>1. s \in Nat
    BY StakedRewardsAssumption
  <2>2. supplyForAccount' \in [Account -> Nat]
    BY <1>1, <1>2, <2>1 DEF SetAccountSupply, Inv, TypeOK
  <2>. QED BY <1>1, <1>2, <2>1, <2>2, UpdateKeeps DEF SetAccountSupply
<1>3. ASSUME NEW a \in Account, Update(a) PROVE Inv'
  <2>1. supplyForAccount[a] \in Nat /\ supplyForAccount' \in [Account -> Nat]
    BY <1>1, <1>3 DEF Update, Inv, TypeOK
  <2>. QED BY <1>1, <1>3, <2>1, UpdateKeeps DEF Update
<1>4. ASSUME NEW a \in Account, ClaimRewards(a) PROVE Inv'
  BY <1>1, <1>4, ClaimKeeps
<1>5. ASSUME NEW t \in Starts, SetStartTimestamp(t) PROVE Inv'
  BY <1>1, <1>5, TimestampsKeep, StakedRewardsAssumption
<1>6. ASSUME NEW t \in Ends, SetEndTimestamp(t) PROVE Inv'
  BY <1>1, <1>6, TimestampsKeep, StakedRewardsAssumption
<1>7. CASE Tick
  BY <1>1, <1>7 DEF Tick, token, Inv, TypeOK, PaidFromTotal, EmissionOK, RewardsState
<1>8. CASE UNCHANGED vars
  BY <1>1, <1>8 DEF vars, token, Inv, TypeOK, PaidFromTotal, EmissionOK
<1>9. ASSUME NEW x \in MintAllowances \cup MintAmounts,
             SetMintAllowance(x) \/ MintReward(x)
      PROVE  Inv'
  BY <1>1, <1>9, MintKeeps, StakedRewardsAssumption
<1>. QED BY <1>1, <1>2, <1>3, <1>4, <1>5, <1>6, <1>7, <1>8, <1>9 DEF Next

\* The constructor establishes it.
LEMMA InvInit == Init => Inv
<1>1. SUFFICES ASSUME Init PROVE Inv
  OBVIOUS
<1> DEFINE rate == RewardTotal \div RewardDuration
<1>2. PICK start \in Starts : rewards = NewRewards(start, RewardTotal, RewardDuration)
  BY <1>1 DEF Init
<1>3. /\ start \in Nat /\ RewardDuration \in Nat \ {0}
      /\ RewardTotal \in Nat /\ RewardTotal <= MaxUint /\ MaxUint \in Nat
  BY StakedRewardsAssumption, RewardsAssumption
<1>4. /\ rate \in Nat
      /\ RewardDuration * rate <= RewardTotal
  BY <1>3, DivBounds
<1>. HIDE DEF rate
<1>5. rate * RewardDuration \in Nat /\ rate * RewardDuration <= MaxUint
  <2>1. rate * RewardDuration = RewardDuration * rate /\ rate * RewardDuration \in Nat
    BY <1>3, <1>4, ProductNat, ProductRegroup
  <2>. QED BY <1>3, <1>4, <2>1
<1>6. /\ rewards \in RewardsState
      /\ rewards.lastRewardTimestamp = 0 /\ rewards.rewardsPerShare = 0
      /\ rewards.totalRewardsPaid = 0 /\ rewards.totalRewards = rate * RewardDuration
  BY <1>2, <1>3, <1>4, <1>5 DEF NewRewards, RewardsState, UserInfo, rate
<1>7. /\ now = 1 /\ supplyForAccount = [a \in Account |-> 0]
      /\ rewardBalance = 0 /\ tokenSupply = 0 /\ mintAllowance = 0
  BY <1>1 DEF Init
<1>. QED BY <1>3, <1>5, <1>6, <1>7 DEF Inv, TypeOK, PaidFromTotal, EmissionOK

\* Every word of the rewards contract stays a number and no update is ahead of
\* the current block, for any sequence of stakes, claims and owner calls.
THEOREM StakedTypeCorrect == Spec => []TypeOK
<1>1. Inv => TypeOK
  BY DEF Inv
<1>. QED BY <1>1, InvInit, InvNext, PTL DEF Spec

\* totalRewardsPaid is exactly what claimRewards has transferred, for any number
\* of claimers and any word size.
THEOREM PaidFromTotalCorrect == Spec => []PaidFromTotal
<1>1. Inv => PaidFromTotal
  BY DEF Inv
<1>. QED BY <1>1, InvInit, InvNext, PTL DEF Spec

\* The updateReward modifier hands out no second twice, for any stakes, any
\* precision and any timestamps the owner moves before the start.
THEOREM EachSecondCorrect == Spec => []EachSecondRewardedOnce
<1>1. Inv => EachSecondRewardedOnce
  BY DEF Inv, EmissionOK, EachSecondRewardedOnce
<1>. QED BY <1>1, InvInit, InvNext, PTL DEF Spec
=============================================================================
