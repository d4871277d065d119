--------------------------- MODULE RewardsProofs ---------------------------
(***************************************************************************)
(* What the updateReward modifier and claimRewards leave in storage,       *)
(* whatever contract inherits from Rewards.                                *)
(***************************************************************************)
EXTENDS Rewards, ArithmeticProofs

\* A wrapped number is a word of storage.
LEMMA WrapNat ==
    ASSUME NEW x \in Int
    PROVE  Wrap(x) \in 0..MaxUint
BY RewardsAssumption DEF Wrap

\* The state of Rewards is well formed and settled at most up to this block.
RewardsOK(r) == r \in RewardsState /\ r.lastRewardTimestamp <= now

\* updateReward before the wrapped function: no time span it multiplies by is
\* negative, although lastRewardTimestamp starts at zero.
LEMMA AdvanceType ==
    ASSUME now \in Nat, NEW r, RewardsOK(r), InRewardPeriod(r), NEW supply \in Nat
    PROVE  /\ RewardsOK(AdvanceRewards(r, supply))
           /\ AdvanceRewards(r, supply).totalRewardsPaid = r.totalRewardsPaid
           /\ AdvanceRewards(r, supply).totalRewards = r.totalRewards
<1> DEFINE t == now - RewardedUntil(r)
           delta == RewardsPerShareForTimeDelta(r, t, supply)
           w == Wrap(r.rewardsPerShare + delta)
<1>1. /\ r.startTimestamp \in Nat /\ r.lastRewardTimestamp \in Nat
      /\ r.rewardPerSecond \in Nat /\ r.rewardsPerShare \in Nat
      /\ r.lastRewardTimestamp <= now /\ now >= r.startTimestamp
  BY DEF RewardsOK, RewardsState, InRewardPeriod
<1>2. t \in Nat
  BY <1>1 DEF RewardedUntil
<1>3. delta \in Nat
  <2>. HIDE DEF t
  <2>1. r.rewardPerSecond * RewardExpScale \in Nat
    BY <1>1, ProductNat, RewardsAssumption
  <2>2. t * r.rewardPerSecond \in Nat
    BY <1>1, <1>2, ProductNat
  <2>3. ASSUME supply # 0
        PROVE  MulDivDown(t, r.rewardPerSecond * RewardExpScale, supply) \in Nat
    BY <1>2, <2>1, <2>3, MulDivDownBounds
  <2>. QED BY <2>2, <2>3 DEF RewardsPerShareForTimeDelta
<1>. HIDE DEF delta
<1>4. w \in Nat
  BY <1>1, <1>3, WrapNat
<1>. HIDE DEF w
<1>5. AdvanceRewards(r, supply) = [r EXCEPT !.lastRewardTimestamp = now,
                                            !.rewardsPerShare = w]
  BY DEF AdvanceRewards, w, delta, t
<1>6. r \in RewardsState
  BY DEF RewardsOK
<1>7. [r EXCEPT !.lastRewardTimestamp = now, !.rewardsPerShare = w] \in RewardsState
  BY <1>4, <1>6 DEF RewardsState
<1>8. /\ AdvanceRewards(r, supply).lastRewardTimestamp = now
      /\ AdvanceRewards(r, supply).totalRewardsPaid = r.totalRewardsPaid
      /\ AdvanceRewards(r, supply).totalRewards = r.totalRewards
  BY <1>5, <1>6 DEF RewardsState
<1>. QED BY <1>5, <1>7, <1>8 DEF RewardsOK

\* updateReward after the wrapped function.
LEMMA SettleType ==
    ASSUME now \in Nat, NEW r, RewardsOK(r), NEW account \in Account, NEW shares \in Nat
    PROVE  /\ RewardsOK(SettleAccount(r, account, shares))
           /\ SettleAccount(r, account, shares).totalRewardsPaid = r.totalRewardsPaid
           /\ SettleAccount(r, account, shares).totalRewards = r.totalRewards
<1> DEFINE user     == r.userInfo[account]
           joined   == user.shares = 0
           reduced  == user.shares > shares
           increased == user.shares # 0 /\ user.shares < shares
           earning  == IF reduced THEN user.shares - shares
                       ELSE IF increased THEN user.shares ELSE 0
           q == Wrap(r.rewardsPerShare * earning) \div RewardExpScale
           d == IF joined \/ increased THEN Wrap(r.rewardsPerShare * shares)
                ELSE user.rewardDistributed
           o == Wrap(user.owedRewards + q)
           info == [shares |-> shares, rewardDistributed |-> d, owedRewards |-> o]
<1>1. /\ user \in UserInfo /\ r.rewardsPerShare \in Nat
  BY DEF RewardsOK, RewardsState
<1>2. user.shares \in Nat /\ user.rewardDistributed \in Nat /\ user.owedRewards \in Nat
  BY <1>1 DEF UserInfo
<1>3. earning \in Nat
  BY <1>2
<1>4. q \in Nat
  <2>. HIDE DEF earning
  <2>1. r.rewardsPerShare * earning \in Nat
    BY <1>1, <1>3, ProductNat
  <2>2. Wrap(r.rewardsPerShare * earning) \in Nat
    BY <2>1, WrapNat
  <2>. QED BY <2>2, DivBounds, RewardsAssumption
<1>5. d \in Nat
  <2>1. r.rewardsPerShare * shares \in Nat
    BY <1>1, ProductNat
  <2>2. Wrap(r.rewardsPerShare * shares) \in Nat
    BY <2>1, WrapNat
  <2>. QED BY <1>2, <2>2
<1>6. o \in Nat
  <2>. HIDE DEF q
  <2>. QED BY <1>2, <1>4, WrapNat
<1>7. info \in UserInfo
  <2>. HIDE DEF d, o
  <2>. QED BY <1>5, <1>6 DEF UserInfo
<1>8. SettleAccount(r, account, shares) = [r EXCEPT !.userInfo[account] = info]
  BY DEF SettleAccount
<1>. HIDE DEF info
<1>. QED BY <1>7, <1>8 DEF RewardsOK, RewardsState

\* The whole modifier.
LEMMA UpdateType ==
    ASSUME now \in Nat, NEW r, RewardsOK(r), NEW supply \in Nat,
           NEW account \in Account, NEW shares \in Nat
    PROVE  /\ RewardsOK(UpdateReward(r, supply, account, shares))
           /\ UpdateReward(r, supply, account, shares).totalRewardsPaid = r.totalRewardsPaid
           /\ UpdateReward(r, supply, account, shares).totalRewards = r.totalRewards
<1>1. CASE InRewardPeriod(r)
  <2> DEFINE adv == AdvanceRewards(r, supply)
  <2>1. /\ RewardsOK(adv)
        /\ adv.totalRewardsPaid = r.totalRewardsPaid
        /\ adv.totalRewards = r.totalRewards
    BY <1>1, AdvanceType
  <2>. HIDE DEF adv
  <2>2. UpdateReward(r, supply, account, shares) = SettleAccount(adv, account, shares)
    BY <1>1 DEF UpdateReward, adv
  <2>. QED BY <2>1, <2>2, SettleType
<1>2. CASE ~ InRewardPeriod(r)
  BY <1>2 DEF UpdateReward
<1>. QED BY <1>1, <1>2

\* The emission a claim advances first.
LEMMA BeforeClaimType ==
    ASSUME now \in Nat, NEW r, RewardsOK(r), NEW supply \in Nat
    PROVE  /\ RewardsOK(BeforeClaim(r, supply))
           /\ BeforeClaim(r, supply).totalRewardsPaid = r.totalRewardsPaid
           /\ BeforeClaim(r, supply).totalRewards = r.totalRewards
BY AdvanceType DEF BeforeClaim

\* The amount claimRewards transfers is an amount, whatever wraps.
LEMMA ClaimAmountNat ==
    ASSUME now \in Nat, NEW r, RewardsOK(r), NEW account \in Account
    PROVE  /\ PendingRewards(r, account) \in Nat
           /\ ClaimAmount(r, account) \in Nat
<1> DEFINE user == r.userInfo[account]
           a == MulDivDown(user.shares, r.rewardsPerShare, RewardExpScale)
           b == user.rewardDistributed \div RewardExpScale
           pending == PendingRewards(r, account)
<1>1. /\ user \in UserInfo /\ r.rewardsPerShare \in Nat
      /\ r.totalRewards \in Nat /\ r.totalRewardsPaid \in Nat
  BY DEF RewardsOK, RewardsState
<1>2. user.shares \in Nat /\ user.rewardDistributed \in Nat /\ user.owedRewards \in Nat
  BY <1>1 DEF UserInfo
<1>3. a \in Nat
  BY <1>1, <1>2, MulDivDownBounds, RewardsAssumption
<1>4. b \in Nat
  BY <1>2, DivBounds, RewardsAssumption
<1>5. pending \in Nat
  <2>1. pending = Wrap(a - b + user.owedRewards)
    BY DEF PendingRewards
  <2>. HIDE DEF a, b, pending
  <2>. QED BY <1>2, <1>3, <1>4, <2>1, WrapNat
<1>. HIDE DEF pending
<1>6. Wrap(r.totalRewards - r.totalRewardsPaid) \in Nat
  BY <1>1, WrapNat
<1>7. ClaimAmount(r, account) \in Nat
  BY <1>5, <1>6 DEF ClaimAmount, pending
<1>. QED BY <1>5, <1>7 DEF pending

\* claimRewards: the cap holds although pending rewards are a wrapped number.
LEMMA ClaimType ==
    ASSUME now \in Nat, NEW r, RewardsOK(r), NEW account \in Account
    PROVE  /\ RewardsOK(Claim(r, account))
           /\ r.totalRewardsPaid <= r.totalRewards =>
                 Claim(r, account).totalRewardsPaid <= Claim(r, account).totalRewards
<1> DEFINE user == r.userInfo[account]
           pending == PendingRewards(r, account)
           amount == ClaimAmount(r, account)
           paid == Wrap(r.totalRewardsPaid + amount)
           d == Wrap(user.shares * r.rewardsPerShare)
<1>1. /\ user \in UserInfo /\ r.rewardsPerShare \in Nat
      /\ r.totalRewards \in Nat /\ r.totalRewardsPaid \in Nat
  BY DEF RewardsOK, RewardsState
<1>2. user.shares \in Nat
  BY <1>1 DEF UserInfo
<1>3. pending \in Nat
  BY ClaimAmountNat
<1>. HIDE DEF pending
<1>4. ASSUME NEW x \in Nat PROVE Wrap(x) \in Nat /\ Wrap(x) <= x
  <2>1. MaxUint + 1 \in Nat \ {0}
    BY RewardsAssumption
  <2>. QED BY <2>1 DEF Wrap
<1>5. /\ amount \in Nat
      /\ r.totalRewardsPaid <= r.totalRewards => paid <= r.totalRewards
  <2>1. amount = IF Wrap(pending + r.totalRewardsPaid) > r.totalRewards
                 THEN Wrap(r.totalRewards - r.totalRewardsPaid)
                 ELSE pending
    BY DEF ClaimAmount, pending
  <2>2. Wrap(r.totalRewards - r.totalRewardsPaid) \in Nat
    BY <1>1, WrapNat
  <2>. HIDE DEF amount
  <2>3. amount \in Nat
    BY <1>3, <2>1, <2>2
  <2>4. ASSUME r.totalRewardsPaid <= r.totalRewards PROVE paid <= r.totalRewards
    <3>1. CASE Wrap(pending + r.totalRewardsPaid) > r.totalRewards
      <4>1. amount <= r.totalRewards - r.totalRewardsPaid
        BY <1>1, <1>4, <2>1, <2>4, <3>1
      <4>2. r.totalRewardsPaid + amount \in Nat /\ r.totalRewardsPaid + amount <= r.totalRewards
        BY <1>1, <2>3, <4>1
      <4>3. paid \in Nat /\ paid <= r.totalRewardsPaid + amount
        BY <1>4, <4>2
      <4>. HIDE DEF paid
      <4>. QED BY <1>1, <2>3, <4>2, <4>3
    <3>2. CASE ~ (Wrap(pending + r.totalRewardsPaid) > r.totalRewards)
      <4>1. amount = pending /\ pending + r.totalRewardsPaid = r.totalRewardsPaid + amount
        BY <1>1, <1>3, <2>1, <3>2
      <4>2. paid \in Nat /\ ~ (paid > r.totalRewards)
        BY <1>1, <1>4, <2>3, <3>2, <4>1
      <4>. HIDE DEF paid
      <4>. QED BY <1>1, <4>2
    <3>. QED BY <3>1, <3>2
  <2>. QED BY <2>3, <2>4
<1>6. paid \in Nat
  <2>. HIDE DEF amount
  <2>. QED BY <1>1, <1>4, <1>5
<1>7. d \in Nat
  <2>1. user.shares * r.rewardsPerShare \in Nat
    BY <1>1, <1>2, ProductNat
  <2>. QED BY <2>1, WrapNat
<1>8. Claim(r, account) = [r EXCEPT !.totalRewardsPaid = paid,
                                     !.userInfo[account].rewardDistributed = d]
  BY DEF Claim
<1>. HIDE DEF paid, d
<1>9. r \in RewardsState /\ r.lastRewardTimestamp <= now
  BY DEF RewardsOK
<1>10. [r EXCEPT !.totalRewardsPaid = paid,
                 !.userInfo[account].rewardDistributed = d] \in RewardsState
  BY <1>6, <1>7, <1>9 DEF RewardsState, UserInfo
<1>11. /\ Claim(r, account).lastRewardTimestamp = r.lastRewardTimestamp
       /\ Claim(r, account).totalRewardsPaid = paid
       /\ Claim(r, account).totalRewards = r.totalRewards
  BY <1>8, <1>9 DEF RewardsState
<1>. QED BY <1>5, <1>8, <1>9, <1>10, <1>11 DEF RewardsOK

-----------------------------------------------------------------------------
\* What one share has earned is at most what the contract emitted from the start
\* to the last update, and no update happened before the start.
EmissionOK(r) ==
    /\ r.lastRewardTimestamp = 0 => r.rewardsPerShare = 0
    /\ r.lastRewardTimestamp # 0 =>
          /\ r.startTimestamp <= r.lastRewardTimestamp
          /\ r.rewardsPerShare <=
                r.rewardPerSecond * RewardExpScale * (r.lastRewardTimestamp - r.startTimestamp)

\* The quotient by the reward supply is at most the emission itself.
LEMMA DeltaBound ==
    ASSUME NEW r \in RewardsState, NEW t \in Nat, NEW supply \in Nat
    PROVE  /\ RewardsPerShareForTimeDelta(r, t, supply) \in Nat
           /\ RewardsPerShareForTimeDelta(r, t, supply)
                <= r.rewardPerSecond * RewardExpScale * t
<1> DEFINE R == r.rewardPerSecond
           e == R * RewardExpScale
<1>1. R \in Nat /\ RewardExpScale \in Nat \ {0}
  BY RewardsAssumption DEF RewardsState
<1>. HIDE DEF R
<1>2. e \in Nat /\ R <= e
  <2>1. R * 1 <= R * RewardExpScale
    BY <1>1, ProductMono
  <2>. QED BY <1>1, <2>1, ProductNat
<1>3. CASE supply = 0
  <2>1. RewardsPerShareForTimeDelta(r, t, supply) = t * R
    BY <1>3 DEF RewardsPerShareForTimeDelta, R
  <2>. HIDE DEF e
  <2>2. t * R <= t * e
    BY <1>1, <1>2, ProductMono
  <2>3. t * e = e * t /\ t * R \in Nat
    BY <1>1, <1>2, ProductNat
  <2>. QED BY <2>1, <2>2, <2>3 DEF e, R
<1>4. CASE supply # 0
  <2> DEFINE q == MulDivDown(t, e, supply)
  <2>1. RewardsPerShareForTimeDelta(r, t, supply) = q
    BY <1>4 DEF RewardsPerShareForTimeDelta, R
  <2>. HIDE DEF e
  <2>2. q \in Nat /\ supply * q <= t * e
    BY <1>2, <1>4, MulDivDownBounds
  <2>. HIDE DEF q
  <2>3. 1 * q <= supply * q
    BY <1>4, <2>2, ProductMono
  <2>4. supply * q \in Int /\ t * e = e * t /\ t * e \in Int
    BY <1>2, <2>2
  <2>5. q <= e * t
    BY <2>2, <2>3, <2>4
  <2>. QED BY <2>1, <2>2, <2>5 DEF e, R
<1>. QED BY <1>3, <1>4

\* updateReward hands out each second once: from the last update to this block.
LEMMA AdvanceEmission ==
    ASSUME now \in Nat, now # 0, NEW r, RewardsOK(r), EmissionOK(r), InRewardPeriod(r),
           NEW supply \in Nat
    PROVE  EmissionOK(AdvanceRewards(r, supply))
<1> DEFINE e == r.rewardPerSecond * RewardExpScale
           t == now - RewardedUntil(r)
           delta == RewardsPerShareForTimeDelta(r, t, supply)
           adv == AdvanceRewards(r, supply)
           start == r.startTimestamp
           last == r.lastRewardTimestamp
<1>1. /\ r \in RewardsState /\ start \in Nat /\ last \in Nat /\ r.rewardsPerShare \in Nat
      /\ r.rewardPerSecond \in Nat /\ last <= now /\ start <= now
  BY DEF RewardsOK, RewardsState, InRewardPeriod
<1>2. e \in Nat
  BY <1>1, ProductNat, RewardsAssumption
<1>3. t \in Nat
  BY <1>1 DEF RewardedUntil
<1>4. delta \in Nat /\ delta <= e * t
  <2>. HIDE DEF t
  <2>. QED BY <1>1, <1>3, DeltaBound
<1>5. r.rewardsPerShare <= e * (now - start) - e * t
  <2>1. CASE last = 0
    <3>1. t = now - start /\ r.rewardsPerShare = 0
      BY <2>1 DEF RewardedUntil, EmissionOK
    <3>2. e * t \in Int
      BY <1>2, <1>3
    <3>. HIDE DEF e, t
    <3>. QED BY <3>1, <3>2
  <2>2. CASE last # 0
    <3>1. t = now - last /\ r.rewardsPerShare <= e * (last - start)
      BY <2>2 DEF RewardedUntil, EmissionOK
    <3>. HIDE DEF e, t
    <3>2. e * (last - start) = e * (now - start) - e * (now - last)
      BY <1>1, <1>2
    <3>. QED BY <3>1, <3>2
  <2>. QED BY <2>1, <2>2
<1>6. /\ adv.lastRewardTimestamp = now /\ adv.startTimestamp = start
      /\ adv.rewardPerSecond = r.rewardPerSecond
      /\ adv.rewardsPerShare = Wrap(r.rewardsPerShare + delta)
  BY <1>1 DEF AdvanceRewards, RewardsState
<1>. HIDE DEF e, t, delta, adv
<1>7. Wrap(r.rewardsPerShare + delta) <= r.rewardsPerShare + delta
  <2>1. r.rewardsPerShare + delta \in Nat /\ MaxUint + 1 \in Nat \ {0}
    BY <1>1, <1>4, RewardsAssumption
  <2>. QED BY <2>1 DEF Wrap
<1>8. Wrap(r.rewardsPerShare + delta) \in Int
  BY <1>1, <1>4, WrapNat
<1>9. e * t \in Int /\ e * (now - start) \in Int
  BY <1>1, <1>2, <1>3
<1>10. Wrap(r.rewardsPerShare + delta) <= e * (now - start)
  BY <1>1, <1>4, <1>5, <1>7, <1>8, <1>9
<1>11. EmissionOK(adv)
  BY <1>1, <1>6, <1>10 DEF EmissionOK, e
<1>. QED BY <1>11 DEF adv
=============================================================================
