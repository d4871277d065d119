---------------------------- MODULE MTokenProofs ----------------------------
(***************************************************************************)
(* Theorems about MToken, for any number of accounts, any amounts and any  *)
(* length of the run.                                                      *)
(***************************************************************************)
EXTENDS MToken, RewardsProofs

-----------------------------------------------------------------------------
\* BaseInterestModel and its replacement return a rate, never an underflow.
LEMMA RateNat ==
    ASSUME NEW model, NEW cash \in Nat, NEW borrows \in Nat
    PROVE  ModelInterestRate(model, cash, borrows) \in Nat
<1>1. CASE borrows = 0
  BY <1>1, FlatRateAssumption DEF ModelInterestRate, BaseInterestRate
<1>2. CASE borrows # 0
  <2> DEFINE u == Utilization(cash, borrows)
  <2>1. u \in Nat
    <3>1. cash + borrows \in Nat \ {0} /\ Bips \in Nat
      BY <1>2 DEF Bips
    <3>. QED BY <3>1, MulDivUpBounds DEF Utilization
  <2>2. MulDivUp(TargetApy, u, UtilizationTarget) \in Nat
    <3>. HIDE DEF u
    <3>1. TargetApy \in Nat /\ UtilizationTarget \in Nat \ {0}
      BY DEF TargetApy, UtilizationTarget
    <3>. QED BY <2>1, <3>1, MulDivUpBounds
  <2>3. ASSUME u > UtilizationTarget
        PROVE  MulDivUp(MaxApy - TargetApy, u - UtilizationTarget,
                        Bips - UtilizationTarget) \in Nat
    <3>. HIDE DEF u
    <3>1. /\ MaxApy - TargetApy \in Nat
          /\ Bips - UtilizationTarget \in Nat \ {0}
      BY DEF TargetApy, UtilizationTarget, MaxApy, Bips
    <3>2. u - UtilizationTarget \in Nat
      BY <2>1, <2>3 DEF UtilizationTarget
    <3>. QED BY <3>1, <3>2, MulDivUpBounds
  <2>. HIDE DEF u
  <2>4. TargetApy \in Nat
    BY DEF TargetApy
  <2>5. BaseInterestRate(cash, borrows) \in Nat
    BY <1>2, <2>2, <2>3, <2>4 DEF BaseInterestRate, u
  <2>. QED BY <2>5, FlatRateAssumption DEF ModelInterestRate
<1>. QED BY <1>1, <1>2

\* What the settings must be for interest to accrue.
AccrualOK == now \in Nat /\ platformFee \in 0..Bips

\* accrueInterest yields a book, never past the current block, in which neither
\* the debt nor the platform's fee has shrunk.
LEMMA AccrueType ==
    ASSUME AccrualOK, NEW b \in Book, b.lastAccrual <= now, NEW cash \in Nat
    PROVE  /\ AccrueInterest(b, cash) \in Book
           /\ AccrueInterest(b, cash).lastAccrual <= now
           /\ AccrueInterest(b, cash).totalBorrows >= b.totalBorrows
           /\ AccrueInterest(b, cash).collectableFee >= b.collectableFee
           /\ b.totalBorrows = 0 => AccrueInterest(b, cash) = b
<1> DEFINE charged == InterestCharged(b, cash)
           fee == MulDivDown(charged, platformFee, Bips)
<1>0. /\ b.totalBorrows \in Nat /\ b.collectableFee \in Nat /\ b.lastAccrual \in Nat
      /\ now \in Nat /\ platformFee \in Nat /\ Bips \in Nat \ {0}
      /\ now - b.lastAccrual \in Nat
  BY DEF AccrualOK, Book, Bips
<1>1. charged \in Nat
  <2> DEFINE rate == GetInterest(b, cash)
             p == rate * ExpScale
             apy == p \div Bips
             y == b.totalBorrows * apy
             yearInterest == y \div ExpScale
             t == now - b.lastAccrual
             c == yearInterest * t
  <2>1. rate \in Nat
    BY <1>0, RateNat DEF GetInterest
  <2>2. p \in Nat
    <3>. HIDE DEF rate
    <3>. QED BY <2>1, ProductNat, MTokenAssumption
  <2>3. apy \in Nat
    <3>. HIDE DEF p
    <3>. QED BY <2>2, <1>0, DivBounds
  <2>4. y \in Nat
    <3>. HIDE DEF apy
    <3>. QED BY <2>3, <1>0, ProductNat
  <2>5. yearInterest \in Nat
    <3>. HIDE DEF y
    <3>. QED BY <2>4, DivBounds, MTokenAssumption
  <2>6. c \in Nat
    <3>. HIDE DEF yearInterest
    <3>. QED BY <2>5, <1>0, ProductNat
  <2>7. c \div SecondsPerYear \in Nat
    <3>. HIDE DEF c
    <3>. QED BY <2>6, DivBounds, MTokenAssumption
  <2>. QED BY <2>7 DEF InterestCharged
<1>2. fee \in Nat /\ fee <= charged
  <2>. HIDE DEF charged
  <2>1. /\ fee \in Nat /\ Bips * fee <= charged * platformFee
    BY <1>0, <1>1, MulDivDownBounds
  <2>. HIDE DEF fee
  <2>2. charged * platformFee <= charged * Bips
    BY <1>0, <1>1 DEF AccrualOK
  <2>3. Bips * fee <= charged * Bips
    BY <2>1, <2>2, <1>0, <1>1, ProductNat
  <2>. QED BY <2>1, <2>3, <1>1 DEF Bips
<1>. HIDE DEF fee, charged
<1>3. AccrueInterest(b, cash) =
         IF now = b.lastAccrual \/ b.totalBorrows = 0
         THEN b
         ELSE [totalBorrows   |-> b.totalBorrows + (charged - fee),
               collectableFee |-> b.collectableFee + fee,
               lastAccrual    |-> now]
  BY DEF AccrueInterest, charged, fee
<1>4. CASE now = b.lastAccrual \/ b.totalBorrows = 0
  BY <1>0, <1>3, <1>4
<1>5. CASE ~ (now = b.lastAccrual \/ b.totalBorrows = 0)
  BY <1>0, <1>1, <1>2, <1>3, <1>5 DEF Book
<1>. QED BY <1>4, <1>5

-----------------------------------------------------------------------------
(***************************************************************************)
(* What the functions of the vault compute from a well-formed state.       *)
(***************************************************************************)

\* Each conversion of ERC4626 that does not revert returns an amount.
LEMMA ConversionNat ==
    ASSUME NEW x \in Nat, NEW supply \in Nat, NEW total \in Nat
    PROVE  /\ ConvertToAssets(x, supply, total) \in Nat
           /\ PreviewMint(x, supply, total) \in Nat
           /\ Convertible(supply, total) =>
                 /\ ConvertToShares(x, supply, total) \in Nat
                 /\ PreviewWithdraw(x, supply, total) \in Nat
<1>1. CASE supply = 0
  BY <1>1 DEF ConvertToAssets, PreviewMint, ConvertToShares, PreviewWithdraw
<1>2. CASE supply # 0
  <2>1. /\ MulDivDown(x, total, supply) \in Nat
        /\ MulDivUp(x, total, supply) \in Nat
    BY <1>2, MulDivDownBounds, MulDivUpBounds
  <2>2. ASSUME total # 0
        PROVE  /\ MulDivDown(x, supply, total) \in Nat
               /\ MulDivUp(x, supply, total) \in Nat
    BY <2>2, MulDivDownBounds, MulDivUpBounds
  <2>. QED BY <1>2, <2>1, <2>2
           DEF ConvertToAssets, PreviewMint, ConvertToShares, PreviewWithdraw, Convertible
<1>. QED BY <1>1, <1>2

\* getInterestRate, with and without loan shares.
LEMMA InterestRateNat ==
    ASSUME NEW b \in Book, NEW shares \in Nat
    PROVE  GetInterestRate(b, shares) \in Nat
<1>1. b.totalBorrows \in Nat
  BY DEF Book
<1>2. CASE shares = 0
  BY <1>2, MTokenAssumption DEF GetInterestRate
<1>3. CASE shares # 0
  <2>1. MulDivUp(b.totalBorrows, ExpScale, shares) \in Nat
    BY <1>1, <1>3, MulDivUpBounds, MTokenAssumption
  <2>. QED BY <1>3, <2>1 DEF GetInterestRate
<1>. QED BY <1>2, <1>3

\* TypeOK for the words the vault itself keeps, and for those of the world.
LedgerOK ==
    /\ book \in Book
    /\ book.lastAccrual <= now
    /\ cashReserves \in Nat
    /\ totalBorrowShares \in Nat
    /\ borrowed \in [Account -> Nat]
    /\ totalSupply \in Nat
    /\ balanceOf \in [Account -> Nat]
    /\ allowance \in [Account -> [Account -> Nat]]

SettingsOK ==
    /\ maxBorrowable \in Nat
    /\ interestModel \in InterestModels
    /\ feeCollector \in Collector
    /\ platformFee \in 0..Bips

WorldOK ==
    /\ now \in Nat
    /\ vaultBalance \in Nat
    /\ wallet \in [Account -> Nat]
    /\ collected \in [Collector -> Nat]
    /\ price \in Nat
    /\ maxBorrowUsd \in [Account -> Nat]
    /\ liquidating \in LiquidationCall

\* The four parts make up TypeOK.
LEMMA TypeParts ==
    TypeOK <=> LedgerOK /\ SettingsOK /\ WorldOK /\ RewardsOK(rewards)
BY DEF TypeOK, LedgerOK, SettingsOK, WorldOK, RewardsOK

\* The accrued book is well formed and owes no less than the stored one.
LEMMA AccruedOK ==
    ASSUME LedgerOK, SettingsOK, WorldOK
    PROVE  /\ Accrued \in Book
           /\ Accrued.totalBorrows \in Nat
           /\ Accrued.lastAccrual <= now
           /\ Accrued.totalBorrows >= book.totalBorrows
           /\ TotalAssets(Accrued, cashReserves) \in Nat
           /\ GetInterestRate(Accrued, totalBorrowShares) \in Nat
<1>1. /\ AccrualOK
      /\ book \in Book /\ book.lastAccrual <= now
      /\ cashReserves \in Nat /\ totalBorrowShares \in Nat
  BY DEF LedgerOK, SettingsOK, WorldOK, AccrualOK
<1>2. /\ Accrued \in Book
      /\ Accrued.lastAccrual <= now
      /\ Accrued.totalBorrows >= book.totalBorrows
  BY <1>1, AccrueType DEF Accrued
<1>3. Accrued.totalBorrows \in Nat
  BY <1>2 DEF Book
<1>4. TotalAssets(Accrued, cashReserves) \in Nat
  BY <1>1, <1>3 DEF TotalAssets
<1>. QED BY <1>1, <1>2, <1>3, <1>4, InterestRateNat

StateOK == LedgerOK /\ SettingsOK /\ WorldOK

\* What the reward modifier reads from the vault is an amount.
ReadingsOK ==
    /\ TotalRewardSupply \in Nat
    /\ \A a \in Account : RewardBalanceOf(a) \in Nat

\* totalRewardSupply and rewardBalanceOf return amounts in any well-formed state,
LEMMA ReadingsNat == StateOK => ReadingsOK
<1>1. SUFFICES ASSUME LedgerOK, SettingsOK, WorldOK
               PROVE  /\ TotalRewardSupply \in Nat
                      /\ \A a \in Account : RewardBalanceOf(a) \in Nat
  BY DEF StateOK, ReadingsOK
<1>2. /\ cashReserves \in Nat /\ totalSupply \in Nat
      /\ borrowed \in [Account -> Nat] /\ balanceOf \in [Account -> Nat]
  BY <1>1 DEF LedgerOK
<1>3. TotalRewardSupply \in Nat
  BY <1>1, <1>2, AccruedOK DEF TotalRewardSupply
<1>4. ASSUME NEW a \in Account PROVE RewardBalanceOf(a) \in Nat
  <2>1. GetBorrowBalance(a) \in Nat
    BY <1>1, <1>2, AccruedOK, MulDivUpBounds, MTokenAssumption DEF GetBorrowBalance
  <2>2. ConvertToAssets(balanceOf[a], totalSupply, TotalAssets(Accrued, cashReserves)) \in Nat
    BY <1>1, <1>2, AccruedOK, ConversionNat
  <2>. QED BY <2>1, <2>2 DEF RewardBalanceOf
<1>. QED BY <1>3, <1>4

\* and so they do in the state a function leaves.
LEMMA ReadingsNatNext == StateOK' => ReadingsOK'
BY ReadingsNat, PTL

-----------------------------------------------------------------------------
(***************************************************************************)
(* What the four functions of lenders come down to, whether the caller or  *)
(* a contract in front of the vault pays and is paid.                      *)
(***************************************************************************)
VaultTakes(assets) ==
    /\ vaultBalance' = vaultBalance + assets
    /\ wallet' \in [Account -> Nat]
    /\ UNCHANGED collected

VaultPays(assets) ==
    /\ vaultBalance >= assets
    /\ vaultBalance' = vaultBalance - assets
    /\ wallet' \in [Account -> Nat]
    /\ UNCHANGED collected

TakeDeposit(sender, receiver, assets, shares) ==
    VaultTakes(assets) /\ CreditDeposit(sender, receiver, assets, shares)

PayWithdrawal(sender, owner, assets, shares) ==
    VaultPays(assets) /\ DebitWithdrawal(sender, owner, assets, shares)

\* The account whose shares change is the receiver or the owner.
LendingMove(sender, account, assets, shares) ==
    \/ TakeDeposit(sender, account, assets, shares)
    \/ PayWithdrawal(sender, account, assets, shares)

-----------------------------------------------------------------------------
(***************************************************************************)
(* Type correctness, one lemma per action.                                 *)
(***************************************************************************)

\* The hooks of deposits and withdrawals, and getPendingRewards, settle the
\* caller and leave the counters of paid rewards alone.
LEMMA HookType ==
    ASSUME TypeOK, NEW a \in Account, HookReward(a), UNCHANGED now
    PROVE  /\ RewardsOK(rewards)'
           /\ rewards'.totalRewardsPaid = rewards.totalRewardsPaid
           /\ rewards'.totalRewards = rewards.totalRewards
<1>1. RewardsOK(rewards) /\ now \in Nat /\ ReadingsOK
  BY TypeParts, ReadingsNat DEF WorldOK, StateOK
<1>2. TotalRewardSupply \in Nat /\ RewardBalanceOf(a) \in Nat
  BY <1>1 DEF ReadingsOK
<1>3. rewards' = UpdateReward(rewards, TotalRewardSupply, a, RewardBalanceOf(a))
  BY DEF HookReward
<1>4. RewardsOK(rewards')
  BY <1>1, <1>2, <1>3, UpdateType
<1>5. RewardsOK(rewards)'
  BY <1>4 DEF RewardsOK
<1>. QED BY <1>1, <1>2, <1>3, <1>5, UpdateType

\* The modifier around borrow, repay and repayShares does the same, on the
\* balances these functions leave.
LEMMA WrapType ==
    ASSUME TypeOK, NEW a \in Account, WrapReward(a), UNCHANGED now, StateOK'
    PROVE  /\ RewardsOK(rewards)'
           /\ rewards'.totalRewardsPaid = rewards.totalRewardsPaid
           /\ rewards'.totalRewards = rewards.totalRewards
<1>1. RewardsOK(rewards) /\ now \in Nat /\ ReadingsOK /\ ReadingsOK'
  BY TypeParts, ReadingsNat, ReadingsNatNext DEF WorldOK, StateOK
<1>2. TotalRewardSupply \in Nat /\ RewardBalanceOf(a)' \in Nat
  BY <1>1 DEF ReadingsOK
<1>3. rewards' = UpdateReward(rewards, TotalRewardSupply, a, RewardBalanceOf(a)')
  BY DEF WrapReward
<1>4. RewardsOK(rewards')
  BY <1>1, <1>2, <1>3, UpdateType
<1>5. RewardsOK(rewards)'
  BY <1>4 DEF RewardsOK
<1>. QED BY <1>1, <1>2, <1>3, <1>5, UpdateType

\* The parts make up TypeOK after a step as well.
LEMMA TypePartsNext ==
    StateOK' /\ RewardsOK(rewards)' => TypeOK'
BY DEF TypeOK, LedgerOK, SettingsOK, WorldOK, RewardsOK, StateOK

\* deposit and mint keep every word of storage well formed.
LEMMA TakeDepositType ==
    ASSUME TypeOK, NEW a \in Account, NEW b \in Account,
           NEW assets \in Nat, NEW shares \in Nat, TakeDeposit(a, b, assets, shares)
    PROVE  TypeOK'
<1>1. LedgerOK /\ SettingsOK /\ WorldOK
  BY TypeParts
<1>2. UNCHANGED <<loans, allowance, settings, world>>
  BY DEF TakeDeposit, CreditDeposit
<1>3. LedgerOK'
  <2>1. book' \in Book /\ book'.lastAccrual <= now'
    BY <1>1, <1>2, AccruedOK DEF TakeDeposit, CreditDeposit, world
  <2>2. balanceOf' \in [Account -> Nat] /\ totalSupply' \in Nat /\ cashReserves' \in Nat
    BY <1>1 DEF TakeDeposit, CreditDeposit, MintShares, LedgerOK
  <2>. QED BY <1>1, <1>2, <2>1, <2>2 DEF LedgerOK, loans
<1>4. SettingsOK'
  BY <1>1, <1>2 DEF SettingsOK, settings
<1>5. WorldOK'
  <2>1. vaultBalance' \in Nat /\ wallet' \in [Account -> Nat] /\ UNCHANGED collected
    BY <1>1 DEF TakeDeposit, VaultTakes, WorldOK
  <2>. QED BY <1>1, <1>2, <2>1 DEF WorldOK, world
<1>6. RewardsOK(rewards)'
  BY <1>2, HookType DEF TakeDeposit, CreditDeposit, world
<1>. QED BY <1>3, <1>4, <1>5, <1>6, TypePartsNext DEF StateOK

\* withdraw and redeem do: the checks on the balance, the supply and the reserves
\* come before the subtractions, and only the allowance wraps.
LEMMA PayWithdrawalType ==
    ASSUME TypeOK, NEW a \in Account, NEW o \in Account,
           NEW assets \in Nat, NEW shares \in Nat, PayWithdrawal(a, o, assets, shares)
    PROVE  TypeOK'
<1>1. LedgerOK /\ SettingsOK /\ WorldOK
  BY TypeParts
<1>2. UNCHANGED <<loans, settings, world>>
  BY DEF PayWithdrawal, DebitWithdrawal
<1>3. LedgerOK'
  <2>1. book' \in Book /\ book'.lastAccrual <= now'
    BY <1>1, <1>2, AccruedOK DEF PayWithdrawal, DebitWithdrawal, world
  <2>2. balanceOf' \in [Account -> Nat] /\ totalSupply' \in Nat
    BY <1>1 DEF PayWithdrawal, DebitWithdrawal, BurnShares, LedgerOK
  <2>3. cashReserves' \in Nat
    BY <1>1 DEF PayWithdrawal, DebitWithdrawal, LedgerOK
  <2>4. allowance' \in [Account -> [Account -> Nat]]
    <3>1. allowance \in [Account -> [Account -> Nat]]
      BY <1>1 DEF LedgerOK
    <3>2. allowance[o][a] - shares \in Int
      BY <3>1
    <3>3. Wrap(allowance[o][a] - shares) \in Nat
      BY <3>2, WrapNat
    <3>. QED BY <3>1, <3>3 DEF PayWithdrawal, DebitWithdrawal, SpendAllowance
  <2>. QED BY <1>1, <1>2, <2>1, <2>2, <2>3, <2>4 DEF LedgerOK, loans
<1>4. SettingsOK'
  BY <1>1, <1>2 DEF SettingsOK, settings
<1>5. WorldOK'
  <2>1. vaultBalance' \in Nat /\ wallet' \in [Account -> Nat] /\ UNCHANGED collected
    BY <1>1 DEF PayWithdrawal, VaultPays, WorldOK
  <2>. QED BY <1>1, <1>2, <2>1 DEF WorldOK, world
<1>6. RewardsOK(rewards)'
  BY <1>2, HookType DEF PayWithdrawal, DebitWithdrawal, world
<1>. QED BY <1>3, <1>4, <1>5, <1>6, TypePartsNext DEF StateOK

\* repay and repayShares do: neither the debt nor the loan shares underflow.
LEMMA SettleLoanType ==
    ASSUME TypeOK, NEW a \in Account, NEW b \in Account,
           NEW assets \in Nat, NEW shares \in Nat, SettleLoan(a, b, assets, shares)
    PROVE  TypeOK'
<1>1. LedgerOK /\ SettingsOK /\ WorldOK
  BY TypeParts
<1>2. UNCHANGED <<shareVars, settings, world>>
  BY DEF SettleLoan
<1>3. LedgerOK'
  <2>1. book' \in Book /\ book'.lastAccrual <= now'
    <3>1. Accrued \in Book /\ Accrued.lastAccrual <= now /\ Accrued.totalBorrows >= assets
      BY <1>1, AccruedOK DEF SettleLoan
    <3>2. book' = [Accrued EXCEPT !.totalBorrows = @ - assets]
      BY DEF SettleLoan
    <3>. QED BY <1>2, <3>1, <3>2 DEF Book, world
  <2>2. /\ borrowed' \in [Account -> Nat] /\ totalBorrowShares' \in Nat
        /\ cashReserves' \in Nat
    BY <1>1 DEF SettleLoan, LedgerOK
  <2>. QED BY <1>1, <1>2, <2>1, <2>2 DEF LedgerOK, shareVars
<1>4. SettingsOK'
  BY <1>1, <1>2 DEF SettingsOK, settings
<1>5. WorldOK'
  <2>1. vaultBalance' \in Nat /\ wallet' \in [Account -> Nat] /\ UNCHANGED collected
    BY <1>1 DEF SettleLoan, PayIn, WorldOK
  <2>. QED BY <1>1, <1>2, <2>1 DEF WorldOK, world
<1>6. RewardsOK(rewards)'
  BY <1>2, <1>3, <1>4, <1>5, WrapType DEF SettleLoan, world, StateOK
<1>. QED BY <1>3, <1>4, <1>5, <1>6, TypePartsNext DEF StateOK

\* borrow does, although it accrues interest again after the loan.
LEMMA BorrowType ==
    ASSUME TypeOK, NEW a \in Account, NEW b \in Account, NEW amount \in Nat,
           Borrow(a, b, amount)
    PROVE  TypeOK'
<1> DEFINE rate   == GetInterestRate(Accrued, totalBorrowShares)
           shares == (amount * ExpScale) \div rate
           lent   == [Accrued EXCEPT !.totalBorrows = @ + amount]
<1>1. LedgerOK /\ SettingsOK /\ WorldOK
  BY TypeParts
<1>2. UNCHANGED <<shareVars, settings, world>>
  BY DEF Borrow
<1>3. shares \in Nat
  <2>1. rate \in Nat /\ rate # 0
    BY <1>1, AccruedOK DEF Borrow
  <2>2. amount * ExpScale \in Nat
    BY ProductNat, MTokenAssumption
  <2>. HIDE DEF rate
  <2>. QED BY <2>1, <2>2, DivBounds
<1>4. LedgerOK'
  <2>1. cashReserves' = cashReserves - amount /\ cashReserves' \in Nat
    BY <1>1 DEF Borrow, LedgerOK
  <2>2. book' \in Book /\ book'.lastAccrual <= now'
    <3>1. Accrued \in Book /\ Accrued.lastAccrual <= now
      BY <1>1, AccruedOK
    <3>2. lent \in Book /\ lent.lastAccrual <= now
      BY <3>1 DEF Book
    <3>3. book' = AccrueInterest(lent, cashReserves - amount)
      BY DEF Borrow
    <3>. HIDE DEF lent
    <3>4. AccrualOK
      BY <1>1 DEF SettingsOK, WorldOK, AccrualOK
    <3>. QED BY <1>2, <2>1, <3>2, <3>3, <3>4, AccrueType DEF world
  <2>3. borrowed' \in [Account -> Nat] /\ totalBorrowShares' \in Nat
    <3>1. /\ borrowed' = [borrowed EXCEPT ![a] = @ + shares]
          /\ totalBorrowShares' = totalBorrowShares + shares
      BY DEF Borrow
    <3>. HIDE DEF shares
    <3>. QED BY <1>1, <1>3, <3>1 DEF LedgerOK
  <2>. QED BY <1>1, <1>2, <2>1, <2>2, <2>3 DEF LedgerOK, shareVars
<1>5. SettingsOK'
  BY <1>1, <1>2 DEF SettingsOK, settings
<1>6. WorldOK'
  <2>1. vaultBalance' \in Nat /\ wallet' \in [Account -> Nat] /\ UNCHANGED collected
    BY <1>1 DEF Borrow, PayOut, WorldOK
  <2>. QED BY <1>1, <1>2, <2>1 DEF WorldOK, world
<1>7. RewardsOK(rewards)'
  BY <1>2, <1>4, <1>5, <1>6, WrapType DEF Borrow, world, StateOK
<1>. QED BY <1>4, <1>5, <1>6, <1>7, TypePartsNext DEF StateOK

-----------------------------------------------------------------------------
(***************************************************************************)
(* The steps of Next with the sets their arguments are taken from widened: *)
(* any account, any amount, any setting.                                   *)
(***************************************************************************)
LendingAction(a, b, o, x) ==
    \/ Deposit(a, b, x)
    \/ Mint(a, b, x)
    \/ Withdraw(a, b, o, x)
    \/ Redeem(a, b, o, x)

ShareAction(a, b, o, x) ==
    \/ Transfer(a, b, x)
    \/ TransferFrom(a, o, b, x)
    \/ Approve(a, b, x)

LoanAction(a, b, x) ==
    \/ Borrow(a, b, x)
    \/ Repay(a, b, x)
    \/ RepayShares(a, b, x)

RewardAction(a, b) == ClaimRewards(a) \/ GetPendingRewards(a, b)

\* liquidate of the controller and of the market.
LiquidationAction ==
    \/ \E s, a \in Account : LiquidateBegin(s, a)
    \/ \E x \in Nat : Liquidate(x)
    \/ LiquidateEnd

SettingAction ==
    \/ \E m \in InterestModels : SetInterestModel(m)
    \/ \E c \in Collector : SetFeeCollector(c)
    \/ \E x \in Nat : SetMaxBorrow(x)
    \/ \E x \in 0..Bips : SetPlatformFee(x)

WorldAction ==
    \/ Tick
    \/ \E x \in Nat : Quote(x)
    \/ \E a \in Account, x \in Nat : ChangeCollateral(a, x)

\* Every step is one of the functions, applied to accounts and amounts.
LEMMA NextCases ==
    ASSUME Next
    PROVE  \/ \E a, b, o \in Account, x \in Nat :
                 \/ LendingAction(a, b, o, x)
                 \/ ShareAction(a, b, o, x)
                 \/ LoanAction(a, b, x)
                 \/ RewardAction(a, b)
                 \/ Donate(a, x)
                 \/ CollectFee(x)
           \/ Poke
           \/ LiquidationAction
           \/ SettingAction
           \/ WorldAction
<1> DEFINE Goal == \/ \E a, b, o \in Account, x \in Nat :
                         \/ LendingAction(a, b, o, x)
                         \/ ShareAction(a, b, o, x)
                         \/ LoanAction(a, b, x)
                         \/ RewardAction(a, b)
                         \/ Donate(a, x)
                         \/ CollectFee(x)
                   \/ Poke
                   \/ LiquidationAction
                   \/ SettingAction
                   \/ WorldAction
<1>1. Lenders \cup Borrowers \cup Claimers \cup Liquidators \cup Peers
        \cup Approvers \subseteq Account
  BY EnvironmentAssumption
<1>2. \A x \in Amounts : x \in Nat
  BY EnvironmentAssumption
<1>3. ASSUME NEW a \in Lenders, LenderStep(a) PROVE Goal
  <2>1. PICK b, o \in Named(a), x \in Amounts :
           LendingAction(a, b, o, x) \/ ShareAction(a, b, o, x)
    BY <1>3 DEF LenderStep, LendingAction, ShareAction
  <2>2. a \in Account /\ b \in Account /\ o \in Account /\ x \in Nat
    BY <1>1, <1>2 DEF Named
  <2>. QED BY <2>1, <2>2
<1>4. ASSUME NEW a \in Borrowers, BorrowerStep(a) PROVE Goal
  <2>1. PICK b \in Named(a), x \in Amounts : LoanAction(a, b, x)
    BY <1>4 DEF BorrowerStep, LoanAction
  <2>2. a \in Account /\ b \in Account /\ x \in Nat
    BY <1>1, <1>2 DEF Named
  <2>. QED BY <2>1, <2>2
<1>5. ASSUME NEW a \in Claimers, RewardStep(a) PROVE Goal
  <2>1. PICK b \in Named(a) : RewardAction(a, b)
    BY <1>5 DEF RewardStep, RewardAction, Named
  <2>2. a \in Account /\ b \in Account /\ 0 \in Nat
    BY <1>1 DEF Named
  <2>. QED BY <2>1, <2>2
<1>6. ASSUME AnyoneStep PROVE Goal
  <2>1. CASE Poke
    BY <2>1
  <2>2. ASSUME NEW a \in Approvers, NEW b \in Lenders, NEW x \in Approvals, Approve(a, b, x)
        PROVE  Goal
    <3>1. a \in Account /\ b \in Account /\ x \in Nat
      BY <1>1, EnvironmentAssumption
    <3>. QED BY <2>2, <3>1 DEF ShareAction
  <2>3. ASSUME NEW a \in Account, NEW x \in Donations, Donate(a, x) PROVE Goal
    <3>1. x \in Nat
      BY EnvironmentAssumption
    <3>. QED BY <2>3, <3>1
  <2>. HIDE DEF Goal
  <2>. QED BY <1>6, <2>1, <2>2, <2>3 DEF AnyoneStep
<1>7. ASSUME OwnerStep PROVE Goal
  <2>1. ASSUME NEW x \in Amounts, CollectFee(x) PROVE Goal
    <3>1. x \in Nat /\ 1 \in Account
      BY <1>2, RewardsAssumption DEF Account
    <3>. QED BY <2>1, <3>1
  <2>2. ASSUME ~ \E x \in Amounts : CollectFee(x) PROVE SettingAction
    BY <1>7, <2>2, EnvironmentAssumption DEF OwnerStep, SettingAction
  <2>. HIDE DEF Goal
  <2>3. SettingAction => Goal
    BY DEF Goal
  <2>. QED BY <2>1, <2>2, <2>3
<1>8. ASSUME BlockStep \/ CollateralStep PROVE Goal
  <2>1. WorldAction
    BY <1>8, EnvironmentAssumption DEF BlockStep, CollateralStep, WorldAction
  <2>. QED BY <2>1
<1>9. ASSUME LiquidationStep PROVE Goal
  <2>1. LiquidationAction
    BY <1>1, <1>2, <1>9 DEF LiquidationStep, LiquidationAction
  <2>. QED BY <2>1
<1>. HIDE DEF Goal
<1>10. Goal
  BY <1>3, <1>4, <1>5, <1>6, <1>7, <1>8, <1>9 DEF Next
<1>. QED BY <1>10 DEF Goal

-----------------------------------------------------------------------------
\* deposit, mint, withdraw and redeem end in one of the two transfers of the
\* vault, with amounts that the conversions computed.
LEMMA LendingCases ==
    ASSUME TypeOK, NEW a \in Account, NEW b \in Account, NEW o \in Account, NEW x \in Nat,
           LendingAction(a, b, o, x)
    PROVE  \E c \in Account, assets, shares \in Nat : LendingMove(a, c, assets, shares)
<1> DEFINE total == TotalAssets(Accrued, cashReserves)
<1>1. totalSupply \in Nat /\ total \in Nat
  BY TypeParts, AccruedOK DEF LedgerOK
<1>. HIDE DEF total
<1>2. /\ \A y \in Nat : PayIn(a, y) => VaultTakes(y)
      /\ \A y \in Nat : PayOut(b, y) => VaultPays(y)
  <2>1. wallet \in [Account -> Nat]
    BY DEF TypeOK
  <2>2. ASSUME NEW y \in Nat, PayIn(a, y) PROVE VaultTakes(y)
    BY <2>1, <2>2 DEF PayIn, VaultTakes
  <2>3. ASSUME NEW y \in Nat, PayOut(b, y) PROVE VaultPays(y)
    BY <2>1, <2>3 DEF PayOut, VaultPays
  <2>. QED BY <2>2, <2>3
<1>3. CASE Deposit(a, b, x)
  <2>1. /\ Convertible(totalSupply, total) /\ PayIn(a, x)
        /\ CreditDeposit(a, b, x, PreviewDeposit(x, totalSupply, total))
    BY <1>3 DEF Deposit, DepositAssets, total
  <2>2. PreviewDeposit(x, totalSupply, total) \in Nat
    BY <1>1, <2>1, ConversionNat DEF PreviewDeposit
  <2>. QED BY <1>2, <2>1, <2>2 DEF LendingMove, TakeDeposit
<1>4. CASE Mint(a, b, x)
  <2> DEFINE y == PreviewMint(x, totalSupply, total)
  <2>1. PayIn(a, y) /\ CreditDeposit(a, b, y, x)
    BY <1>4 DEF Mint, MintAmount, total
  <2>2. y \in Nat
    BY <1>1, ConversionNat
  <2>. HIDE DEF y
  <2>. QED BY <1>2, <2>1, <2>2 DEF LendingMove, TakeDeposit
<1>5. CASE Withdraw(a, b, o, x)
  <2>1. /\ Convertible(totalSupply, total) /\ PayOut(b, x)
        /\ DebitWithdrawal(a, o, x, PreviewWithdraw(x, totalSupply, total))
    BY <1>5 DEF Withdraw, WithdrawAssets, total
  <2>2. PreviewWithdraw(x, totalSupply, total) \in Nat
    BY <1>1, <2>1, ConversionNat
  <2>. QED BY <1>2, <2>1, <2>2 DEF LendingMove, PayWithdrawal
<1>6. CASE Redeem(a, b, o, x)
  <2> DEFINE y == PreviewRedeem(x, totalSupply, total)
  <2>1. PayOut(b, y) /\ DebitWithdrawal(a, o, y, x)
    BY <1>6 DEF Redeem, RedeemShares, RedeemAmount, total
  <2>2. y \in Nat
    BY <1>1, ConversionNat DEF PreviewRedeem
  <2>. HIDE DEF y
  <2>. QED BY <1>2, <2>1, <2>2 DEF LendingMove, PayWithdrawal
<1>. QED BY <1>3, <1>4, <1>5, <1>6 DEF LendingAction

\* Such a transfer keeps the storage well formed and the loans as they were.
LEMMA LendingMoveType ==
    ASSUME TypeOK, NEW a \in Account, NEW c \in Account,
           NEW assets \in Nat, NEW shares \in Nat, LendingMove(a, c, assets, shares)
    PROVE  TypeOK' /\ UNCHANGED loans
<1>1. TypeOK'
  BY TakeDepositType, PayWithdrawalType DEF LendingMove
<1>2. UNCHANGED loans
  BY DEF LendingMove, TakeDeposit, CreditDeposit, PayWithdrawal, DebitWithdrawal
<1>. QED BY <1>1, <1>2

\* What repayShares asks is an amount.
LEMMA RepaySharesAmountNat ==
    ASSUME TypeOK, NEW x \in Nat
    PROVE  RepaySharesAmount(x) \in Nat
<1>1. /\ GetInterestRate(Accrued, totalBorrowShares) \in Nat
      /\ Accrued.totalBorrows \in Nat
  BY TypeParts, AccruedOK
<1>2. MulDivUp(x, GetInterestRate(Accrued, totalBorrowShares), ExpScale) \in Nat
  BY <1>1, MulDivUpBounds, MTokenAssumption
<1>. QED BY <1>1, <1>2 DEF RepaySharesAmount

\* repay and repayShares both settle a loan.
LEMMA LoanCases ==
    ASSUME TypeOK, NEW a \in Account, NEW b \in Account, NEW x \in Nat,
           LoanAction(a, b, x)
    PROVE  \/ Borrow(a, b, x)
           \/ \E assets, shares \in Nat : SettleLoan(a, b, assets, shares)
<1>1. CASE Repay(a, b, x)
  <2> DEFINE rate == GetInterestRate(Accrued, totalBorrowShares)
  <2>1. rate \in Nat /\ rate # 0
    BY <1>1, TypeParts, AccruedOK DEF Repay
  <2>2. SettleLoan(a, b, x, MulDivUp(x, ExpScale, rate))
    BY <1>1 DEF Repay
  <2>. HIDE DEF rate
  <2>3. MulDivUp(x, ExpScale, rate) \in Nat
    BY <2>1, MulDivUpBounds, MTokenAssumption
  <2>. QED BY <2>2, <2>3
<1>2. CASE RepayShares(a, b, x)
  BY <1>2, RepaySharesAmountNat DEF RepayShares
<1>. QED BY <1>1, <1>2 DEF LoanAction

-----------------------------------------------------------------------------
\* What a function under updateReward reads first is a book.
LEMMA OnEntryOK ==
    ASSUME TypeOK
    PROVE  OnEntry \in Book /\ OnEntry.lastAccrual <= now
BY TypeParts, AccruedOK DEF OnEntry, LedgerOK

\* The constructors leave well-formed storage.
LEMMA InitType == Init => TypeOK
<1>1. SUFFICES ASSUME Init PROVE TypeOK
  OBVIOUS
<1>2. SettingsOK
  BY <1>1, MTokenAssumption, RewardsAssumption
     DEF Init, SettingsOK, Collector, InterestModels, Bips
<1>3. LedgerOK
  BY <1>1 DEF Init, LedgerOK, Book
<1>4. WorldOK
  BY <1>1, MTokenAssumption, EnvironmentAssumption DEF Init, WorldOK, LiquidationCall
<1>5. RewardsOK(rewards)
  <2>1. RewardTotal \div RewardDuration \in Nat
    BY MTokenAssumption, DivBounds
  <2>2. (RewardTotal \div RewardDuration) * RewardDuration \in Nat
    BY <2>1, ProductNat, MTokenAssumption
  <2>3. rewards = NewRewards(now, RewardTotal, RewardDuration) /\ now = 1
    BY <1>1 DEF Init
  <2>4. now + RewardDuration \in Nat
    BY <2>3, MTokenAssumption
  <2>. QED BY <2>1, <2>2, <2>3, <2>4 DEF NewRewards, RewardsOK, RewardsState, UserInfo
<1>. QED BY <1>2, <1>3, <1>4, <1>5, TypeParts

\* transfer, transferFrom and approve keep it.
LEMMA ShareType ==
    ASSUME TypeOK, NEW a \in Account, NEW b \in Account, NEW o \in Account, NEW x \in Nat,
           ShareAction(a, b, o, x)
    PROVE  TypeOK'
<1>1. CASE Transfer(a, b, x)
  BY <1>1 DEF TypeOK, Transfer, Send, lending, settings, token, world
<1>2. CASE TransferFrom(a, o, b, x)
  BY <1>2 DEF TypeOK, TransferFrom, Send, lending, settings, token, world
<1>3. CASE Approve(a, b, x)
  BY <1>3 DEF TypeOK, Approve, lending, settings, token, world
<1>. QED BY <1>1, <1>2, <1>3 DEF ShareAction

\* getPendingRewards and claimRewards keep it, and the cap on what is paid.
LEMMA RewardType ==
    ASSUME TypeOK, NEW a \in Account, NEW b \in Account, RewardAction(a, b)
    PROVE  /\ TypeOK'
           /\ RewardsWithinTotal => RewardsWithinTotal'
<1>1. /\ UNCHANGED <<cashReserves, loans, shareVars, settings, token, world>>
      /\ book' = OnEntry
  BY DEF RewardAction, ClaimRewards, GetPendingRewards
<1>2. book' \in Book /\ book'.lastAccrual <= now'
  BY <1>1, OnEntryOK DEF world
<1>3. StateOK'
  BY <1>1, <1>2, TypeParts
     DEF StateOK, LedgerOK, SettingsOK, WorldOK, loans, shareVars, settings, token, world
<1>4. CASE GetPendingRewards(a, b)
  <2>1. /\ RewardsOK(rewards)'
        /\ rewards'.totalRewardsPaid = rewards.totalRewardsPaid
        /\ rewards'.totalRewards = rewards.totalRewards
    BY <1>1, <1>4, HookType DEF GetPendingRewards, world
  <2>. QED BY <1>3, <2>1, TypePartsNext DEF RewardsWithinTotal
<1>5. CASE ClaimRewards(a)
  <2> DEFINE r == BeforeClaim(rewards, TotalRewardSupply)
  <2>1. now \in Nat /\ RewardsOK(rewards) /\ TotalRewardSupply \in Nat
    BY TypeParts, ReadingsNat DEF WorldOK, StateOK, ReadingsOK
  <2>2. /\ RewardsOK(r)
        /\ r.totalRewardsPaid = rewards.totalRewardsPaid
        /\ r.totalRewards = rewards.totalRewards
    BY <2>1, BeforeClaimType
  <2>3. rewards' = Claim(r, a)
    BY <1>5 DEF ClaimRewards
  <2>. HIDE DEF r
  <2>4. RewardsOK(rewards')
    BY <2>1, <2>2, <2>3, ClaimType
  <2>5. RewardsOK(rewards)'
    BY <1>1, <2>4 DEF RewardsOK, world
  <2>6. RewardsWithinTotal => RewardsWithinTotal'
    BY <2>1, <2>2, <2>3, ClaimType DEF RewardsWithinTotal
  <2>. QED BY <1>3, <2>5, <2>6, TypePartsNext
<1>. QED BY <1>4, <1>5 DEF RewardAction

\* collectFee keeps it: the fee is bounded by what was charged.
LEMMA CollectFeeType ==
    ASSUME TypeOK, NEW x \in Nat, CollectFee(x)
    PROVE  TypeOK'
<1>1. book' \in Book /\ book'.lastAccrual <= now'
  BY DEF CollectFee, TypeOK, Book, world
<1>2. vaultBalance' \in Nat
  BY DEF CollectFee, TypeOK
<1>3. collected' \in [Collector -> Nat]
  BY DEF CollectFee, TypeOK
<1>. QED BY <1>1, <1>2, <1>3
         DEF CollectFee, TypeOK, loans, shareVars, settings, world

\* The getters that accrue interest keep it.
LEMMA PokeType ==
    ASSUME TypeOK, Poke
    PROVE  TypeOK'
<1>1. book' \in Book /\ book'.lastAccrual <= now'
  BY TypeParts, AccruedOK DEF Poke, world
<1>. QED BY <1>1 DEF Poke, TypeOK, loans, shareVars, settings, token, world

\* A payment within the payer's means leaves natural balances.
LEMMA SendType ==
    ASSUME NEW f \in [Account -> Nat], NEW a \in Account, NEW b \in Account,
           NEW x \in Nat, f[a] >= x
    PROVE  Send(f, a, b, x) \in [Account -> Nat]
BY DEF Send

\* A liquidation keeps it: the account holds the shares that are taken.
LEMMA LiquidationType ==
    ASSUME TypeOK, LiquidationAction
    PROVE  TypeOK'
<1>1. Accrued \in Book /\ Accrued.lastAccrual <= now
  BY TypeParts, AccruedOK
<1>2. ASSUME NEW s \in Account, NEW a \in Account, LiquidateBegin(s, a) PROVE TypeOK'
  BY <1>1, <1>2 DEF LiquidateBegin, TypeOK, LiquidationCall, loans, shareVars, settings, token
<1>3. ASSUME NEW x \in Nat, Liquidate(x) PROVE TypeOK'
  <2>1. liquidating.account \in Account /\ liquidating.sender \in Account
    BY <1>3 DEF Liquidate, TypeOK, LiquidationCall
  <2>2. balanceOf' \in [Account -> Nat]
    <3>1. balanceOf \in [Account -> Nat] /\ balanceOf[liquidating.account] >= x
      BY <1>3 DEF Liquidate, TypeOK
    <3>2. balanceOf' = Send(balanceOf, liquidating.account, liquidating.sender, x)
      BY <1>3 DEF Liquidate
    <3>. QED BY <2>1, <3>1, <3>2, SendType
  <2>. QED BY <1>3, <2>2 DEF Liquidate, TypeOK, lending, settings, token, world
<1>4. ASSUME LiquidateEnd PROVE TypeOK'
  BY <1>1, <1>4 DEF LiquidateEnd, TypeOK, LiquidationCall, loans, shareVars, settings, token
<1>. QED BY <1>2, <1>3, <1>4 DEF LiquidationAction

\* Type correctness is inductive: one case per function of the contracts.
LEMMA NextType == TypeOK /\ [Next]_vars => TypeOK'
<1>1. SUFFICES ASSUME TypeOK, [Next]_vars PROVE TypeOK'
  OBVIOUS
<1>2. CASE UNCHANGED vars
  BY <1>1, <1>2
     DEF TypeOK, vars, lending, shareVars, settings, token, world
<1>3. CASE Next
  <2>1. ASSUME NEW a \in Account, NEW b \in Account, NEW o \in Account, NEW x \in Nat,
               LendingAction(a, b, o, x)
        PROVE  TypeOK'
    BY <1>1, <2>1, LendingCases, LendingMoveType
  <2>2. ASSUME NEW a \in Account, NEW b \in Account, NEW o \in Account, NEW x \in Nat,
               ShareAction(a, b, o, x)
        PROVE  TypeOK'
    BY <1>1, <2>2, ShareType
  <2>3. ASSUME NEW a \in Account, NEW b \in Account, NEW x \in Nat, LoanAction(a, b, x)
        PROVE  TypeOK'
    BY <1>1, <2>3, LoanCases, BorrowType, SettleLoanType
  <2>4. ASSUME NEW a \in Account, NEW b \in Account, RewardAction(a, b) PROVE TypeOK'
    BY <1>1, <2>4, RewardType
  <2>5. ASSUME NEW a \in Account, NEW x \in Nat, Donate(a, x) PROVE TypeOK'
    BY <1>1, <2>5 DEF TypeOK, Donate, PayIn, lending, shareVars, settings, world
  <2>6. ASSUME NEW x \in Nat, CollectFee(x) PROVE TypeOK'
    BY <1>1, <2>6, CollectFeeType
  <2>7. CASE Poke
    BY <1>1, <2>7, PokeType
  <2>8. CASE SettingAction
    BY <1>1, <2>8
       DEF SettingAction, SetInterestModel, SetFeeCollector, SetMaxBorrow, SetPlatformFee,
           TypeOK, lending, shareVars, token, world
  <2>9. CASE WorldAction
    <3>1. CASE Tick
      BY <1>1, <3>1 DEF Tick, TypeOK, RewardsState, Book,
                        lending, shareVars, settings, token
    <3>2. ASSUME NEW x \in Nat, Quote(x) PROVE TypeOK'
      BY <1>1, <3>2 DEF Quote, TypeOK, lending, shareVars, settings, token
    <3>3. ASSUME NEW a \in Account, NEW x \in Nat, ChangeCollateral(a, x) PROVE TypeOK'
      BY <1>1, <3>3 DEF ChangeCollateral, TypeOK, lending, shareVars, settings, token
    <3>. QED BY <2>9, <3>1, <3>2, <3>3 DEF WorldAction
  <2>10. CASE LiquidationAction
    BY <1>1, <2>10, LiquidationType
  <2>. QED BY <1>3, <2>1, <2>2, <2>3, <2>4, <2>5, <2>6, <2>7, <2>8, <2>9, <2>10, NextCases
<1>. QED BY <1>1, <1>2, <1>3

\* In every state the vault can reach, whatever the number of accounts and the
\* amounts they pass to deposit, mint, withdraw, redeem, borrow, repay and
\* repayShares, no word of storage has gone below zero and neither interest nor
\* rewards are settled past the current block.
THEOREM TypeCorrect == Spec => []TypeOK
BY InitType, NextType, PTL DEF Spec
-----------------------------------------------------------------------------
(***************************************************************************)
(* The safety invariants.  Each one is inductive together with TypeOK.     *)
(***************************************************************************)

\* Adding to, or taking from, one account's entry of a mapping changes the sum
\* of the mapping by as much.
LEMMA SumShift ==
    ASSUME NEW n \in Nat, NEW f \in [1..n -> Nat], NEW a \in 1..n, NEW d \in Int
    PROVE  Sum([f EXCEPT ![a] = @ + d], n) = Sum(f, n) + d
<1>1. f \in [1..n -> Int] /\ f[a] + d \in Int
  OBVIOUS
<1>2. Sum([f EXCEPT ![a] = f[a] + d], n) = Sum(f, n) - f[a] + (f[a] + d)
  BY <1>1, SumUpdate
<1>3. Sum(f, n) \in Int
  BY <1>1, SumInt
<1>. QED BY <1>1, <1>2, <1>3

-----------------------------------------------------------------------------
\* The functions of lenders, of the owner and of everyone else, and the world,
\* leave the loan shares alone.
LEMMA LoansFrame ==
    ASSUME TypeOK, Next
    PROVE  \/ UNCHANGED loans
           \/ \E a, b \in Account, x \in Nat : LoanAction(a, b, x)
<1>1. ASSUME NEW a \in Account, NEW b \in Account, NEW o \in Account, NEW x \in Nat,
             LendingAction(a, b, o, x)
      PROVE  UNCHANGED loans
  BY <1>1, LendingCases, LendingMoveType
<1>2. ASSUME NEW a \in Account, NEW b \in Account, NEW o \in Account, NEW x \in Nat,
             ShareAction(a, b, o, x)
      PROVE  UNCHANGED loans
  BY <1>2 DEF ShareAction, Transfer, TransferFrom, Approve, lending, loans
<1>3. ASSUME NEW a \in Account, NEW b \in Account, RewardAction(a, b)
      PROVE  UNCHANGED loans
  BY <1>3 DEF RewardAction, ClaimRewards, GetPendingRewards
<1>4. ASSUME NEW a \in Account, NEW x \in Nat, Donate(a, x) \/ CollectFee(x)
      PROVE  UNCHANGED loans
  BY <1>4 DEF Donate, CollectFee, lending, loans
<1>5. Poke \/ LiquidationAction \/ SettingAction \/ WorldAction => UNCHANGED loans
  BY DEF Poke, LiquidationAction, LiquidateBegin, Liquidate, LiquidateEnd, SettingAction, SetInterestModel, SetFeeCollector, SetMaxBorrow,
         SetPlatformFee, WorldAction, Tick, Quote, ChangeCollateral, lending, loans
<1>. HIDE DEF loans
<1>. QED BY <1>1, <1>2, <1>3, <1>4, <1>5, NextCases

\* borrow and SettleLoan change the total and one account's shares alike.
LEMMA LoanSharesStep ==
    ASSUME TypeOK, LoanSharesSum, [Next]_vars
    PROVE  LoanSharesSum'
<1>1. /\ NumAccounts \in Nat /\ borrowed \in [1..NumAccounts -> Nat]
      /\ totalBorrowShares \in Nat
      /\ Sum(borrowed, NumAccounts) = totalBorrowShares
  BY RewardsAssumption DEF TypeOK, Account, LoanSharesSum
<1>2. CASE UNCHANGED loans
  BY <1>2 DEF LoanSharesSum, loans
<1>3. ASSUME NEW a \in Account, NEW d \in Int,
             borrowed' = [borrowed EXCEPT ![a] = @ + d],
             totalBorrowShares' = totalBorrowShares + d
      PROVE  LoanSharesSum'
  <2>1. a \in 1..NumAccounts
    BY DEF Account
  <2>2. Sum(borrowed', NumAccounts) = Sum(borrowed, NumAccounts) + d
    BY <1>1, <1>3, <2>1, SumShift
  <2>. QED BY <1>1, <1>3, <2>2 DEF LoanSharesSum
<1>4. ASSUME NEW a \in Account, NEW b \in Account, NEW x \in Nat, LoanAction(a, b, x)
      PROVE  LoanSharesSum'
  <2>1. CASE Borrow(a, b, x)
    <3> DEFINE shares == (x * ExpScale) \div GetInterestRate(Accrued, totalBorrowShares)
    <3>1. /\ borrowed' = [borrowed EXCEPT ![a] = @ + shares]
          /\ totalBorrowShares' = totalBorrowShares + shares
      BY <2>1 DEF Borrow
    <3>2. shares \in Int
      <4>1. /\ GetInterestRate(Accrued, totalBorrowShares) \in Nat \ {0}
            /\ x * ExpScale \in Nat
        BY <2>1, TypeParts, AccruedOK, ProductNat, MTokenAssumption DEF Borrow
      <4>. QED BY <4>1, DivBounds
    <3>. HIDE DEF shares
    <3>. QED BY <1>3, <3>1, <3>2
  <2>2. ASSUME NEW assets \in Nat, NEW shares \in Nat, SettleLoan(a, b, assets, shares)
        PROVE  LoanSharesSum'
    <3>1. /\ borrowed' = [borrowed EXCEPT ![b] = @ + (0 - shares)]
          /\ totalBorrowShares' = totalBorrowShares + (0 - shares)
      <4>1. /\ borrowed' = [borrowed EXCEPT ![b] = borrowed[b] - shares]
            /\ totalBorrowShares' = totalBorrowShares - shares
        BY <2>2 DEF SettleLoan
      <4>2. borrowed[b] \in Nat
        BY <1>1 DEF Account
      <4>3. /\ borrowed[b] - shares = borrowed[b] + (0 - shares)
            /\ totalBorrowShares - shares = totalBorrowShares + (0 - shares)
        BY <1>1, <4>2
      <4>. QED BY <4>1, <4>3, Zenon
    <3>2. 0 - shares \in Int
      OBVIOUS
    <3>. QED BY <1>3, <3>1, <3>2
  <2>. QED BY <1>4, <2>1, <2>2, LoanCases
<1>5. CASE UNCHANGED vars
  BY <1>2, <1>5 DEF vars, lending, loans
<1>. QED BY <1>2, <1>4, <1>5, LoansFrame

\* There are no loan shares at first.
LEMMA InitLoanShares == Init => LoanSharesSum
<1>1. SUFFICES ASSUME Init PROVE LoanSharesSum
  OBVIOUS
<1>2. borrowed = [i \in 1..NumAccounts |-> 0] /\ totalBorrowShares = 0
  BY <1>1 DEF Init, Account
<1>3. Sum([i \in 1..NumAccounts |-> 0], NumAccounts) = 0
  BY SumZero, RewardsAssumption
<1>. QED BY <1>2, <1>3 DEF LoanSharesSum

\* However borrow, repay and repayShares of any number of accounts follow on each
\* other, totalBorrowShares is the sum of the accounts' loan shares.
THEOREM LoanSharesCorrect == Spec => []LoanSharesSum
<1>1. Init => LoanSharesSum
  BY InitLoanShares
<1>2. TypeOK /\ LoanSharesSum /\ [Next]_vars => LoanSharesSum'
  BY LoanSharesStep
<1>. QED BY <1>1, <1>2, TypeCorrect, PTL DEF Spec

-----------------------------------------------------------------------------
\* A payment between two accounts, or of an account to itself, keeps the sum.
LEMMA SumSend ==
    ASSUME NEW n \in Nat, NEW f \in [1..n -> Nat], NEW a \in 1..n, NEW b \in 1..n,
           NEW x \in Nat, f[a] >= x
    PROVE  Sum(Send(f, a, b, x), n) = Sum(f, n)
<1> DEFINE g == [f EXCEPT ![a] = @ + (0 - x)]
<1>1. g \in [1..n -> Nat] /\ 0 - x \in Int /\ x \in Int
  OBVIOUS
<1>2. Sum(g, n) = Sum(f, n) + (0 - x)
  BY <1>1, SumShift
<1>3. Send(f, a, b, x) = [g EXCEPT ![b] = @ + x]
  <2>1. f[a] - x = f[a] + (0 - x)
    OBVIOUS
  <2>2. [f EXCEPT ![a] = @ - x] = g
    BY <2>1, Zenon
  <2>. QED BY <2>2 DEF Send
<1>. HIDE DEF g
<1>4. Sum(Send(f, a, b, x), n) = Sum(g, n) + x
  <2>1. Sum([g EXCEPT ![b] = @ + x], n) = Sum(g, n) + x
    BY <1>1, SumShift
  <2>. QED BY <1>3, <2>1, Zenon
<1>5. Sum(f, n) \in Int
  <2>1. f \in [1..n -> Int]
    OBVIOUS
  <2>. QED BY <2>1, SumInt
<1>. QED BY <1>2, <1>4, <1>5

\* The ERC20's total is the sum of its balances, by which VaultLedger divides:
SharesSum == Sum(balanceOf, NumAccounts) = totalSupply

\* deposits and withdrawals change the supply and one account's shares alike;
LEMMA LendingMoveShares ==
    ASSUME TypeOK, SharesSum, NEW a \in Account, NEW c \in Account,
           NEW assets \in Nat, NEW shares \in Nat, LendingMove(a, c, assets, shares)
    PROVE  SharesSum'
<1>1. /\ NumAccounts \in Nat /\ balanceOf \in [1..NumAccounts -> Nat]
      /\ totalSupply \in Nat /\ c \in 1..NumAccounts
      /\ Sum(balanceOf, NumAccounts) = totalSupply
  BY RewardsAssumption DEF TypeOK, Account, SharesSum
<1>2. ASSUME NEW d \in Int,
             balanceOf' = [balanceOf EXCEPT ![c] = @ + d],
             totalSupply' = totalSupply + d
      PROVE  SharesSum'
  <2>1. Sum(balanceOf', NumAccounts) = Sum(balanceOf, NumAccounts) + d
    BY <1>1, <1>2, SumShift
  <2>. QED BY <1>1, <1>2, <2>1 DEF SharesSum
<1>3. CASE TakeDeposit(a, c, assets, shares)
  <2>1. /\ balanceOf' = [balanceOf EXCEPT ![c] = @ + shares]
        /\ totalSupply' = totalSupply + shares
    BY <1>3 DEF TakeDeposit, CreditDeposit, MintShares
  <2>2. shares \in Int
    OBVIOUS
  <2>. QED BY <1>2, <2>1, <2>2
<1>4. CASE PayWithdrawal(a, c, assets, shares)
  <2>1. /\ balanceOf' = [balanceOf EXCEPT ![c] = balanceOf[c] - shares]
        /\ totalSupply' = totalSupply - shares
    BY <1>4 DEF PayWithdrawal, DebitWithdrawal, BurnShares
  <2>2. balanceOf[c] \in Nat
    BY <1>1 DEF Account
  <2>3. /\ balanceOf[c] - shares = balanceOf[c] + (0 - shares)
        /\ totalSupply - shares = totalSupply + (0 - shares)
        /\ 0 - shares \in Int
    BY <1>1, <2>2
  <2>4. /\ balanceOf' = [balanceOf EXCEPT ![c] = @ + (0 - shares)]
        /\ totalSupply' = totalSupply + (0 - shares)
    BY <2>1, <2>3, Zenon
  <2>. QED BY <1>2, <2>3, <2>4
<1>. QED BY <1>3, <1>4 DEF LendingMove

\* transfers and seizures move shares between two accounts.
LEMMA SharesStep ==
    ASSUME TypeOK, SharesSum, [Next]_vars
    PROVE  SharesSum'
<1>1. /\ NumAccounts \in Nat /\ balanceOf \in [1..NumAccounts -> Nat]
      /\ totalSupply \in Nat
      /\ Sum(balanceOf, NumAccounts) = totalSupply
  BY RewardsAssumption DEF TypeOK, Account, SharesSum
<1>2. ASSUME UNCHANGED <<totalSupply, balanceOf>> PROVE SharesSum'
  BY <1>2 DEF SharesSum
<1>4. ASSUME NEW a \in Account, NEW b \in Account, NEW x \in Nat, balanceOf[a] >= x,
             balanceOf' = Send(balanceOf, a, b, x), UNCHANGED totalSupply
      PROVE  SharesSum'
  <2>1. a \in 1..NumAccounts /\ b \in 1..NumAccounts
    BY DEF Account
  <2>2. Sum(balanceOf', NumAccounts) = Sum(balanceOf, NumAccounts)
    BY <1>1, <1>4, <2>1, SumSend
  <2>. QED BY <1>1, <1>4, <2>2 DEF SharesSum
<1>5. ASSUME NEW a \in Account, NEW b \in Account, NEW o \in Account, NEW x \in Nat,
             LendingAction(a, b, o, x)
      PROVE  SharesSum'
  BY <1>5, LendingCases, LendingMoveShares
<1>6. ASSUME NEW a \in Account, NEW b \in Account, NEW o \in Account, NEW x \in Nat,
             ShareAction(a, b, o, x)
      PROVE  SharesSum'
  <2>1. CASE Transfer(a, b, x)
    BY <1>4, <2>1 DEF Transfer
  <2>2. CASE TransferFrom(a, o, b, x)
    BY <1>4, <2>2 DEF TransferFrom
  <2>3. CASE Approve(a, b, x)
    BY <1>2, <2>3 DEF Approve
  <2>. QED BY <1>6, <2>1, <2>2, <2>3 DEF ShareAction
<1>7. ASSUME NEW a \in Account, NEW b \in Account, NEW x \in Nat,
             LoanAction(a, b, x) \/ RewardAction(a, b) \/ Donate(a, x) \/ CollectFee(x)
      PROVE  SharesSum'
  <2>1. UNCHANGED shareVars
    BY <1>7 DEF LoanAction, Borrow, Repay, RepayShares, SettleLoan, RewardAction,
                ClaimRewards, GetPendingRewards, Donate, CollectFee
  <2>. QED BY <1>2, <2>1 DEF shareVars
<1>8. CASE LiquidationAction
  <2>1. ASSUME NEW x \in Nat, Liquidate(x) PROVE SharesSum'
    <3>1. liquidating.account \in Account /\ liquidating.sender \in Account
      BY <2>1 DEF Liquidate, TypeOK, LiquidationCall
    <3>. QED BY <1>4, <2>1, <3>1 DEF Liquidate
  <2>2. ASSUME ~ \E x \in Nat : Liquidate(x) PROVE UNCHANGED shareVars
    BY <1>8, <2>2 DEF LiquidationAction, LiquidateBegin, LiquidateEnd
  <2>. QED BY <1>2, <2>1, <2>2 DEF shareVars
<1>9. Poke \/ SettingAction \/ WorldAction => SharesSum'
  <2>1. Poke \/ SettingAction \/ WorldAction => UNCHANGED shareVars
    BY DEF Poke, SettingAction, SetInterestModel, SetFeeCollector, SetMaxBorrow,
           SetPlatformFee, WorldAction, Tick, Quote, ChangeCollateral
  <2>. QED BY <1>2, <2>1 DEF shareVars
<1>10. CASE UNCHANGED vars
  BY <1>2, <1>10 DEF vars, shareVars
<1>. QED BY <1>5, <1>6, <1>7, <1>8, <1>9, <1>10, NextCases

\* There are no vault shares at first.
LEMMA InitShares == Init => SharesSum
<1>1. SUFFICES ASSUME Init PROVE SharesSum
  OBVIOUS
<1>2. balanceOf = [i \in 1..NumAccounts |-> 0] /\ totalSupply = 0
  BY <1>1 DEF Init, Account
<1>3. Sum([i \in 1..NumAccounts |-> 0], NumAccounts) = 0
  BY SumZero, RewardsAssumption
<1>. QED BY <1>2, <1>3 DEF SharesSum

\* totalSupply is always the sum of the accounts' vault shares.
LEMMA SharesCorrect == Spec => []SharesSum
<1>1. Init => SharesSum
  BY InitShares
<1>2. TypeOK /\ SharesSum /\ [Next]_vars => SharesSum'
  BY SharesStep
<1>. QED BY <1>1, <1>2, TypeCorrect, PTL DEF Spec

-----------------------------------------------------------------------------
\* Cash enters and leaves cashReserves with the tokens,
LEMMA LendingMoveCash ==
    ASSUME TypeOK, CashAccounted, NEW a \in Account, NEW c \in Account,
           NEW assets \in Nat, NEW shares \in Nat, LendingMove(a, c, assets, shares)
    PROVE  CashAccounted'
<1>1. /\ NumCollectors \in Nat /\ collected \in [1..NumCollectors -> Int]
      /\ vaultBalance \in Nat /\ cashReserves \in Nat
      /\ cashReserves <= vaultBalance + Sum(collected, NumCollectors)
  BY MTokenAssumption DEF TypeOK, Collector, CashAccounted
<1>2. Sum(collected, NumCollectors) \in Int
  BY <1>1, SumInt
<1>3. CASE TakeDeposit(a, c, assets, shares)
  BY <1>1, <1>2, <1>3 DEF TakeDeposit, CreditDeposit, VaultTakes, CashAccounted
<1>4. CASE PayWithdrawal(a, c, assets, shares)
  BY <1>1, <1>2, <1>4 DEF PayWithdrawal, DebitWithdrawal, VaultPays, CashAccounted
<1>. QED BY <1>3, <1>4 DEF LendingMove

\* with those of a loan, too; fees leave the vault without leaving cashReserves,
\* but arrive at a collector.
LEMMA CashStep ==
    ASSUME TypeOK, CashAccounted, [Next]_vars
    PROVE  CashAccounted'
<1>1. /\ NumCollectors \in Nat /\ collected \in [1..NumCollectors -> Nat]
      /\ vaultBalance \in Nat /\ cashReserves \in Nat
      /\ cashReserves <= vaultBalance + Sum(collected, NumCollectors)
  BY MTokenAssumption DEF TypeOK, Collector, CashAccounted
<1>2. Sum(collected, NumCollectors) \in Int
  <2>1. collected \in [1..NumCollectors -> Int]
    BY <1>1
  <2>. QED BY <1>1, <2>1, SumInt
<1>3. ASSUME NEW d \in Int, UNCHANGED collected,
             cashReserves' = cashReserves + d, vaultBalance' = vaultBalance + d
      PROVE  CashAccounted'
  BY <1>1, <1>2, <1>3 DEF CashAccounted
<1>4. ASSUME UNCHANGED <<cashReserves, vaultBalance, collected>> PROVE CashAccounted'
  BY <1>4 DEF CashAccounted
<1>5. ASSUME NEW a \in Account, NEW b \in Account, NEW o \in Account, NEW x \in Nat,
             LendingAction(a, b, o, x)
      PROVE  CashAccounted'
  BY <1>5, LendingCases, LendingMoveCash
<1>6. ASSUME NEW a \in Account, NEW b \in Account, NEW o \in Account, NEW x \in Nat,
             ShareAction(a, b, o, x)
      PROVE  CashAccounted'
  BY <1>4, <1>6 DEF ShareAction, Transfer, TransferFrom, Approve, lending, token
<1>7. ASSUME NEW a \in Account, NEW b \in Account, NEW x \in Nat, LoanAction(a, b, x)
      PROVE  CashAccounted'
  <2>1. CASE Borrow(a, b, x)
    <3>1. /\ cashReserves' = cashReserves - x
          /\ vaultBalance' = vaultBalance - x
          /\ UNCHANGED collected
      BY <2>1 DEF Borrow, PayOut
    <3>. QED BY <1>1, <1>2, <3>1 DEF CashAccounted
  <2>2. ASSUME NEW assets \in Nat, NEW shares \in Nat, SettleLoan(a, b, assets, shares)
        PROVE  CashAccounted'
    BY <1>3, <2>2 DEF SettleLoan, PayIn
  <2>. QED BY <1>7, <2>1, <2>2, LoanCases
<1>8. ASSUME NEW a \in Account, NEW b \in Account, RewardAction(a, b) PROVE CashAccounted'
  BY <1>4, <1>8 DEF RewardAction, ClaimRewards, GetPendingRewards, token
<1>9. ASSUME NEW a \in Account, NEW x \in Nat, Donate(a, x) PROVE CashAccounted'
  BY <1>1, <1>2, <1>9 DEF Donate, PayIn, CashAccounted, lending
<1>10. ASSUME NEW x \in Nat, CollectFee(x) PROVE CashAccounted'
  <2>1. feeCollector \in 1..NumCollectors /\ x \in Int
    BY DEF TypeOK, Collector
  <2>2. collected' = [collected EXCEPT ![feeCollector] = @ + x]
    BY <1>10 DEF CollectFee
  <2>3. Sum(collected', NumCollectors) = Sum(collected, NumCollectors) + x
    BY <1>1, <2>1, <2>2, SumShift
  <2>4. vaultBalance' = vaultBalance - x /\ UNCHANGED cashReserves
    BY <1>10 DEF CollectFee
  <2>. QED BY <1>1, <1>2, <2>3, <2>4 DEF CashAccounted
<1>11. Poke \/ LiquidationAction \/ SettingAction \/ WorldAction => CashAccounted'
  BY <1>4 DEF Poke, LiquidationAction, LiquidateBegin, Liquidate, LiquidateEnd, SettingAction, SetInterestModel, SetFeeCollector, SetMaxBorrow,
         SetPlatformFee, WorldAction, Tick, Quote, ChangeCollateral, lending, token
<1>12. CASE UNCHANGED vars
  BY <1>4, <1>12 DEF vars, lending, token
<1>. QED BY <1>5, <1>6, <1>7, <1>8, <1>9, <1>10, <1>11, <1>12, NextCases

\* There is no cash at first.
LEMMA InitCash == Init => CashAccounted
<1>1. SUFFICES ASSUME Init PROVE CashAccounted
  OBVIOUS
<1>2. collected = [c \in 1..NumCollectors |-> 0] /\ cashReserves = 0 /\ vaultBalance = 0
  BY <1>1 DEF Init, Collector
<1>3. Sum([c \in 1..NumCollectors |-> 0], NumCollectors) = 0
  BY SumZero, MTokenAssumption
<1>. QED BY <1>2, <1>3 DEF CashAccounted

\* cashReserves, which the hooks and the loan functions keep by hand, never
\* claims more than the vault's token balance and the fees already paid out.
THEOREM CashCorrect == Spec => []CashAccounted
<1>1. Init => CashAccounted
  BY InitCash
<1>2. TypeOK /\ CashAccounted /\ [Next]_vars => CashAccounted'
  BY CashStep
<1>. QED BY <1>1, <1>2, TypeCorrect, PTL DEF Spec

-----------------------------------------------------------------------------
\* Only claimRewards moves the counter of paid rewards, and it stops at the cap.
LEMMA RewardsWithinStep ==
    ASSUME TypeOK, RewardsWithinTotal, [Next]_vars
    PROVE  RewardsWithinTotal'
<1>0. TypeOK'
  BY NextType
<1>1. ASSUME rewards'.totalRewardsPaid = rewards.totalRewardsPaid,
             rewards'.totalRewards = rewards.totalRewards
      PROVE  RewardsWithinTotal'
  BY <1>1 DEF RewardsWithinTotal
<1>2. ASSUME UNCHANGED rewards PROVE RewardsWithinTotal'
  BY <1>2 DEF RewardsWithinTotal
<1>3. ASSUME NEW a \in Account, NEW b \in Account, NEW o \in Account, NEW x \in Nat,
             LendingAction(a, b, o, x)
      PROVE  RewardsWithinTotal'
  <2>1. HookReward(a) /\ UNCHANGED now
    BY <1>3, LendingCases DEF LendingMove, TakeDeposit, CreditDeposit, PayWithdrawal, DebitWithdrawal, world
  <2>. QED BY <1>1, <2>1, HookType
<1>4. ASSUME NEW a \in Account, NEW b \in Account, NEW x \in Nat, LoanAction(a, b, x)
      PROVE  RewardsWithinTotal'
  <2>1. StateOK'
    BY <1>0 DEF TypeOK, StateOK, LedgerOK, SettingsOK, WorldOK
  <2>2. PICK c \in Account : WrapReward(c) /\ UNCHANGED now
    BY <1>4, LoanCases DEF Borrow, SettleLoan, world
  <2>. QED BY <1>1, <2>1, <2>2, WrapType
<1>5. ASSUME NEW a \in Account, NEW b \in Account, RewardAction(a, b)
      PROVE  RewardsWithinTotal'
  BY <1>5, RewardType
<1>6. ASSUME NEW a \in Account, NEW b \in Account, NEW o \in Account, NEW x \in Nat,
             ShareAction(a, b, o, x) \/ Donate(a, x) \/ CollectFee(x)
      PROVE  RewardsWithinTotal'
  BY <1>2, <1>6 DEF ShareAction, Transfer, TransferFrom, Approve, Donate, CollectFee
<1>7. Poke \/ LiquidationAction \/ SettingAction \/ WorldAction => RewardsWithinTotal'
  BY <1>2 DEF Poke, LiquidationAction, LiquidateBegin, Liquidate, LiquidateEnd, SettingAction, SetInterestModel, SetFeeCollector, SetMaxBorrow,
         SetPlatformFee, WorldAction, Tick, Quote, ChangeCollateral
<1>8. CASE UNCHANGED vars
  BY <1>2, <1>8 DEF vars
<1>. QED BY <1>3, <1>4, <1>5, <1>6, <1>7, <1>8, NextCases

\* Nothing has been paid at first.
LEMMA InitRewardsWithin == Init => RewardsWithinTotal
<1>1. SUFFICES ASSUME Init PROVE RewardsWithinTotal
  OBVIOUS
<1>2. TypeOK
  BY <1>1, InitType
<1>3. rewards.totalRewardsPaid = 0
  BY <1>1 DEF Init, NewRewards
<1>4. rewards.totalRewards \in Nat
  BY <1>2 DEF TypeOK, RewardsState
<1>. QED BY <1>3, <1>4 DEF RewardsWithinTotal

\* claimRewards never records more as paid than the rewards the contract was
\* given, whatever the wrapped subtraction of getPendingRewards returns.
THEOREM RewardsWithinTotalCorrect == Spec => []RewardsWithinTotal
<1>1. Init => RewardsWithinTotal
  BY InitRewardsWithin
<1>2. TypeOK /\ RewardsWithinTotal /\ [Next]_vars => RewardsWithinTotal'
  BY RewardsWithinStep
<1>. QED BY <1>1, <1>2, TypeCorrect, PTL DEF Spec
=============================================================================
