------------------------------- MODULE MToken -------------------------------
(***************************************************************************)
(* markets/MToken.sol: a vault whose depositors lend one underlying asset  *)
(* to borrowers.  It inherits the share accounting of ERC4626 and the      *)
(* reward emission of Rewards, asks the Controller whether a borrower is   *)
(* healthy and how large the platform's fee is, and holds its cash in an   *)
(* external ERC20 token.                                                   *)
(*                                                                         *)
(* A call is one action: it either happens as a whole or reverts, so every *)
(* require of the code is a conjunct of the guard.  The lock modifier      *)
(* never blocks one, because the underlying token and the controller do    *)
(* not call back into the vault.  The one transaction that takes several   *)
(* actions is Controller.liquidate, which calls the liquidator.            *)
(***************************************************************************)
EXTENDS ERC4626, InterestModel, Rewards, Sums

CONSTANTS
    ExpScale,           \* 1e18: precision of the borrow exchange rate
    SecondsPerYear,
    TokenScale,         \* units of the oracle's quote per unit of the asset
    Funds,              \* the accounts' initial holdings of the asset
    NumCollectors,      \* the fee collectors are 1..NumCollectors
    RewardTotal, RewardDuration,
    Lenders, Borrowers, Claimers,   \* the accounts that act in each role
    Liquidators,        \* the accounts that call Controller.liquidate
    Peers,              \* accounts a call of another account may name
    Approvers,          \* accounts that let the lenders spend their shares
    Amounts,            \* amounts of assets or shares the callers pass
    Donations,          \* amounts of the asset sent to the vault outside its functions
    Approvals,          \* allowances they give
    Caps,               \* borrow caps the owner sets
    Fees,               \* platform fees the owner sets, in basis points
    Models,             \* interest models the owner sets
    Prices,             \* quotes of the oracle
    Credits,            \* borrow limits the collateral of an account earns, in USD
    MaxTime,            \* bound of the model on the timestamps
    MaxDebt             \* bound of the model on totalBorrows after a borrow

ASSUME MTokenAssumption ==
    /\ ExpScale \in Nat \ {0}
    /\ SecondsPerYear \in Nat \ {0}
    /\ TokenScale \in Nat \ {0}
    /\ Funds \in [Account -> Nat]
    /\ NumCollectors \in Nat \ {0}
    /\ RewardTotal \in Nat
    /\ RewardDuration \in Nat \ {0}
    /\ MaxTime \in Nat
    /\ MaxDebt \in Nat

\* The owner sets fees of at most 100%: setPlatformFee does not check it.
ASSUME EnvironmentAssumption ==
    /\ Lenders \cup Borrowers \cup Claimers \cup Liquidators \cup Peers
          \cup Approvers \subseteq Account
    /\ \A x \in Donations : x \in Nat
    /\ \A x \in Amounts   : x \in Nat
    /\ \A x \in Approvals : x \in Nat
    /\ \A x \in Caps      : x \in Nat
    /\ \A x \in Fees      : x \in 0..Bips
    /\ Models \subseteq InterestModels
    /\ \A x \in Prices    : x \in Nat
    /\ \A x \in Credits   : x \in Nat

VARIABLES
    book,               \* totalBorrows, collectableFee, lastAccrualOfInterest
    cashReserves,       \* what the vault believes to hold of the asset
    totalBorrowShares, borrowed,                \* loan shares
    totalSupply, balanceOf, allowance,          \* the vault's own ERC20 shares
    maxBorrowable, interestModel, feeCollector, \* set by the owner
    platformFee,        \* Controller.platformFees
    vaultBalance, wallet, collected,            \* balances of the asset
    price,              \* the oracle's latest answer
    maxBorrowUsd,       \* Controller.getMaxBorrowUsd: from the collateral markets
    liquidating         \* the call of Controller.liquidate that is open

lending  == <<book, cashReserves, totalBorrowShares, borrowed>>
loans    == <<totalBorrowShares, borrowed>>
shareVars == <<totalSupply, balanceOf, allowance>>
settings == <<maxBorrowable, interestModel, feeCollector, platformFee>>
token    == <<vaultBalance, wallet, collected>>
world    == <<now, price, maxBorrowUsd, liquidating>>
vars     == <<lending, shareVars, settings, token, world, rewards>>

Collector == 1..NumCollectors

\* The lock of the controller lets one call of liquidate be open at a time.
NoLiquidation == [sender |-> 0, account |-> 0]

LiquidationCall == [sender : Account, account : Account] \cup {NoLiquidation}

Book == [totalBorrows : Nat, collectableFee : Nat, lastAccrual : Nat]

-----------------------------------------------------------------------------
(***************************************************************************)
(* Interest and debt.  The operators take the book explicitly: several     *)
(* functions of the contract accrue interest more than once, around their  *)
(* own updates.                                                            *)
(***************************************************************************)

GetInterest(b, cash) == ModelInterestRate(interestModel, cash, b.totalBorrows)

\* The interest accrueInterest charges, before it is split.
InterestCharged(b, cash) ==
    LET apy          == (GetInterest(b, cash) * ExpScale) \div Bips
        yearInterest == (b.totalBorrows * apy) \div ExpScale
    IN  (yearInterest * (now - b.lastAccrual)) \div SecondsPerYear

\* Mutant of AccrueInterest: the fee is taken out of the debt, the interest not
\* added to it.
AccrueInterestFeeOnly(b, cash) ==
    LET platformFeeCharged == MulDivDown(InterestCharged(b, cash), platformFee, Bips)
    IN  IF now = b.lastAccrual \/ b.totalBorrows = 0
        THEN b
        ELSE [totalBorrows   |-> b.totalBorrows - platformFeeCharged,
              collectableFee |-> b.collectableFee + platformFeeCharged,
              lastAccrual    |-> now]

\* accrueInterest: the book after it.  Without borrows the timestamp of the
\* last accrual stays where it is.
AccrueInterest(b, cash) ==
    LET interestCharged    == InterestCharged(b, cash)
        platformFeeCharged == MulDivDown(interestCharged, platformFee, Bips)
    IN  IF now = b.lastAccrual \/ b.totalBorrows = 0
        THEN b
        ELSE [totalBorrows   |-> b.totalBorrows + (interestCharged - platformFeeCharged),
              collectableFee |-> b.collectableFee + platformFeeCharged,
              lastAccrual    |-> now]

\* The book as the next function that accrues finds it.
Accrued == AccrueInterest(book, cashReserves)

\* Mutant of GetInterestRate: rounds the borrowers' debt down.
GetInterestRateDown(b, shares) ==
    IF shares = 0 THEN ExpScale ELSE MulDivDown(b.totalBorrows, ExpScale, shares)

\* getInterestRate, on an accrued book: underlying per loan share.
GetInterestRate(b, shares) ==
    IF shares = 0 THEN ExpScale ELSE MulDivUp(b.totalBorrows, ExpScale, shares)

TotalAssets(b, cash) == cash + b.totalBorrows

\* getBorrowBalance: what the account owes, in the underlying asset.
GetBorrowBalance(account) ==
    MulDivUp(borrowed[account], GetInterestRate(Accrued, totalBorrowShares), ExpScale)

\* getDebtBalanceUsd, from the oracle's quote.
GetDebtBalanceUsd(account) == MulDivUp(GetBorrowBalance(account), price, TokenScale)

\* Controller.isHealthy, for a controller with this debt market and any
\* number of collateral markets.  It accrues interest as a side effect.
IsHealthy(account) == GetDebtBalanceUsd(account) <= maxBorrowUsd[account]

\* totalRewardSupply and rewardBalanceOf: lenders and borrowers both earn.
TotalRewardSupply == Accrued.totalBorrows * 2 + cashReserves

RewardBalanceOf(account) ==
    ConvertToAssets(balanceOf[account], totalSupply, TotalAssets(Accrued, cashReserves))
    + GetBorrowBalance(account)

\* maxWithdraw and maxRedeem are views: they read the book as it was left by
\* the last accrual.
MaxWithdraw(owner) ==
    LET ownerAssets == ConvertToAssets(balanceOf[owner], totalSupply,
                                       TotalAssets(book, cashReserves))
    IN  IF ownerAssets > cashReserves THEN cashReserves ELSE ownerAssets

MaxRedeem(owner) ==
    LET maxShares == ConvertToShares(cashReserves, totalSupply,
                                     TotalAssets(book, cashReserves))
    IN  IF balanceOf[owner] > maxShares THEN maxShares ELSE balanceOf[owner]

-----------------------------------------------------------------------------
(***************************************************************************)
(* The constructors of MToken, ERC4626, Rewards and Controller, and a      *)
(* world in which the accounts hold the asset.                             *)
(***************************************************************************)
Init ==
    /\ now = 1
    /\ book = [totalBorrows |-> 0, collectableFee |-> 0, lastAccrual |-> now]
    /\ cashReserves = 0
    /\ totalBorrowShares = 0
    /\ borrowed = [a \in Account |-> 0]
    /\ totalSupply = 0
    /\ balanceOf = [a \in Account |-> 0]
    /\ allowance = [o \in Account |-> [s \in Account |-> 0]]
    /\ maxBorrowable = MaxUint
    /\ interestModel = "base"
    /\ feeCollector = 1
    /\ platformFee = 3000
    /\ vaultBalance = 0
    /\ wallet = Funds
    /\ collected = [c \in Collector |-> 0]
    /\ price \in Prices
    /\ maxBorrowUsd \in [Account -> Credits]
    /\ liquidating = NoLiquidation
    /\ rewards = NewRewards(now, RewardTotal, RewardDuration)

-----------------------------------------------------------------------------
(***************************************************************************)
(* The underlying ERC20: transfers revert beyond the payer's balance.      *)
(***************************************************************************)
\* A balance sheet after amount has gone from one account to another.
Send(balances, from, to, amount) ==
    [[balances EXCEPT ![from] = @ - amount] EXCEPT ![to] = @ + amount]

PayIn(sender, assets) ==
    /\ wallet[sender] >= assets
    /\ wallet' = [wallet EXCEPT ![sender] = @ - assets]
    /\ vaultBalance' = vaultBalance + assets
    /\ UNCHANGED collected

PayOut(receiver, assets) ==
    /\ vaultBalance >= assets
    /\ wallet' = [wallet EXCEPT ![receiver] = @ + assets]
    /\ vaultBalance' = vaultBalance - assets
    /\ UNCHANGED collected

\* _mint and _burn of the vault's own ERC20.
MintShares(receiver, shares) ==
    /\ balanceOf' = [balanceOf EXCEPT ![receiver] = @ + shares]
    /\ totalSupply' = totalSupply + shares

BurnShares(owner, shares) ==
    /\ balanceOf[owner] >= shares
    /\ totalSupply >= shares
    /\ balanceOf' = [balanceOf EXCEPT ![owner] = @ - shares]
    /\ totalSupply' = totalSupply - shares

\* The allowance a withdrawal by another account leaves: the subtraction is
\* unchecked, and an allowance of type(uint256).max is never used up.
SpendAllowance(sender, owner, shares) ==
    allowance' =
        IF sender # owner /\ allowance[owner][sender] # MaxUint
        THEN [allowance EXCEPT ![owner][sender] = Wrap(@ - shares)]
        ELSE allowance

-----------------------------------------------------------------------------
(***************************************************************************)
(* Lenders: deposit, mint, withdraw, redeem.  Interest accrues first.      *)
(* The reward hooks run before the share balances change, and for the      *)
(* caller.                                                                 *)
(***************************************************************************)
HookReward(sender) ==
    rewards' = UpdateReward(rewards, TotalRewardSupply, sender, RewardBalanceOf(sender))

\* The part deposit and mint share, beside the transfer of the assets.
CreditDeposit(sender, receiver, assets, shares) ==
    /\ HookReward(sender)
    /\ MintShares(receiver, shares)
    /\ book' = Accrued
    /\ cashReserves' = cashReserves + assets
    /\ UNCHANGED <<loans, allowance, settings, world>>

DepositAssets(sender, receiver, assets) ==
    LET total  == TotalAssets(Accrued, cashReserves)
        shares == PreviewDeposit(assets, totalSupply, total)
    IN  /\ Convertible(totalSupply, total)
        /\ shares # 0
        /\ CreditDeposit(sender, receiver, assets, shares)

Deposit(sender, receiver, assets) ==
    PayIn(sender, assets) /\ DepositAssets(sender, receiver, assets)

\* What mint takes for a number of shares.
MintAmount(shares) == PreviewMint(shares, totalSupply, TotalAssets(Accrued, cashReserves))

Mint(sender, receiver, shares) ==
    /\ PayIn(sender, MintAmount(shares))
    /\ CreditDeposit(sender, receiver, MintAmount(shares), shares)

\* Mutant of DebitWithdrawal: the cash reserves are not updated afterwards.
DebitWithdrawalKeepsCash(sender, owner, assets, shares) ==
    /\ SpendAllowance(sender, owner, shares)
    /\ cashReserves >= assets
    /\ HookReward(sender)
    /\ BurnShares(owner, shares)
    /\ book' = Accrued
    /\ UNCHANGED <<cashReserves, loans, settings, world>>

\* Mutant of DebitWithdrawal: interest is left to the next function that accrues.
DebitWithdrawalAccruesLater(sender, owner, assets, shares) ==
    /\ SpendAllowance(sender, owner, shares)
    /\ cashReserves >= assets
    /\ HookReward(sender)
    /\ BurnShares(owner, shares)
    /\ cashReserves' = cashReserves - assets
    /\ UNCHANGED <<book, loans, settings, world>>

\* The part withdraw and redeem share, beside the transfer of the assets.
DebitWithdrawal(sender, owner, assets, shares) ==
    /\ SpendAllowance(sender, owner, shares)
    /\ cashReserves >= assets
    /\ HookReward(sender)
    /\ BurnShares(owner, shares)
    /\ book' = Accrued
    /\ cashReserves' = cashReserves - assets
    /\ UNCHANGED <<loans, settings, world>>

WithdrawAssets(sender, owner, assets) ==
    LET total  == TotalAssets(Accrued, cashReserves)
        shares == PreviewWithdraw(assets, totalSupply, total)
    IN  /\ Convertible(totalSupply, total)
        /\ DebitWithdrawal(sender, owner, assets, shares)

Withdraw(sender, receiver, owner, assets) ==
    PayOut(receiver, assets) /\ WithdrawAssets(sender, owner, assets)

\* What redeem pays for a number of shares.
RedeemAmount(shares) == PreviewRedeem(shares, totalSupply, TotalAssets(Accrued, cashReserves))

RedeemShares(sender, owner, shares) ==
    /\ RedeemAmount(shares) # 0
    /\ DebitWithdrawal(sender, owner, RedeemAmount(shares), shares)

Redeem(sender, receiver, owner, shares) ==
    PayOut(receiver, RedeemAmount(shares)) /\ RedeemShares(sender, owner, shares)

\* transfer, transferFrom and approve of the vault's shares: the inherited
\* ERC20, whose subtractions are checked.
Transfer(sender, receiver, shares) ==
    /\ balanceOf[sender] >= shares
    /\ balanceOf' = Send(balanceOf, sender, receiver, shares)
    /\ UNCHANGED <<lending, totalSupply, allowance, settings, token, world, rewards>>

TransferFrom(sender, owner, receiver, shares) ==
    /\ balanceOf[owner] >= shares
    /\ allowance[owner][sender] >= shares
    /\ balanceOf' = Send(balanceOf, owner, receiver, shares)
    /\ allowance' = [allowance EXCEPT ![owner][sender] = @ - shares]
    /\ UNCHANGED <<lending, totalSupply, settings, token, world, rewards>>

Approve(owner, spender, amount) ==
    /\ allowance' = [allowance EXCEPT ![owner][spender] = amount]
    /\ UNCHANGED <<lending, totalSupply, balanceOf, settings, token, world, rewards>>

-----------------------------------------------------------------------------
(***************************************************************************)
(* Borrowers.  The updateReward modifier wraps these functions: inside the *)
(* reward period it accrues interest before their first line, and it       *)
(* settles the account on the balances they leave.                         *)
(***************************************************************************)
WrapReward(account) ==
    rewards' = UpdateReward(rewards, TotalRewardSupply, account, RewardBalanceOf(account)')

\* What the first lines of a function under updateReward read.
OnEntry == IF InRewardPeriod(rewards) THEN Accrued ELSE book

\* Mutant of Borrow: the rate is read after the loan has been added.
BorrowRatesLast(sender, receiver, amount) ==
    LET lent   == [Accrued EXCEPT !.totalBorrows = @ + amount]
        rate   == GetInterestRate(lent, totalBorrowShares)
        shares == (amount * ExpScale) \div rate
    IN  /\ cashReserves >= amount
        /\ OnEntry.totalBorrows + amount <= maxBorrowable
        /\ rate # 0
        /\ borrowed' = [borrowed EXCEPT ![sender] = @ + shares]
        /\ totalBorrowShares' = totalBorrowShares + shares
        /\ cashReserves' = cashReserves - amount
        /\ book' = AccrueInterest(lent, cashReserves - amount)
        /\ PayOut(receiver, amount)
        /\ UNCHANGED <<shareVars, settings, world>>
        /\ IsHealthy(sender)'
        /\ WrapReward(sender)

\* borrow.  The cap is checked before the function itself accrues interest;
\* the health check at the end accrues once more.
Borrow(sender, receiver, amount) ==
    LET rate   == GetInterestRate(Accrued, totalBorrowShares)
        shares == (amount * ExpScale) \div rate
        lent   == [Accrued EXCEPT !.totalBorrows = @ + amount]
    IN  /\ cashReserves >= amount
        /\ OnEntry.totalBorrows + amount <= maxBorrowable
        /\ rate # 0
        /\ borrowed' = [borrowed EXCEPT ![sender] = @ + shares]
        /\ totalBorrowShares' = totalBorrowShares + shares
        /\ cashReserves' = cashReserves - amount
        /\ book' = AccrueInterest(lent, cashReserves - amount)
        /\ PayOut(receiver, amount)
        /\ UNCHANGED <<shareVars, settings, world>>
        /\ IsHealthy(sender)'
        /\ WrapReward(sender)

\* Mutant of SettleLoan: the total is reduced by the amount, not the shares.
SettleLoanMixesUnits(sender, account, assets, shares) ==
    /\ borrowed[account] >= shares
    /\ Accrued.totalBorrows >= assets
    /\ totalBorrowShares >= assets
    /\ PayIn(sender, assets)
    /\ book' = [Accrued EXCEPT !.totalBorrows = @ - assets]
    /\ cashReserves' = cashReserves + assets
    /\ borrowed' = [borrowed EXCEPT ![account] = @ - shares]
    /\ totalBorrowShares' = totalBorrowShares - assets
    /\ UNCHANGED <<shareVars, settings, world>>
    /\ WrapReward(account)

\* Mutant of SettleLoan: giving back more shares than are owed is not refused.
SettleLoanOverpaid(sender, account, assets, shares) ==
    /\ Accrued.totalBorrows >= assets
    /\ PayIn(sender, assets)
    /\ book' = [Accrued EXCEPT !.totalBorrows = @ - assets]
    /\ cashReserves' = cashReserves + assets
    /\ borrowed' = [borrowed EXCEPT ![account] = @ - shares]
    /\ totalBorrowShares' = totalBorrowShares - shares
    /\ UNCHANGED <<shareVars, settings, world>>
    /\ WrapReward(account)

\* The part repay and repayShares share, on an accrued book.
SettleLoan(sender, account, assets, shares) ==
    /\ borrowed[account] >= shares
    /\ Accrued.totalBorrows >= assets
    /\ totalBorrowShares >= shares
    /\ PayIn(sender, assets)
    /\ book' = [Accrued EXCEPT !.totalBorrows = @ - assets]
    /\ cashReserves' = cashReserves + assets
    /\ borrowed' = [borrowed EXCEPT ![account] = @ - shares]
    /\ totalBorrowShares' = totalBorrowShares - shares
    /\ UNCHANGED <<shareVars, settings, world>>
    /\ WrapReward(account)

Repay(sender, account, assets) ==
    LET rate == GetInterestRate(Accrued, totalBorrowShares)
    IN  /\ rate # 0
        /\ SettleLoan(sender, account, assets, MulDivUp(assets, ExpScale, rate))

\* Mutant of RepaySharesAmount: rounds in the borrower's favour.
RepaySharesAmountDown(shares) ==
    LET assets == MulDivDown(shares, GetInterestRate(Accrued, totalBorrowShares), ExpScale)
    IN  IF assets > Accrued.totalBorrows THEN Accrued.totalBorrows ELSE assets

\* What repayShares asks for a number of shares: at most the whole debt.
RepaySharesAmount(shares) ==
    LET assets == MulDivUp(shares, GetInterestRate(Accrued, totalBorrowShares), ExpScale)
    IN  IF assets > Accrued.totalBorrows THEN Accrued.totalBorrows ELSE assets

RepayShares(sender, account, shares) ==
    SettleLoan(sender, account, RepaySharesAmount(shares), shares)

-----------------------------------------------------------------------------
(***************************************************************************)
(* Anyone: the functions that look like getters and accrue interest, the   *)
(* reward functions, and a plain transfer of the asset to the vault.       *)
(***************************************************************************)

\* getBorrowBalance, getDebtBalanceUsd, getDepositBalanceUsd, getInterestRate,
\* totalRewardSupply, rewardBalanceOf, Controller.isHealthy.
Poke ==
    /\ book' = Accrued
    /\ UNCHANGED <<cashReserves, loans, shareVars, settings, token, world, rewards>>

\* getPendingRewards settles its caller, whoever's rewards it reads.
GetPendingRewards(sender, account) ==
    /\ PendingFits(BeforeClaim(rewards, TotalRewardSupply), account)
    /\ HookReward(sender)
    /\ book' = OnEntry
    /\ UNCHANGED <<cashReserves, loans, shareVars, settings, token, world>>

\* The reward token of a market is address(0): claiming only moves counters.
ClaimRewards(sender) ==
    LET r == BeforeClaim(rewards, TotalRewardSupply)
    IN  /\ PendingFits(r, sender)
        /\ rewards' = Claim(r, sender)
        /\ book' = OnEntry
        /\ UNCHANGED <<cashReserves, loans, shareVars, settings, token, world>>

Donate(sender, assets) ==
    /\ PayIn(sender, assets)
    /\ UNCHANGED <<lending, shareVars, settings, world, rewards>>

-----------------------------------------------------------------------------
(***************************************************************************)
(* Liquidation, as far as it touches this market.  Between the first and   *)
(* the last line of Controller.liquidate, the markets it was given are     *)
(* asked for the account's assets and the liquidator is called back; both  *)
(* may call any function.  A liquidation that cannot end reverts: it is a  *)
(* behaviour that stops inside it.                                         *)
(***************************************************************************)

\* Controller.liquidate up to its loop.  isHealthy accrues interest.
LiquidateBegin(sender, account) ==
    /\ liquidating = NoLiquidation
    /\ ~IsHealthy(account)
    /\ liquidating' = [sender |-> sender, account |-> account]
    /\ book' = Accrued
    /\ UNCHANGED <<cashReserves, loans, shareVars, settings, token, rewards>>
    /\ UNCHANGED <<now, price, maxBorrowUsd>>

\* liquidate, called by the controller: shares of the account go to the caller
\* of Controller.liquidate.
Liquidate(shares) ==
    /\ liquidating # NoLiquidation
    /\ balanceOf[liquidating.account] >= shares
    /\ balanceOf' = Send(balanceOf, liquidating.account, liquidating.sender, shares)
    /\ UNCHANGED <<lending, totalSupply, allowance, settings, token, world, rewards>>

\* The final check of Controller.liquidate.
LiquidateEnd ==
    /\ liquidating # NoLiquidation
    /\ IsHealthy(liquidating.account)
    /\ liquidating' = NoLiquidation
    /\ book' = Accrued
    /\ UNCHANGED <<cashReserves, loans, shareVars, settings, token, rewards>>
    /\ UNCHANGED <<now, price, maxBorrowUsd>>

-----------------------------------------------------------------------------
(***************************************************************************)
(* The owner.  None of these functions accrues interest first.             *)
(***************************************************************************)
CollectFee(amount) ==
    /\ amount <= book.collectableFee
    /\ vaultBalance >= amount
    /\ book' = [book EXCEPT !.collectableFee = @ - amount]
    /\ collected' = [collected EXCEPT ![feeCollector] = @ + amount]
    /\ vaultBalance' = vaultBalance - amount
    /\ UNCHANGED <<cashReserves, loans, shareVars, settings, wallet, world, rewards>>

SetInterestModel(model) ==
    /\ interestModel' = model
    /\ UNCHANGED <<maxBorrowable, feeCollector, platformFee>>
    /\ UNCHANGED <<lending, shareVars, token, world, rewards>>

SetFeeCollector(newFeeCollector) ==
    /\ feeCollector' = newFeeCollector
    /\ UNCHANGED <<maxBorrowable, interestModel, platformFee>>
    /\ UNCHANGED <<lending, shareVars, token, world, rewards>>

SetMaxBorrow(newCap) ==
    /\ maxBorrowable' = newCap
    /\ UNCHANGED <<interestModel, feeCollector, platformFee>>
    /\ UNCHANGED <<lending, shareVars, token, world, rewards>>

\* Controller.setPlatformFee
SetPlatformFee(fee) ==
    /\ platformFee' = fee
    /\ UNCHANGED <<maxBorrowable, interestModel, feeCollector>>
    /\ UNCHANGED <<lending, shareVars, token, world, rewards>>

-----------------------------------------------------------------------------
(***************************************************************************)
(* The world: time passes, quotes and collateral values change.            *)
(***************************************************************************)
Tick ==
    /\ now < MaxTime
    /\ now' = now + 1
    /\ UNCHANGED <<lending, shareVars, settings, token, price, maxBorrowUsd, liquidating, rewards>>

Quote(answer) ==
    /\ price' = answer
    /\ UNCHANGED <<lending, shareVars, settings, token, now, maxBorrowUsd, liquidating, rewards>>

ChangeCollateral(account, limit) ==
    /\ maxBorrowUsd' = [maxBorrowUsd EXCEPT ![account] = limit]
    /\ UNCHANGED <<lending, shareVars, settings, token, now, price, liquidating, rewards>>

-----------------------------------------------------------------------------
Named(a) == {a} \cup Peers

LenderStep(a) ==
    \E b, o \in Named(a), x \in Amounts :
        \/ o = a /\ Deposit(a, b, x)
        \/ o = a /\ Mint(a, b, x)
        \/ Withdraw(a, b, o, x)
        \/ Redeem(a, b, o, x)
        \/ o = a /\ Transfer(a, b, x)
        \/ TransferFrom(a, o, b, x)

BorrowerStep(a) ==
    \E b \in Named(a), x \in Amounts :
        \/ Borrow(a, b, x) /\ book'.totalBorrows <= MaxDebt
        \/ Repay(a, b, x)
        \/ RepayShares(a, b, x)

RewardStep(a) ==
    ClaimRewards(a) \/ \E b \in Named(a) : GetPendingRewards(a, b)

AnyoneStep ==
    \/ \E a \in Approvers, b \in Lenders, x \in Approvals : Approve(a, b, x)
    \/ \E a \in Account, x \in Donations : Donate(a, x)
    \/ Poke

LiquidationStep ==
    \/ \E s \in Liquidators, a \in Account : LiquidateBegin(s, a)
    \/ \E x \in Amounts : Liquidate(x)
    \/ LiquidateEnd

OwnerStep ==
    \/ \E x \in Amounts : CollectFee(x)
    \/ \E m \in Models : SetInterestModel(m)
    \/ \E c \in Collector : SetFeeCollector(c)
    \/ \E x \in Caps : SetMaxBorrow(x)
    \/ \E x \in Fees : SetPlatformFee(x)

\* What a transaction of an account does not do.
BlockStep ==
    \/ Tick
    \/ \E x \in Prices : Quote(x)

CollateralStep == \E a \in Account, x \in Credits : ChangeCollateral(a, x)

Next ==
    \/ \E a \in Lenders : LenderStep(a)
    \/ \E a \in Borrowers : BorrowerStep(a)
    \/ \E a \in Claimers : RewardStep(a)
    \/ AnyoneStep
    \/ LiquidationStep
    \/ CollateralStep
    \/ liquidating = NoLiquidation /\ (OwnerStep \/ BlockStep)

Spec == Init /\ [][Next]_vars

-----------------------------------------------------------------------------
(***************************************************************************)
(* Correctness.                                                            *)
(***************************************************************************)

\* Every word of storage holds a natural number, and neither interest nor
\* rewards have been settled past the current block.  In particular none of
\* the checked and unchecked subtractions of the functions goes below zero.
TypeOK ==
    /\ now \in Nat
    /\ book \in Book
    /\ book.lastAccrual <= now
    /\ cashReserves \in Nat
    /\ totalBorrowShares \in Nat
    /\ borrowed \in [Account -> Nat]
    /\ totalSupply \in Nat
    /\ balanceOf \in [Account -> Nat]
    /\ allowance \in [Account -> [Account -> Nat]]
    /\ maxBorrowable \in Nat
    /\ interestModel \in InterestModels
    /\ feeCollector \in Collector
    /\ platformFee \in 0..Bips
    /\ vaultBalance \in Nat
    /\ wallet \in [Account -> Nat]
    /\ collected \in [Collector -> Nat]
    /\ price \in Nat
    /\ maxBorrowUsd \in [Account -> Nat]
    /\ liquidating \in LiquidationCall
    /\ rewards \in RewardsState
    /\ rewards.lastRewardTimestamp <= now

\* totalBorrowShares is the sum of the loan shares the borrowers hold, whatever
\* mix of borrow, repay and repayShares the accounts use: a share that is in
\* one but not in the other is debt nobody can repay, or debt counted twice.
LoanSharesSum == Sum(borrowed, NumAccounts) = totalBorrowShares

\* The cash the vault counts as its own is cash it holds or has paid to the fee
\* collectors.  cashReserves is kept by hand next to the token's own balances,
\* through hooks that run before and after the transfers.
CashAccounted == cashReserves <= vaultBalance + Sum(collected, NumCollectors)

\* No step of anyone lowers the assets behind a vault share while shares exist:
\* every rounding of the ERC4626 conversions, of the interest and of the loan
\* repayments goes the lenders' way.
SharePriceNeverFalls ==
    [][totalSupply > 0 /\ totalSupply' > 0 =>
          TotalAssets(book, cashReserves) * totalSupply'
            <= TotalAssets(book, cashReserves)' * totalSupply]_vars

\* While loan shares exist, what getBorrowBalance asks of the borrowers covers
\* what totalBorrows promises the lenders.
DebtCovered ==
    totalBorrowShares > 0 =>
        Accrued.totalBorrows <= Sum([a \in Account |-> GetBorrowBalance(a)], NumAccounts)

\* repayShares never charges less than the repaid shares' part of the debt, so
\* that it shifts nothing onto the other borrowers; in particular repaying all
\* the shares pays the whole debt, despite the cap on the amount.
RepaySharesPaysFully ==
    \A x \in 0..totalBorrowShares :
        RepaySharesAmount(x) * totalBorrowShares >= x * Accrued.totalBorrows

\* What maxWithdraw reports, from a book that may be stale, is not more than the
\* owner's shares pay for once withdraw has accrued the interest.
MaxWithdrawHonoured ==
    \A o \in Account :
        MaxWithdraw(o) > 0 =>
            PreviewWithdraw(MaxWithdraw(o), totalSupply, TotalAssets(Accrued, cashReserves))
                <= balanceOf[o]

\* A deposit or withdrawal changes the utilization, and with it the rate, only
\* for the time to come: it leaves what is owed at this moment as it was.
LendersDontMoveDebt ==
    [][totalSupply' # totalSupply =>
          /\ Accrued'.totalBorrows = Accrued.totalBorrows
          /\ UNCHANGED loans]_vars

\* The lenders' and the borrowers' accounts behave as those of VaultLedger: what
\* is deposited, withdrawn, lent and repaid changes hands at the price of a
\* share at that moment.  The other lenders lose nothing by it, and the other
\* borrowers no more than the rounding of one loan share.  That the owner of
\* withdrawn shares has agreed is a matter of ApprovedWithdrawals.
Ledger == INSTANCE VaultLedger WITH
    Precision <- ExpScale,
    cash   <- cashReserves,
    owed   <- book.totalBorrows,
    shares <- balanceOf,
    debts  <- borrowed

KeepsLedger == Ledger!Spec

\* claimRewards never counts more as paid than the contract has to give, even
\* when an unchecked subtraction in getPendingRewards wraps.
RewardsWithinTotal == rewards.totalRewardsPaid <= rewards.totalRewards

-----------------------------------------------------------------------------
(***************************************************************************)
(* What the comments and the interface promise and the code does not keep. *)
(***************************************************************************)

\* withdraw and redeem, "limited approvals": whoever burns the shares of another
\* account has been approved for that many.
ApprovedWithdrawals ==
    [][\A sender \in Lenders : \A receiver, owner \in Named(sender) : \A x \in Amounts :
          sender # owner /\ (Withdraw(sender, receiver, owner, x)
                               \/ Redeem(sender, receiver, owner, x))
            => balanceOf[owner] - balanceOf'[owner] <= allowance[owner][sender]]_vars

\* beforeWithdraw, "make sure we have enough assets": a withdrawal that passes
\* the check on cashReserves finds the tokens in the vault.
VaultHoldsReserves == vaultBalance >= cashReserves

\* accrueInterest, "no borrows, no interest": the first loan after a time
\* without loans starts at the borrowed amount.
NoIdleInterest ==
    [][book.totalBorrows = 0 /\ book'.totalBorrows # 0 =>
          book'.totalBorrows = cashReserves - cashReserves']_vars

\* maxRedeem, "total number of underlying shares that can be redeemed": the
\* reserves pay for redeeming that many shares.
MaxRedeemHonoured ==
    \A o \in Account :
        Convertible(totalSupply, TotalAssets(book, cashReserves)) =>
            PreviewRedeem(MaxRedeem(o), totalSupply, TotalAssets(Accrued, cashReserves))
                <= cashReserves
=============================================================================
