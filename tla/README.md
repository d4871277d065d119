# Merkle lending contracts: a TLA+ verification project

The repository holds a lending protocol for the EVM (Solidity 0.7, contracts in
`src/src/`, tests in `src/test/`). Lenders deposit an asset into a vault, borrowers
take loans from it against collateral held elsewhere, a controller decides who is
healthy and lets anyone liquidate who is not. This directory holds TLA+ models of the
contracts, TLC configurations that check them on small instances, and TLAPS proofs of
the properties for every instance.

## 1. Inventory

| Component | State | Operations | Talks to |
|---|---|---|---|
| `libraries/FixedPointMathLib.sol` | none | `mulDivDown`, `mulDivUp` | everything |
| `interest/BaseInterestModel.sol` | none | `getInterestRate(cash, borrows)` | called by MToken |
| `generics/ERC4626.sol` | share supply and balances (ERC20) | `deposit`, `mint`, `withdraw`, `redeem`, conversions, previews | hooks of MToken, asset ERC20 |
| `markets/MToken.sol` | `totalBorrows`, `totalBorrowShares`, `borrowed`, `cashReserves`, `collectableFee`, `lastAccrualOfInterest`, cap, model, collector | `borrow`, `repay`, `repayShares`, `liquidate`, `accrueInterest`, owner setters, `collectFee`, getters that accrue | ERC4626, Rewards, Controller, interest model, oracle |
| `rewards/Rewards.sol` | schedule, `rewardsPerShare`, `lastRewardTimestamp`, per-account `UserInfo`, `totalRewardsPaid` | `updateReward` modifier, `claimRewards`, `getPendingRewards`, two schedule setters | supplied balances of the inheriting contract, reward ERC20 |
| `Controller.sol` | registered markets, platform fee, lock | `isHealthy`, `getMaxBorrowUsd`, `liquidate` with a callback to the liquidator, owner setters | every market |
| `assets/UniswapV3.sol` | positions held as collateral, activated pools, oracles, scale factors, lock | `mint`, `onERC721Received`, `withdraw`, `liquidate`, valuation, owner setters | Controller, position manager, pools, oracles, receivers |
| `interfaces/ERC721Enumerable.sol` | receipts, arrays of all and of each owner's receipts | mint, burn, enumeration by index | inherited by UniswapV3 |
| `periphery/VaultRouter.sol` | router fee and its recipient, pause flag | `deposit`, `withdraw`, `mint`, `redeem` through the router, owner setters | vaults, asset ERC20 |
| `token/Merkle.sol` | mint allowances | `mint`, `setMintAllowance` | ERC20, reward token of Rewards |
| `utils/Lockable.sol`, `Multicall.sol` | lock flag | `lock` modifier, delegated calls | MToken, UniswapV3, Controller |

A transaction is atomic, so what is hard here is not threads. It is:

* **roundings**: six conversions, two rates and two loan functions round in different
  directions, over long sequences of calls by several accounts;
* **ordering inside a call**: interest is accrued before, after and sometimes twice in a
  function; the reward modifier reads balances before or after the function it wraps;
  the cap of `borrow` reads the book before it is accrued;
* **stale values**: views report from the book of the last accrual, `lastAccrual` is not
  advanced while there are no loans, setters change a rate for time already elapsed;
* **state kept twice**: `cashReserves` beside the token balance, `totalBorrowShares`
  beside the accounts' shares, `totalRewardsPaid` beside the transfers;
* **unchecked arithmetic**: solc 0.7 wraps, in the rewards and in the allowances;
* **callbacks**: deposits, withdrawals and liquidations call contracts of their caller
  before their last check, each under a lock of its own contract only, so that the
  functions of the other contracts can run on a half-finished state;
* **failure half way**: a liquidator that fails, or a reward transfer that finds too few
  tokens, undoes a transaction that had already seized, locked or counted;
* **progress**: liquidation is open to anyone, but needs a free lock, an unhealthy account
  and a healthy one at its end;
* **swap and pop**: the arrays that enumerate receipts, from which collateral is added
  up, stay dense by moving entries and rewriting their indices.

What makes the parts correct: the share price never falls; the ledgers agree with each
other and with the tokens; borrowers together owe what lenders are promised; repaying
shares pays for them; lenders cannot change past interest; views promise no more than
the functions keep; rewards paid come out of the rewards given, each second once; every
receipt stands for a position the contract holds and is counted once; no transaction
makes a healthy account unhealthy, save by moving a pool or by the rounding of a loan
share; no position is seized from an account that is healthy but for its own running
withdrawal; whoever is unhealthy can be liquidated; the router keeps nothing that passes
through it; shares are burned with their owner's consent (which the code does not keep).
`PROJECT.json` lists each hazard with its line and the properties that watch it.

## 2. Modules

| Module | Models |
|---|---|
| `FixedPointMath` | `mulDivDown`, `mulDivUp` |
| `InterestModel` | the two-slope base model; a flat model stands for any replacement by the owner |
| `ERC4626` | conversions and previews |
| `Rewards` | storage of `Rewards.sol` and the operators that compute its next state |
| `StakedRewards` | `Rewards` under the test suite's `MockRewarder`: stakes, and the Merkle token with its minter |
| `MToken` | the market: ERC4626 with MToken's hooks, loans, interest, rewards, seizure of shares, owner, world |
| `VaultLedger` | abstract specification of a lending vault: what lenders and borrowers are promised, whatever the formulas; `MToken` implements it |
| `VaultRouter`, `MCVaultRouter` | the router on top of `MToken`, and holdings for its run |
| `Sums` | sum of a mapping, as a recursive function so that it can be proved about |
| `MCMToken` | initial holdings for the runs of `MToken` |
| `ERC721Enumerable` | the receipts: owners, approvals, and the four mappings and arrays that enumerate them |
| `UniswapV3` | the collateral contract: value of positions, the parts of `mint`, `withdraw` and `liquidate` before and after their callbacks, owner setters, prices |
| `Liquidation` | the controller over `UniswapV3` and the debt market's loans and vault shares: health, transactions with callbacks, liquidation |
| `Keeper`, `MCKeeper` | `Liquidation` with reverts and an account that keeps liquidating; the model with fairness |
| `MCLiquidation` | a pool, two positions and their holder for the runs of `Liquidation` |
| `ArithmeticProofs`, `RewardsProofs`, `MTokenProofs`, `MTokenRoundingProofs`, `VaultRouterProofs`, `StakedRewardsProofs`, `EnumerableProofs`, `LiquidationProofs` | proofs, section 5 |

Composition follows inheritance: `MToken` EXTENDS `ERC4626`, `InterestModel` and
`Rewards` as the contract inherits from or calls them, `StakedRewards` EXTENDS `Rewards`,
`UniswapV3` EXTENDS `ERC721Enumerable`, and `Liquidation` puts the controller on top.
`VaultRouter` EXTENDS `MToken` and `Keeper` EXTENDS `Liquidation`. The market and the
controller with its collateral are two models that overlap. `MToken` has all of the market,
and the controller's health check, fee and liquidation, with the collateral's value as a
limit that changes at any time. `Liquidation` has all of the collateral, and of the market
what bears on health and seizure: the loans with their loan shares and roundings, so that
one account's call can raise another's debt, and the vault shares, which the market's turn
of `Controller.liquidate` takes under no lock. Left to `MToken` are cash, cap, payments and
vault conversions; in `Liquidation` they never make a call revert, which only adds
behaviours.

How state and actions of the market and the rewards correspond to the code:

* `book` is the record of the three words `accrueInterest` writes (`totalBorrows`,
  `collectableFee`, `lastAccrualOfInterest`). `AccrueInterest(b, cash)` is the function
  that computes the next book, because several functions accrue more than once around
  their own updates; `Accrued` is the book the next accruing function will find.
* Each external function is one action, with its hooks, modifier and transfers inside:
  `Deposit`/`Mint` share `CreditDeposit`, `Withdraw`/`Redeem` share `DebitWithdrawal`,
  `Repay`/`RepayShares` share `SettleLoan`. The transfer of the asset stands beside them,
  so that the router, for which the asset takes another way, uses the same definitions.
  Every `require` is a conjunct. `Borrow` accrues on entry, lends, accrues again in the
  health check and settles rewards on the result. `Poke` stands for all getters that
  accrue.
* `HookReward` is the modifier around the empty bodies of the hooks (the caller is
  settled on the balance *before* its shares change), `WrapReward` the modifier around a
  function (settled on the balance it leaves). `OnEntry` is the book as the first line
  of a wrapped function reads it.
* The Controller appears as `IsHealthy` and `platformFee`; the collateral markets as
  `maxBorrowUsd`, a limit per account that changes at any time (`ChangeCollateral`);
  the oracle as `price` (`Quote`). The asset's ERC20 is external: `PayIn`, `PayOut`.
* `Controller.liquidate` is the one transaction that takes several actions of `MToken`:
  `LiquidateBegin` (the first check), `Liquidate` (the market's turn of the loop, which moves
  shares to the caller; any number of times), and `LiquidateEnd`. In between, markets of the
  caller's choosing and the liquidator run, so that every function of every account may;
  only the owner, the clock and the oracle wait. `liquidating` is the open call, of which
  the controller's lock allows one.
* `Ledger` is `VaultLedger` with the refinement mapping `cash <- cashReserves`,
  `owed <- book.totalBorrows`, `shares <- balanceOf`, `debts <- borrowed`. The totals of the
  contract are not mapped: the ledger takes the sums of the accounts, so that the
  implementation also depends on the contract's totals being right.
* `VaultRouter`: the router is an account of the asset and of the vault. A route is one
  action: `PayThrough` (pull, fee, approve, the vault takes) beside `DepositAssets` or
  `CreditDeposit`, and `WithdrawAssets` or `RedeemShares` beside `ForwardFromVault`. The
  vault sees the router as the caller, in its allowances and its reward hooks. Limits come
  from `MaxWithdraw`, `MaxRedeem` and `PreviewMint` on the book as it is stored.
* `StakedRewards`: `rewardBalance` is the contract's balance of the Merkle token, filled by
  `MintReward` under `mintAllowance`; minting to others leaves the contract as it is.
* Operators marked "Mutant of X" are wrong versions of X; they show that the
  properties notice (PROJECT.json, `mutants`). No specification uses them.

How those of the collateral and the controller do:

* `nft` is the storage of the receipts; `MintToken` and `BurnToken` are `_mint` and
  `_burn` with their `_beforeTokenTransfer`. Entries past an account's balance read 0, as
  unset storage does. Arrays count from 0 in the mapping `ownedTokens` as in the code;
  the sequence `allTokens` counts from 1.
* `holder` is the owner of a position at the position manager, which is external, and
  `Positions` what the manager reports of it. Liquidity and fees of a position do not
  change; the price does, in every pool at any time, also within a transaction.
* `mint`, `withdraw`, `UniswapV3.liquidate` and `Controller.liquidate` call other
  contracts. Each is two actions: the part up to the call (`Mint`, `OnERC721Received`,
  `Withdraw`, `Seize`, `Liquidate`) pushes an open call on `calls`, the part after it
  (`MintEnd`, `WithdrawEnd`, `SeizeEnd`, `LiquidateEnd`) pops it. In between, if the account
  called back has code (`Contracts`), it and contracts it calls may start any function
  (`MayCall`). Functions with two callbacks in a row (`onERC721Received`, then the
  protocol's own) have one interval for both: nothing happens between them.
* `Controller.liquidate` loops over markets its caller names, and any address will do:
  code of the caller's choosing may run between two seizures. `Seize` is the turn of the
  loop for the collateral contract, which takes that contract's lock; `SeizeShares` the turn
  for the debt market, which takes none and calls nobody. Both are taken any number of
  times.
* A call that reverts has no effect, so it is a step not taken. A transaction that cannot
  end corresponds to a revert of the whole; the model stops inside it. Properties of
  committed states are therefore about `calls = <<>>`; the others hold at every step.
* `keep` is a history variable: the accounts the running transaction must leave healthy,
  because they were healthy when it began and had approved nobody. It is empty once a
  price moves inside the transaction; an account leaves it by approving someone, and when
  a call raises its debt by rounding (`Burdened`; the borrower of a loan stays, as its own
  health is checked).
* `locked` and `controllerLocked` are the flags of the two `Lockable` contracts.
* `loans` is the record of `totalBorrows`, `totalBorrowShares` and `borrowed`, from which
  `getTotalBorrowUsd` follows by the market's conversions at a constant quote `LoanPrice`.
  `Borrow`, `Repay` and `RepayShares` round as the code does: a loan below one share issues
  none and passes the borrower's check without collateral. Interest accrues between
  transactions (`AccrueInterest`), by any amount; the interest of a time without loans, which
  the first loan meets within its own call, is a parameter of `Borrow`. `vaultShares` is the
  market's `balanceOf`, changed by `TransferShares` and `SeizeShares`.
* `Keeper` adds `before`, what the running transaction found, and `Revert`, which restores
  it: a failed `require`, a callback that fails (`liquidate` turns it into a revert of its
  own), or the end of the gas. The keeper's transaction is `KeeperLiquidates`, then seizures
  as it likes, `KeeperRepays` until the account is healthy, and `KeeperEnds`.
* `GetAmount0Delta` and `GetAmount1Delta` are the formulas of `SqrtPriceMath`, with their
  divisions. A tick is represented by its square root price in units of 1/`Q96`:
  `getSqrtRatioAtTick` is strictly increasing, so ticks compare as these do, and its table
  of constants is left out.

Assumptions on the market: the platform fee is at most 100% (`EnvironmentAssumption`; the
setter does not check it), and so is the router's fee (`RouterAssumption`); the router is
nobody's account, starts empty, and is sent nothing outside its functions
(`RouterApartAssumption`); the market is registered with the controller; the asset has no
transfer hooks or fees, so the lock never blocks; the vault itself holds no shares; amounts
stay far below 256 bits, except where the code relies on wrapping (allowances, rewards),
where `Wrap` reduces modulo `MaxUint + 1`; a market's reward token is `address(0)`, so its
claims move counters only. On the collateral: a position has a non-empty tick range; an
oracle that is set answers; the quote of the borrowed asset does not change; holders may
have let the contract move their positions at the manager; the contract is never paused,
since nothing in it calls `_pause`.

## 3. Runs

Passing runs:

| Run | Instance | Shows |
|---|---|---|
| `lending` | 1 lender, 2 borrowers, 2 periods, `ExpScale` 2 | `KeepsLedger`, `LoanSharesSum`, `DebtCovered`, `RepaySharesPaysFully`, `SharePriceNeverFalls`, `LendersDontMoveDebt`, `TypeOK` under every interleaving of loans and deposits |
| `market` | owner, oracle, collateral, gifts, reward claims and liquidations beside the loans | `CashAccounted`, `RewardsWithinTotal` |
| `third_party` | calls that name another account as receiver, owner, debtor; the router with and without fee; a model of 400% so that interest is pending while cash is left | `KeepsLedger`, `CashAccounted`, `MaxWithdrawHonoured`, `RouterKeepsNothing`, `RouterTypeOK` |
| `rewards` | 2 stakers, schedule moved before the start, time past the end, reward token minted late, in part or too much | `PaidFromTotal`, `EachSecondRewardedOnce`, `TypeOK` |
| `liquidation` | 2 accounts, one a contract that can be approved, 2 positions, 2 prices of the pool, loans of 1, interest of 1, a vault share | `EnumerationExact`, `ReceiptsBacked`, `SolvencyKept`, `HealthyNotSeized`, `TypeOK` under every nesting of callbacks |
| `keeper` | a borrower that is a contract, a keeper, 1 position, 2 prices of the pool | `UnhealthyLiquidated` under fairness |

Runs that end in a counterexample, each a disagreement between the code and what its
comments, interface or tests say (quoted in PROJECT.json, `findings`):

| Run | What TLC shows |
|---|---|
| `fee_reserves` | `collectFee` pays tokens out without touching `cashReserves`; afterwards the reserves check admits withdrawals the vault cannot pay |
| `idle_interest` | after a time without loans, the first loan is charged interest for that time |
| `stale_redeem` | `maxRedeem` reports shares whose redemption reverts once interest accrues |
| `claim_again` | `owedRewards == 0` is a comparison: claimed rewards stay pending |
| `unapproved_withdrawal` | the allowance left by a withdrawal wraps: a caller burns more of another account's shares than it was approved for |
| `withdraw_owner` | `withdraw` checks the health of its caller; an approved caller's withdrawal returns with the owner unhealthy |

Bounds. `MaxTime` caps the timestamps: one or two periods of interest are enough for a rate
above one, a second accrual on an accrued book, and the end of a reward period to pass.
`MaxSupply` caps the Merkle tokens at more than the total rewards. `MaxDebt` caps borrowing
only in `MToken` (repaying and interest are free), and interest too in `Liquidation`.
`MaxOwed` caps the one reward counter that grows without bound. `SecondsPerYear` is 1 and
`ExpScale` small so that a period earns visible interest and each rounding differs from its
opposite; with the real scales the roundings would need amounts TLC cannot enumerate.
`MaxUint` is small where allowances or rewards should wrap. `Lenders`, `Borrowers`,
`Claimers`, `Liquidators`, `Approvers` and `Peers` say which account takes which role, so
that a run spends its states on its own question. In `third_party` the flat model makes a
period's interest visible on a loan of one while the reserves are not empty, so that
`maxWithdraw` and `previewMint` are read on stale books in which they promise something;
the router is the third account, its fee is 0 or half, limits lie on both sides of what a
route returns, and expiries on both sides of the clock. No symmetry is used: the roles and
holdings of the accounts differ.

In the runs of `Liquidation`, two receipts are the least for which removal moves an entry
in both arrays; one account without and one with code give every pair of caller and
callee that matters to the locks, and a contract calls back into any function, its own
liquidation included. The depth of `calls` needs no bound: the two locks allow at most
one open call of the collateral contract and one of the controller, in either order.
`Ticks` put the pool below and above the first position's range, and inside and above the
second's; the first position's value lies on both sides of `MinDeposit`. `Loans`, `Interests`
and `MaxDebt` allow a debt that either position covers, one that only the larger covers, one
that neither covers once the price has changed, and, with `ExpScale` 1, a loan that issues no
share because interest has raised the rate above it. `Shares` lets the one vault share be
seized or sent on. The owner may unset the oracle of `OracleCoins`, after which health cannot
be computed.

Fairness. The contracts act only when called, and for most of them nobody is obliged to
call. The exception is liquidation, on whose happening the lenders rely and which anyone
may perform. `KeeperSpec` assumes:

* weak fairness of `Revert`: a transaction does not run forever, because its gas ends; it
  commits or is reverted;
* strong fairness of `KeeperLiquidates`: a keeper watches, and its transaction gets into a
  block if it could be included again and again (it is disabled while another transaction
  runs, hence strong);
* weak fairness of the keeper's own next steps, since it wants its transaction to finish.

Nothing is assumed of the borrower: it may move collateral, call back, revert or act
between any two transactions. The runs do not check for deadlock because the market stops
when the clock reaches `MaxTime`, and because a transaction that would revert stops inside.

## 4. Properties in words

* `LoanSharesSum`: the total of loan shares is the sum of the accounts' shares.
* `KeepsLedger`: the market implements `VaultLedger`: deposits pay at least the price of
  their shares and withdrawals take at most theirs, interest included; a loan makes no loan
  share worth less, and the borrower answers for all of it but less than one loan share at a
  rate known to one part in `expScale`; a repayment is credited with less than one loan share
  more than it pays. It says nothing about who calls: consent is `ApprovedWithdrawals`.
* `ApprovedWithdrawals` (violated): who burns another account's shares has been approved for
  that many.
* `RouterKeepsNothing`: after each call the router holds no assets, no shares and leaves the
  vault no allowance, although `mint` pulls what a stale preview says.
* `CashAccounted`: cash counted is cash held or paid out as fees.
* `SharePriceNeverFalls`: no step lowers assets per vault share.
* `DebtCovered`: the borrowers' balances add up to at least the debt.
* `RepaySharesPaysFully`: repaid shares pay their part of the debt, despite the cap.
* `LendersDontMoveDebt`: deposits and withdrawals do not change the debt of the moment.
* `MaxWithdrawHonoured`: the owner's shares pay for what `maxWithdraw` reports. (The
  vault's tokens may not: see `fee_reserves`.)
* `RewardsWithinTotal`, `PaidFromTotal`: claims are capped and counted exactly, also when
  the contract is funded late: a claim that cannot be paid is not counted.
* `EachSecondRewardedOnce`: a share never earns more than the emission to date.
* `EnumerationExact`: the arrays list each account's receipts, and all receipts, exactly
  once, and the indices agree, so that collateral is neither missed nor counted twice.
* `ReceiptsBacked`: the position of a receipt is in the contract, except while the
  receipt's own seizure is calling the liquidator. (The converse fails by design of the
  position manager: a plain transfer leaves a position in the contract without receipt.)
* `SolvencyKept`: no transaction, with any callbacks, ends with an account unhealthy that
  was healthy and had approved nobody, unless a price moved, or another's loan or repayment
  raised the account's debt by rounding. That exception is real: with 3 owed on 1 share a
  loan of 1 issues no share, and all of it is added to what that share asks. `KeepsLedger`
  bounds it by the worth of one loan share.
* `HealthyNotSeized`: such an account is liquidated only from within a withdrawal of its own,
  which makes it look unhealthy until the callback returns, and no position is taken from it
  there: the collateral's lock keeps seizures out. Its vault shares may be taken: the
  market's `liquidate` takes no lock.
* `UnhealthyLiquidated`: an account found unhealthy between transactions is, at some later
  time between transactions, not unhealthy.

## 5. Proofs

Every property of the passing runs except `UnhealthyLiquidated` is also a theorem, for any
number of accounts, collectors, positions and pools, any amounts, scales, rates, fees and
prices, from the named assumptions only (`RewardsAssumption`, `FlatRateAssumption`,
`MTokenAssumption`, `EnvironmentAssumption`, `RouterAssumption`, `RouterApartAssumption`,
`StakedRewardsAssumption`, `ERC721Assumption`, `UniswapV3Assumption`,
`LiquidationAssumption`). The model's bounds only disable steps, so the theorems hold for
any value of them. `RouterApartAssumption` says that the router's account starts empty,
calls the vault in its four routes only and is not itself named as receiver, owner or fee
recipient: whoever names it gives it shares or assets, and nothing in the contract
prevents that.

* `ArithmeticProofs`: the bounds of the two rounding primitives, comparison and
  cancellation of products, and how `Sum` reacts to an assignment. Induction is by least
  counterexample (`NatMin`), since the provers do not instantiate induction schemes.
* `RewardsProofs`: the modifier and `claimRewards` keep the storage well formed; the cap
  survives wrapping because a wrapped number is never larger than the number.
* `MTokenProofs`: `TypeCorrect`, with one lemma per function. `TypeOK` is inductive as it
  stands: `lastAccrual <= now` makes elapsed times non-negative and `platformFee <= 100%`
  the lenders' part of the interest. `NextCases` restates `Next` over arbitrary accounts
  and amounts, which the later proofs use for their case analysis. `LoanSharesSum`,
  `CashAccounted` and `RewardsWithinTotal` are inductive relative to `TypeOK`, and so is
  `SharesSum` (the vault shares add up to `totalSupply`), which the ERC20 guarantees and
  the refinement uses as a lemma. `LendingMove` is what the four functions of lenders come
  down to, wherever the tokens come from or go to, so that the router's proofs reuse its
  lemmas.
* `MTokenRoundingProofs`: `RepaySharesPaysFully`, `MaxWithdrawHonoured` and (with
  `LoanSharesSum`) `DebtCovered` follow from `TypeOK` by arithmetic on roundings.
  `FairDeposit` and `FairWithdrawal` say that an amount and a number of shares are rounded
  the vault's way against the accrued total; `DepositFair` and `WithdrawalFair` show it of
  each conversion, and `SharePriceNeverFalls` follows because the accrued total is no
  smaller than the stored one. `LendersDontMoveDebt` rests on accrual being idempotent
  within a block (`AccrueOnce`).
* The refinement `LedgerRefined` (`Spec => KeepsLedger`) is in the same module. Its invariant
  `LedgerInv` is `TypeOK`, `LoanSharesSum` and `SharesSum`: the ledger divides by sums of
  shares, the contract by totals it keeps by hand. Each function is then one abstract step.
  `borrow` rounds loan shares down at a rate that is rounded up, so no loan share loses, and
  the two roundings together cost less than one share at a rate exact to one part in
  `expScale` (`WithinOneShare`);
  `repay` rounds them up at that rate, and so settles less than one share too many
  (`SettlementFair`); getters that accrue are `Interest`; fees, settings, prices and rewards
  are invisible.
* `VaultRouterProofs`: the invariant `RouterInv` adds to `RouterTypeOK` and
  `RouterKeepsNothing` that the fee recipient and the sender of an open liquidation are not
  the router; without these the fee, or seized shares, would stay with it. `deposit` approves
  what it asks the vault to take. `mint` pulls `previewMint` of a stale book and approves
  that less the fee, while the vault takes the price after the accrual, which is no smaller
  (`PreviewMintMono`): it succeeds only if the fee is zero and both prices agree. `Passes`
  says that a route is a fair deposit or withdrawal that leaves the router nothing;
  from it, `RouterMarketCorrect`, `RouterLedgerRefined` and `RouterSharePriceCorrect` carry
  the theorems about the market over to the market with the router.
* `StakedRewardsProofs`: the invariant `Inv` adds to the properties that the clock is
  past zero and that no update precedes the start;
  without the last, moving the schedule could reward seconds twice. That a payment is not
  wrapped when it is counted follows from the supply of the token fitting a word.
* `EnumerableProofs`: `MintFields` and `BurnFields` say what a mint and a burn leave in
  each word, the swaps included; from these, `MintEnumerates` and `BurnEnumerates` show
  that the enumeration stays exact. The free slot of a mint exists because an account
  that does not own a token owns fewer than all of them.
* `LiquidationProofs`: the inductive invariant is `TypeOK /\ EnumerationExact`; each needs
  the other, because swap and pop write at indices read from storage, which are in range
  only if the enumeration was exact. `ReceiptsBacked` is then inductive relative to it: a
  seizure opens its call in the step that moves the position and burns the receipt in the
  step that closes it.
* `SolvencyCorrect` and `HealthyNotSeizedCorrect`, in the same module, need more than what
  they state: within a transaction an account of `keep` may well be unhealthy. `SolvencyInv`
  says when. An account of `keep` has approved nobody, and is healthy unless one of the open
  calls is a withdrawal of its own; one open call at most holds the lock of the collateral
  contract; a liquidation of an account of `keep` lies above such a withdrawal in the stack;
  and a seizure is of a receipt of its account, which is not in `keep`. So the liquidation
  that a callback opens against a withdrawing account finds the lock taken and cannot seize,
  and the withdrawal checks the account before it gives the lock back. `Unapproved`, that a
  receipt which does not exist has no approval left, is needed because the same token may
  come back to an account that relies on having approved nobody. `HealthLocal` is the frame:
  the health of an account depends on its own receipts, its debt and the prices only; a call
  of the market that raises the debt of others takes them out of `keep`, so for those that
  stay the debt has not grown. TLC
  checked the parts of the invariant on the `liquidation` run before the proof.

Only model-checked: `UnhealthyLiquidated`, that each property fails for the mutants, and the
six counterexamples. `UnhealthyLiquidated` is liveness under fairness, which is out of the
prover's reach and stays with TLC, as would what recursive operators compute.

## 6. Plan

Done: the market with liquidation of its shares, its abstract ledger, the rewards with their
token, the router, the controller with the Uniswap V3 collateral, the receipts, the
progress of liquidation, and proofs of every safety property that the passing runs check.
Left, in this order:

1. **Reverts.** The safety theorems about `Liquidation` hold of transactions that succeed or
   stop; `Keeper` also reverts them. To prove: what a revert restores satisfies `SolvencyInv`,
   and no lock is taken between transactions, the safety half of `UnhealthyLiquidated`.
2. **Rewards of an account.** What lenders and borrowers together can have pending in a
   market, against the emission to date, as `EachSecondRewardedOnce` does for one share.

## 7. Not modelled

`setDisabledMarket` writes a flag that nothing reads. The market's own lock: its asset has
no transfer hooks, so no call finds it taken. `Multicall` delegates to functions that are
modelled one by one and adds no state: what it does is a sequence of steps that the models
allow anyway. The unused parts of `FixedPointMathLib` (`rpow`, `sqrt`, WAD wrappers),
the table that turns ticks into prices, byte decoding, deployment scripts, formatting and
events have no protocol state. Changes of a position's liquidity and fees happen at the
position manager, which does not let the contract's positions be changed by others, except
that anyone may add liquidity; that only raises its value. Prices from oracles have no
age: a quote is any value at any time. What an account of a market should earn in rewards
is said nowhere, so no property states it; the hooks that decide it are modelled.

`src/lib/` holds vendored dependencies of the build: Chainlink (with its Go node and
generated bindings, by far the largest part of the repository), OpenZeppelin, Uniswap and
forge-std. They are other projects' programs. The functions of OpenZeppelin's ERC20 and
ERC721 and of Uniswap's `SqrtPriceMath` that the contracts inherit or call are modelled from
their source; the position manager, the pools and the price feeds, which are other contracts
on the chain, from how the contracts use them. The elapsed time of rewards is measured past
the end of the period (`Rewards.sol:130`): `AdvanceRewards` does the same, and
`EachSecondRewardedOnce` bounds rewards by the clock, not by the end.
