------------------------------ MODULE UniswapV3 ------------------------------
(***************************************************************************)
(* assets/UniswapV3.sol: positions of the Uniswap position manager held as *)
(* collateral, a receipt for each, and what they are worth.                *)
(*                                                                         *)
(* The functions that call out (mint, withdraw, liquidate) are several     *)
(* steps of a transaction: this module says what each step does to the     *)
(* contract and to the position manager, and Liquidation orders the steps. *)
(***************************************************************************)
EXTENDS ERC721Enumerable, FixedPointMath, Sums

CONSTANTS
    Vault,          \* the address of the contract
    Coins,          \* the ERC20 tokens of the pools
    PoolCoins,      \* pool -> <<token0, token1>>
    Positions,      \* what the manager's positions(tokenId) returns
    MinDeposit,     \* minDeposit, in USD
    UsdScale,       \* 1e18: precision of an amount times its scale factor
    NoOracle,       \* an unset entry of the mapping oracles
    Q96,            \* 2^96: the unit of the square roots of prices
    Ticks,          \* prices the pools may move to, see tick
    Quotes,         \* coin -> answers its oracle may give
    Scales          \* scale factors the owner sets

Pool == DOMAIN PoolCoins

ASSUME UniswapV3Assumption ==
    /\ Vault \notin Account \cup {NoOne}
    /\ PoolCoins \in [Pool -> Coins \X Coins]
    /\ Positions \in [Token -> [pool : Pool, tickLower : Nat \ {0}, tickUpper : Nat,
                                liquidity : Nat, owed0 : Nat, owed1 : Nat]]
    /\ \A t \in Token : Positions[t].tickLower < Positions[t].tickUpper
    /\ MinDeposit \in Nat
    /\ UsdScale \in Nat \ {0}
    /\ Q96 \in Nat \ {0}
    /\ Ticks \subseteq Nat
    /\ Quotes \in [Coins -> SUBSET Nat]
    /\ \A c \in Coins : NoOracle \notin Quotes[c]
    /\ Scales \subseteq Nat

VARIABLES
    nft,                \* the receipts
    isApprovedForAll,   \* operators each account has approved
    holder,             \* ownerOf at the position manager
    tick,               \* the price of each pool: see PriceInRange
    quote,              \* answer of the oracle set for each coin
    tokenScaleFactor,
    activatedPools,
    locked              \* Lockable's flag

receipts == <<nft, isApprovedForAll>>
prices == <<tick, quote, tokenScaleFactor>>

UniswapV3Type ==
    /\ nft \in NftState
    /\ isApprovedForAll \in [Account -> SUBSET Account]
    /\ holder \in [Token -> Account \cup {Vault}]
    /\ tick \in [Pool -> Ticks]
    /\ quote \in [Coins -> Nat \cup {NoOracle}]
    /\ tokenScaleFactor \in [Coins -> Scales]
    /\ activatedPools \subseteq Pool
    /\ locked \in BOOLEAN

-----------------------------------------------------------------------------
(***************************************************************************)
(* What a position is worth.                                               *)
(***************************************************************************)

\* SqrtPriceMath.getAmount0Delta and getAmount1Delta, rounded down: what the
\* liquidity holds between two prices.
GetAmount0Delta(from, to, liquidity) ==
    MulDivDown(liquidity * Q96, to - from, to) \div from

GetAmount1Delta(from, to, liquidity) == MulDivDown(liquidity, to - from, Q96)

\* The three cases of getPositionTokens: the price that splits the range is
\* the pool's, or the end of the range it is beyond.  A tick is represented by
\* the square root of its price: getSqrtRatioAtTick is strictly increasing, so
\* that ticks compare as their prices do.
PriceInRange(position) ==
    LET poolTick == tick[position.pool]
    IN  IF poolTick < position.tickLower THEN position.tickLower
        ELSE IF poolTick < position.tickUpper THEN poolTick
        ELSE position.tickUpper

\* getPositionTokens and getCollectableTokens, added up.
Amount0(t) ==
    LET p == Positions[t]
    IN  GetAmount0Delta(PriceInRange(p), p.tickUpper, p.liquidity) + p.owed0

Amount1(t) ==
    LET p == Positions[t]
    IN  GetAmount1Delta(p.tickLower, PriceInRange(p), p.liquidity) + p.owed1

CoinValue(coin, amount) ==
    IF amount > 0 THEN amount * tokenScaleFactor[coin] * quote[coin] ELSE 0

\* The call of an oracle that is not set reverts.
Priced(t) ==
    LET coins == PoolCoins[Positions[t].pool]
    IN  /\ Amount0(t) > 0 => quote[coins[1]] # NoOracle
        /\ Amount1(t) > 0 => quote[coins[2]] # NoOracle

GetAssetValueUsd(t) ==
    LET coins == PoolCoins[Positions[t].pool]
    IN  (CoinValue(coins[1], Amount0(t)) + CoinValue(coins[2], Amount1(t)))
            \div UsdScale

\* The loop over the borrower's receipts; a position that has fallen under the
\* minimum does not count.
CollateralPriced(borrower) ==
    \A i \in 0..(BalanceOf(nft, borrower) - 1) :
        Priced(TokenOfOwnerByIndex(nft, borrower, i))

GetCollateralUsd(borrower) ==
    LET value == [i \in 1..BalanceOf(nft, borrower) |->
                     GetAssetValueUsd(TokenOfOwnerByIndex(nft, borrower, i - 1))]
        counted == [i \in DOMAIN value |-> IF value[i] < MinDeposit THEN 0 ELSE value[i]]
    IN  Sum(counted, BalanceOf(nft, borrower))

CollateralFactor == 8000

GetMaxBorrowUsd(borrower) ==
    MulDivDown(GetCollateralUsd(borrower), CollateralFactor, Bips)

-----------------------------------------------------------------------------
(***************************************************************************)
(* Deposits, withdrawals and seizures.                                     *)
(***************************************************************************)

Lock == ~locked /\ locked' = TRUE
Unlock == locked' = FALSE

\* mint, up to the callbacks of the receiver.  The position comes from its
\* current owner, who has let the contract move it (at the manager, which is
\* external: any owner may have).  The contract itself cannot be the receiver:
\* its onERC721Received answers the manager only.
MintPosition(receiver, t) ==
    /\ Lock
    /\ holder[t] # Vault
    /\ Positions[t].pool \in activatedPools
    /\ Priced(t)
    /\ GetAssetValueUsd(t) >= MinDeposit
    /\ holder' = [holder EXCEPT ![t] = Vault]
    /\ nft.ownerOf[t] = NoOne
    /\ nft' = MintToken(nft, receiver, t)
    /\ UNCHANGED <<isApprovedForAll, prices, activatedPools>>

\* The caller of withdraw must be the owner or be approved by it.
MayWithdraw(sender, t) ==
    LET owner == nft.ownerOf[t]
    IN  /\ owner # NoOne
        /\ \/ sender = owner
           \/ sender = nft.getApproved[t]
           \/ sender \in isApprovedForAll[owner]

\* withdraw, up to the callbacks of the receiver: the receipt is burned and
\* the manager moves the position.  Were the contract the receiver, it would be
\* called back and find its lock taken.
WithdrawPosition(sender, receiver, t) ==
    /\ Lock
    /\ MayWithdraw(sender, t)
    /\ nft' = BurnToken(nft, t)
    /\ holder[t] = Vault
    /\ holder' = [holder EXCEPT ![t] = receiver]
    /\ UNCHANGED <<isApprovedForAll, prices, activatedPools>>

\* Mutant of SeizePosition: liquidate does not take the lock.
SeizePositionUnlocked(borrower, liquidator, t) ==
    /\ nft.ownerOf[t] = borrower
    /\ holder[t] = Vault
    /\ holder' = [holder EXCEPT ![t] = liquidator]
    /\ UNCHANGED <<receipts, prices, activatedPools, locked>>

\* liquidate, up to the callback of the liquidator: the position has moved, the
\* receipt is still there.
SeizePosition(borrower, liquidator, t) ==
    /\ Lock
    /\ nft.ownerOf[t] = borrower
    /\ holder[t] = Vault
    /\ holder' = [holder EXCEPT ![t] = liquidator]
    /\ UNCHANGED <<receipts, prices, activatedPools>>

\* Mutant of BurnSeized: the receipt stays.
BurnSeizedForgotten(t) ==
    /\ Unlock
    /\ UNCHANGED <<receipts, holder, prices, activatedPools>>

\* The rest of liquidate.
BurnSeized(t) ==
    /\ nft.ownerOf[t] # NoOne
    /\ nft' = BurnToken(nft, t)
    /\ Unlock
    /\ UNCHANGED <<isApprovedForAll, holder, prices, activatedPools>>

\* approve and setApprovalForAll of the receipts.
ApproveReceipt(sender, to, t) ==
    LET owner == nft.ownerOf[t]
    IN  /\ owner # NoOne
        /\ to # owner
        /\ sender = owner \/ sender \in isApprovedForAll[owner]
        /\ nft' = [nft EXCEPT !.getApproved[t] = to]
        /\ UNCHANGED <<isApprovedForAll, holder, prices, activatedPools, locked>>

ApproveOperator(sender, operator, approved) ==
    /\ operator # sender
    /\ isApprovedForAll' =
          [isApprovedForAll EXCEPT ![sender] =
              IF approved THEN @ \cup {operator} ELSE @ \ {operator}]
    /\ UNCHANGED <<nft, holder, prices, activatedPools, locked>>

\* A transfer at the position manager that does not go through the contract;
\* to may be the contract, which then holds a position without a receipt.
MovePosition(to, t) ==
    /\ holder[t] # Vault
    /\ holder' = [holder EXCEPT ![t] = to]
    /\ UNCHANGED <<receipts, prices, activatedPools, locked>>

-----------------------------------------------------------------------------
(***************************************************************************)
(* The owner, and the prices.                                              *)
(***************************************************************************)

SetScaleFactor(coin, factor) ==
    /\ tokenScaleFactor' = [tokenScaleFactor EXCEPT ![coin] = factor]
    /\ UNCHANGED <<receipts, holder, tick, quote, activatedPools, locked>>

\* The new oracle may be the zero address; otherwise it has an answer.
SetOracle(coin, answer) ==
    /\ quote' = [quote EXCEPT ![coin] = answer]
    /\ UNCHANGED <<receipts, holder, tick, tokenScaleFactor, activatedPools, locked>>

\* activatePools: the list reverts as a whole.
ActivatePools(pools) ==
    /\ pools \cap activatedPools = {}
    /\ \A pool \in pools : \A i \in 1..2 :
          /\ quote[PoolCoins[pool][i]] # NoOracle
          /\ tokenScaleFactor[PoolCoins[pool][i]] # 0
    /\ activatedPools' = activatedPools \cup pools
    /\ UNCHANGED <<receipts, holder, prices, locked>>

PausePool(pool) ==
    /\ pool \in activatedPools
    /\ activatedPools' = activatedPools \ {pool}
    /\ UNCHANGED <<receipts, holder, prices, locked>>

\* Anyone's swap in the pool.
Swap(pool, to) ==
    /\ tick' = [tick EXCEPT ![pool] = to]
    /\ UNCHANGED <<receipts, holder, quote, tokenScaleFactor, activatedPools, locked>>

\* A new round of an oracle.
Quote(coin, answer) ==
    /\ quote[coin] # NoOracle
    /\ quote' = [quote EXCEPT ![coin] = answer]
    /\ UNCHANGED <<receipts, holder, tick, tokenScaleFactor, activatedPools, locked>>
==============================================================================
