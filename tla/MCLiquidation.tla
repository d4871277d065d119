---------------------------- MODULE MCLiquidation ----------------------------
(***************************************************************************)
(* One pool with a stable and a volatile coin, and two positions of one    *)
(* account: one whose range the pool is below or above, and which may fall *)
(* under the minimum deposit, and one whose range it is in or above.       *)
(***************************************************************************)
EXTENDS Liquidation

CONSTANTS alice, bob, pool, usdc, weth

MCPoolCoins == [p \in {pool} |-> <<usdc, weth>>]

Position(lower, upper, liquidity, owed0) ==
    [pool |-> pool, tickLower |-> lower, tickUpper |-> upper,
     liquidity |-> liquidity, owed0 |-> owed0, owed1 |-> 0]

MCPositions == <<Position(10, 11, 20, 0), Position(8, 11, 12, 0)>>

MCQuotes == [c \in {usdc, weth} |-> IF c = usdc THEN {1} ELSE {2}]

MCHolder == <<alice, alice>>

MCShares == [a \in {alice, bob} |-> IF a = alice THEN 1 ELSE 0]
==============================================================================
