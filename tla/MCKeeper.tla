------------------------------ MODULE MCKeeper ------------------------------
(***************************************************************************)
(* A borrower with one position, and the keeper.                           *)
(***************************************************************************)
EXTENDS Keeper

CONSTANTS alice, pool, usdc, weth

MCPoolCoins == [p \in {pool} |-> <<usdc, weth>>]

MCPositions ==
    <<[pool |-> pool, tickLower |-> 8, tickUpper |-> 10, liquidity |-> 12,
       owed0 |-> 0, owed1 |-> 0]>>

MCQuotes == [c \in {usdc, weth} |-> IF c = usdc THEN {1} ELSE {2}]

MCHolder == <<alice>>

MCShares == [a \in {alice, keeper} |-> 0]
=============================================================================
