------------------------------- MODULE ERC4626 -------------------------------
(***************************************************************************)
(* The accounting of generics/ERC4626.sol: conversions between an amount   *)
(* of the underlying asset and vault shares, given the share supply and    *)
(* the vault's total assets.  Each one rounds in the vault's favour.       *)
(***************************************************************************)
EXTENDS FixedPointMath

\* Amounts can be converted to shares: with shares outstanding and no assets
\* left, the division by totalAssets() reverts.
Convertible(supply, total) == supply = 0 \/ total > 0

ConvertToShares(assets, supply, total) ==
    IF supply = 0 THEN assets ELSE MulDivDown(assets, supply, total)

ConvertToAssets(shares, supply, total) ==
    IF supply = 0 THEN shares ELSE MulDivDown(shares, total, supply)

PreviewDeposit(assets, supply, total) == ConvertToShares(assets, supply, total)

PreviewMint(shares, supply, total) ==
    IF supply = 0 THEN shares ELSE MulDivUp(shares, total, supply)

\* Mutant of PreviewWithdraw: rounds in the withdrawer's favour.
PreviewWithdrawDown(assets, supply, total) == ConvertToShares(assets, supply, total)

PreviewWithdraw(assets, supply, total) ==
    IF supply = 0 THEN assets ELSE MulDivUp(assets, supply, total)

PreviewRedeem(shares, supply, total) == ConvertToAssets(shares, supply, total)
=============================================================================
