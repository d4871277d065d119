---------------------------- MODULE VaultRouter ----------------------------
(***************************************************************************)
(* periphery/VaultRouter.sol in front of the vault: an account that pulls  *)
(* the caller's assets, or burns the caller's shares, on its behalf.       *)
(*                                                                         *)
(* To the vault the router is the caller: it is the router's allowance     *)
(* that a withdrawal spends and the router's rewards that it settles.      *)
(* Multicall runs several of these calls in one transaction; it adds no    *)
(* state, and each of its calls is a step here.                            *)
(***************************************************************************)
EXTENDS MToken

CONSTANTS
    Router,             \* the account the contract has at the token and the vault
    RouterFees,         \* router fees the owner sets, in basis points
    FeeRecipients,      \* recipients of the fee the owner sets
    Limits,             \* minShares, maxAssets and minAssets the callers pass
    Expiries            \* expiries they pass

ASSUME RouterAssumption ==
    /\ Router \in Account
    /\ \A x \in RouterFees : x \in 0..Bips
    /\ FeeRecipients \subseteq Account
    /\ FeeRecipients # {}
    /\ \A x \in Limits \cup Expiries : x \in Nat

\* The contract owns nothing at first and calls the vault in its four routes only,
\* and nobody names it as receiver, owner of shares or recipient of the fee.
ASSUME RouterApartAssumption ==
    /\ Router \notin Lenders \cup Borrowers \cup Liquidators \cup Peers \cup FeeRecipients
    /\ Funds[Router] = 0

VARIABLES
    routerFeeBips, feeRecipient, paused,
    routerAllowance     \* what the router lets the vault take of its assets

router == <<routerFeeBips, feeRecipient, paused, routerAllowance>>
routerSettings == <<routerFeeBips, feeRecipient, paused>>
routerVars == <<vars, router>>

RouterInit ==
    /\ Init
    /\ routerFeeBips = 0
    /\ feeRecipient \in FeeRecipients
    /\ paused = FALSE
    /\ routerAllowance = 0

-----------------------------------------------------------------------------
GetRouterFeeForAmount(amount) == MulDivDown(amount, routerFeeBips, Bips)

\* The balances of the asset once the router has pulled the caller's assets and
\* sent the fee on.
AfterFee(sender, assets) ==
    Send(Send(wallet, sender, Router, assets), Router, feeRecipient,
         GetRouterFeeForAmount(assets))

\* What deposit and mint do with the asset: the router pulls it, sends the fee,
\* approves the vault for the rest, and the vault takes what it asks for.
PayThrough(sender, assets, taken) ==
    LET pulled   == AfterFee(sender, assets)
        approved == assets - GetRouterFeeForAmount(assets)
    IN  /\ wallet[sender] >= assets
        /\ pulled[Router] >= taken
        /\ approved >= taken
        /\ wallet' = [pulled EXCEPT ![Router] = @ - taken]
        /\ vaultBalance' = vaultBalance + taken
        /\ UNCHANGED collected
        /\ routerAllowance' = approved - taken

\* What withdraw and redeem do with it: the vault pays the router, which pays
\* the receiver.
ForwardFromVault(receiver, assets) ==
    /\ vaultBalance >= assets
    /\ wallet' = Send([wallet EXCEPT ![Router] = @ + assets], Router, receiver, assets)
    /\ vaultBalance' = vaultBalance - assets
    /\ UNCHANGED collected

-----------------------------------------------------------------------------
(***************************************************************************)
(* The four routes.  maxDeposit and maxMint of the vault are MaxUint;      *)
(* maxWithdraw, maxRedeem and previewMint read a book without the interest *)
(* since the last accrual.                                                 *)
(***************************************************************************)
Accepts(expiry) == ~paused /\ now < expiry

RouteDeposit(sender, assets, receiver, minShares, expiry) ==
    LET net == assets - GetRouterFeeForAmount(assets)
    IN  /\ Accepts(expiry)
        /\ assets <= MaxUint
        /\ PayThrough(sender, assets, net)
        /\ DepositAssets(Router, receiver, net)
        /\ PreviewDeposit(net, totalSupply, TotalAssets(Accrued, cashReserves)) >= minShares
        /\ UNCHANGED routerSettings

\* The limit is the receiver's, the shares are the caller's.
RouteWithdraw(sender, assets, receiver, minShares, expiry) ==
    /\ Accepts(expiry)
    /\ assets <= MaxWithdraw(receiver)
    /\ WithdrawAssets(Router, sender, assets)
    /\ PreviewWithdraw(assets, totalSupply, TotalAssets(Accrued, cashReserves)) >= minShares
    /\ ForwardFromVault(receiver, assets)
    /\ UNCHANGED router

\* Mutant of RouteMint: pulls all that the caller allows.
RouteMintPullsMax(sender, shares, receiver, maxAssets, expiry) ==
    LET assets == PreviewMint(shares, totalSupply, TotalAssets(book, cashReserves))
    IN  /\ Accepts(expiry)
        /\ shares <= MaxUint
        /\ assets <= maxAssets
        /\ PayThrough(sender, maxAssets, MintAmount(shares))
        /\ CreditDeposit(Router, receiver, MintAmount(shares), shares)
        /\ UNCHANGED routerSettings

\* The router pulls what previewMint says, the vault takes what mint finds after
\* the accrual: more than the router has approved makes it revert.
RouteMint(sender, shares, receiver, maxAssets, expiry) ==
    LET assets == PreviewMint(shares, totalSupply, TotalAssets(book, cashReserves))
    IN  /\ Accepts(expiry)
        /\ shares <= MaxUint
        /\ assets <= maxAssets
        /\ PayThrough(sender, assets, MintAmount(shares))
        /\ CreditDeposit(Router, receiver, MintAmount(shares), shares)
        /\ UNCHANGED routerSettings

\* Without assets in the vault, maxRedeem divides by zero and reverts.
RouteRedeem(sender, shares, minAssets, expiry) ==
    /\ Accepts(expiry)
    /\ Convertible(totalSupply, TotalAssets(book, cashReserves))
    /\ shares <= MaxRedeem(sender)
    /\ RedeemShares(Router, sender, shares)
    /\ RedeemAmount(shares) >= minAssets
    /\ ForwardFromVault(sender, RedeemAmount(shares))
    /\ UNCHANGED router

-----------------------------------------------------------------------------
(***************************************************************************)
(* The owner of the router.                                                *)
(***************************************************************************)
Pause ==
    /\ ~paused
    /\ paused' = TRUE
    /\ UNCHANGED <<vars, routerFeeBips, feeRecipient, routerAllowance>>

Unpause ==
    /\ paused
    /\ paused' = FALSE
    /\ UNCHANGED <<vars, routerFeeBips, feeRecipient, routerAllowance>>

SetRouterFee(bips) ==
    /\ routerFeeBips' = bips
    /\ UNCHANGED <<vars, feeRecipient, paused, routerAllowance>>

SetFeeRecipient(recipient) ==
    /\ feeRecipient' = recipient
    /\ UNCHANGED <<vars, routerFeeBips, paused, routerAllowance>>

-----------------------------------------------------------------------------
RouteStep(a) ==
    \E b \in Named(a), x \in Amounts, limit \in Limits, expiry \in Expiries :
        \/ RouteDeposit(a, x, b, limit, expiry)
        \/ RouteWithdraw(a, x, b, limit, expiry)
        \/ RouteMint(a, x, b, limit, expiry)
        \/ RouteRedeem(a, x, limit, expiry)

RouterOwnerStep ==
    \/ Pause
    \/ Unpause
    \/ \E x \in RouterFees : SetRouterFee(x)
    \/ \E c \in FeeRecipients : SetFeeRecipient(c)

RouterNext ==
    \/ Next /\ UNCHANGED router
    \/ \E a \in Lenders : RouteStep(a)
    \/ \E a \in Lenders, x \in Approvals : Approve(a, Router, x) /\ UNCHANGED router
    \/ liquidating = NoLiquidation /\ RouterOwnerStep

RouterSpec == RouterInit /\ [][RouterNext]_routerVars

-----------------------------------------------------------------------------
\* The vault's storage and the router's hold values of their kinds; in particular
\* no call leaves the router owing the asset it passes on.
RouterTypeOK ==
    /\ TypeOK
    /\ routerFeeBips \in 0..Bips
    /\ feeRecipient \in Account
    /\ paused \in BOOLEAN
    /\ routerAllowance \in Nat

\* Nothing a caller sends through the router stays with it: neither assets that
\* the vault asked less for than previewMint had said, nor shares, nor a right of
\* the vault to take assets that a later caller sends.
RouterKeepsNothing ==
    /\ wallet[Router] = 0
    /\ balanceOf[Router] = 0
    /\ routerAllowance = 0
=============================================================================
