------------------------- MODULE VaultRouterProofs -------------------------
(***************************************************************************)
(* The market with the router in front of it, for any number of accounts,  *)
(* any amounts, fees and limits: the router passes on all that it is sent, *)
(* and what is proved of the market without it still holds.                *)
(***************************************************************************)
EXTENDS VaultRouter, MTokenRoundingProofs

-----------------------------------------------------------------------------
(***************************************************************************)
(* What the router reads and computes.                                     *)
(***************************************************************************)

\* The fee is a part of the amount.
LEMMA RouterFeeBounds ==
    ASSUME routerFeeBips \in 0..Bips, NEW x \in Nat
    PROVE  /\ GetRouterFeeForAmount(x) \in Nat
           /\ GetRouterFeeForAmount(x) <= x
<1> DEFINE fee == MulDivDown(x, routerFeeBips, Bips)
<1>1. Bips \in Nat \ {0} /\ routerFeeBips \in Nat /\ routerFeeBips <= Bips
  BY DEF Bips
<1>2. fee \in Nat /\ Bips * fee <= x * routerFeeBips
  BY <1>1, MulDivDownBounds
<1>3. GetRouterFeeForAmount(x) = fee
  BY DEF GetRouterFeeForAmount
<1>. HIDE DEF fee
<1>4. x * routerFeeBips <= x * Bips
  BY <1>1, ProductMono
<1>5. /\ x * Bips = Bips * x
      /\ Bips * fee \in Int /\ x * routerFeeBips \in Int /\ Bips * x \in Int
  BY <1>1, <1>2, ProductRegroup
<1>6. Bips * fee <= Bips * x
  BY <1>2, <1>4, <1>5
<1>7. fee <= x
  BY <1>1, <1>2, <1>6, ProductCancel
<1>. QED BY <1>2, <1>3, <1>7

\* Interest since the last accrual makes shares cost more.
LEMMA PreviewMintMono ==
    ASSUME NEW x \in Nat, NEW S \in Nat, NEW A \in Nat, NEW B \in Nat, A <= B
    PROVE  PreviewMint(x, S, A) <= PreviewMint(x, S, B)
<1>1. CASE S = 0
  BY <1>1 DEF PreviewMint
<1>2. CASE S # 0
  <2> DEFINE p == MulDivUp(x, A, S)
             q == MulDivUp(x, B, S)
  <2>1. /\ p \in Nat /\ S * p < x * A + S
        /\ q \in Nat /\ S * q >= x * B
    BY <1>2, MulDivUpBounds
  <2>2. PreviewMint(x, S, A) = p /\ PreviewMint(x, S, B) = q
    BY <1>2 DEF PreviewMint
  <2>. HIDE DEF p, q
  <2>3. x * A <= x * B
    BY ProductMono
  <2>4. p <= q
    <3>1. SUFFICES ASSUME q + 1 <= p PROVE FALSE
      BY <2>1
    <3>2. S * (q + 1) <= S * p
      BY <2>1, <3>1, ProductMono
    <3>3. S * (q + 1) = S * q + S
      BY <2>1
    <3>4. S * p \in Int /\ S * q \in Int /\ x * A \in Int /\ x * B \in Int
      BY <2>1
    <3>. QED BY <2>1, <2>3, <3>2, <3>3, <3>4
  <2>. QED BY <2>2, <2>4
<1>. QED BY <1>1, <1>2

-----------------------------------------------------------------------------
(***************************************************************************)
(* The inductive invariant.  That the router keeps nothing is not          *)
(* inductive by itself: a liquidation it had opened would send it shares,  *)
(* and a fee recipient that was the router itself would leave it the fee.  *)
(***************************************************************************)
RouterInv ==
    /\ RouterTypeOK
    /\ RouterKeepsNothing
    /\ feeRecipient \in FeeRecipients
    /\ liquidating.sender # Router

\* The facts about the accounts that every route starts from.
LEMMA RouterFacts ==
    ASSUME RouterInv
    PROVE  /\ TypeOK
           /\ wallet \in [Account -> Nat] /\ balanceOf \in [Account -> Nat]
           /\ wallet[Router] = 0 /\ balanceOf[Router] = 0 /\ routerAllowance = 0
           /\ routerFeeBips \in 0..Bips
           /\ feeRecipient \in Account \ {Router} /\ Router \in Account
           /\ \A a \in Lenders : /\ a \in Account \ {Router}
                                 /\ Named(a) \subseteq Account \ {Router}
BY RouterAssumption, RouterApartAssumption, EnvironmentAssumption
   DEF RouterInv, RouterTypeOK, RouterKeepsNothing, TypeOK, Named

\* What the router pulls, pays as fee and approves to the vault: it is left with
\* what the vault did not take of it.
LEMMA PayThroughPays ==
    ASSUME RouterInv, NEW a \in Account \ {Router}, NEW assets \in Nat, NEW taken \in Nat,
           PayThrough(a, assets, taken)
    PROVE  /\ VaultTakes(taken)
           /\ taken <= assets - GetRouterFeeForAmount(assets)
           /\ wallet'[Router] = assets - GetRouterFeeForAmount(assets) - taken
           /\ routerAllowance' = assets - GetRouterFeeForAmount(assets) - taken
<1> DEFINE fee    == GetRouterFeeForAmount(assets)
           first  == Send(wallet, a, Router, assets)
           pulled == Send(first, Router, feeRecipient, fee)
<1>1. fee \in Nat /\ fee <= assets
  BY RouterFacts, RouterFeeBounds
<1>2. /\ wallet[a] >= assets /\ pulled[Router] >= taken /\ assets - fee >= taken
      /\ wallet' = [pulled EXCEPT ![Router] = @ - taken]
      /\ vaultBalance' = vaultBalance + taken
      /\ UNCHANGED collected
      /\ routerAllowance' = (assets - fee) - taken
  BY DEF PayThrough, AfterFee
<1>. HIDE DEF fee
<1>3. first \in [Account -> Nat] /\ first[Router] = assets
  <2>1. first \in [Account -> Nat]
    BY <1>2, RouterFacts, SendType
  <2>2. first[Router] = assets
    BY RouterFacts DEF Send
  <2>. QED BY <2>1, <2>2
<1>. HIDE DEF first
<1>4. pulled \in [Account -> Nat] /\ pulled[Router] = assets - fee
  <2>1. pulled \in [Account -> Nat]
    BY <1>1, <1>3, RouterFacts, SendType
  <2>2. pulled[Router] = assets - fee
    BY <1>1, <1>3, RouterFacts DEF Send
  <2>. QED BY <2>1, <2>2
<1>. HIDE DEF pulled
<1>5. /\ wallet' \in [Account -> Nat] /\ wallet'[Router] = (assets - fee) - taken
  BY <1>2, <1>4, RouterFacts
<1>. QED BY <1>1, <1>2, <1>5 DEF VaultTakes, fee

\* What the vault pays to the router goes on to the receiver.
LEMMA ForwardPays ==
    ASSUME RouterInv, NEW b \in Account \ {Router}, NEW assets \in Nat,
           ForwardFromVault(b, assets)
    PROVE  VaultPays(assets) /\ wallet'[Router] = 0
<1> DEFINE paid == [wallet EXCEPT ![Router] = @ + assets]
<1>1. /\ vaultBalance >= assets /\ vaultBalance' = vaultBalance - assets
      /\ wallet' = Send(paid, Router, b, assets) /\ UNCHANGED collected
  BY DEF ForwardFromVault
<1>2. paid \in [Account -> Nat] /\ paid[Router] = assets
  BY RouterFacts
<1>. HIDE DEF paid
<1>3. wallet' \in [Account -> Nat]
  BY <1>1, <1>2, RouterFacts, SendType
<1>4. wallet'[Router] = 0
  BY <1>1, <1>2, RouterFacts DEF Send
<1>. QED BY <1>1, <1>3, <1>4 DEF VaultPays

-----------------------------------------------------------------------------
(***************************************************************************)
(* The four routes.                                                        *)
(***************************************************************************)

\* A fair deposit or withdrawal of an account other than the router, in the
\* router's name, that leaves the router without assets and approvals.
Passes(c, assets, shares) ==
    /\ \/ TakeDeposit(Router, c, assets, shares) /\ FairDeposit(assets, shares)
       \/ PayWithdrawal(Router, c, assets, shares) /\ FairWithdrawal(assets, shares)
    /\ wallet'[Router] = 0
    /\ routerAllowance' = 0
    /\ UNCHANGED routerSettings

\* deposit approves exactly what it asks the vault to take.
LEMMA RouteDepositPasses ==
    ASSUME RouterInv, NEW a \in Account \ {Router}, NEW b \in Account \ {Router},
           NEW x \in Nat, NEW limit, NEW expiry, RouteDeposit(a, x, b, limit, expiry)
    PROVE  \E assets, shares \in Nat : Passes(b, assets, shares)
<1> DEFINE net == x - GetRouterFeeForAmount(x)
<1>1. net \in Nat
  BY RouterFacts, RouterFeeBounds
<1>2. /\ PayThrough(a, x, net) /\ DepositAssets(Router, b, net)
      /\ UNCHANGED routerSettings
  BY DEF RouteDeposit
<1>3. VaultTakes(net) /\ wallet'[Router] = net - net /\ routerAllowance' = net - net
  BY <1>1, <1>2, PayThroughPays
<1>. HIDE DEF net
<1>4. PICK shares \in Nat : CreditDeposit(Router, b, net, shares) /\ FairDeposit(net, shares)
  BY <1>1, <1>2, RouterFacts, DepositFair
<1>5. net - net = 0
  BY <1>1
<1>. QED BY <1>1, <1>2, <1>3, <1>4, <1>5 DEF Passes, TakeDeposit

\* mint asks for no less than previewMint said before the accrual, so that with
\* a fee, or with interest since the last accrual, it reverts.
LEMMA RouteMintPasses ==
    ASSUME RouterInv, NEW a \in Account \ {Router}, NEW b \in Account \ {Router},
           NEW x \in Nat, NEW limit, NEW expiry, RouteMint(a, x, b, limit, expiry)
    PROVE  \E assets, shares \in Nat : Passes(b, assets, shares)
<1> DEFINE A      == TotalAssets(book, cashReserves)
           B      == TotalAssets(Accrued, cashReserves)
           assets == PreviewMint(x, totalSupply, A)
           taken  == MintAmount(x)
           fee    == GetRouterFeeForAmount(assets)
<1>1. /\ totalSupply \in Nat /\ A \in Nat /\ B \in Nat /\ A <= B
  BY RouterFacts, TypeParts, AccruedOK DEF LedgerOK, TotalAssets, Book
<1>2. /\ PayThrough(a, assets, taken) /\ CreditDeposit(Router, b, taken, x)
      /\ UNCHANGED routerSettings
  BY DEF RouteMint
<1>3. taken \in Nat /\ FairDeposit(taken, x)
  BY RouterFacts, DepositFair
<1>4. assets \in Nat /\ assets <= taken
  <2>1. taken = PreviewMint(x, totalSupply, B)
    BY DEF MintAmount
  <2>. HIDE DEF A, B, taken
  <2>. QED BY <1>1, <2>1, ConversionNat, PreviewMintMono
<1>. HIDE DEF assets, taken
<1>5. fee \in Nat
  BY <1>4, RouterFacts, RouterFeeBounds
<1>6. /\ VaultTakes(taken) /\ taken <= assets - fee
      /\ wallet'[Router] = assets - fee - taken /\ routerAllowance' = assets - fee - taken
  BY <1>2, <1>3, <1>4, PayThroughPays
<1>. HIDE DEF fee
<1>7. assets - fee - taken = 0
  BY <1>3, <1>4, <1>5, <1>6
<1>. QED BY <1>2, <1>3, <1>6, <1>7 DEF Passes, TakeDeposit

\* withdraw and redeem pay on what the vault paid.
LEMMA RouteWithdrawPasses ==
    ASSUME RouterInv, NEW a \in Account \ {Router}, NEW b \in Account \ {Router},
           NEW x \in Nat, NEW limit, NEW expiry,
           RouteWithdraw(a, x, b, limit, expiry) \/ RouteRedeem(a, x, limit, expiry)
    PROVE  \E assets, shares \in Nat : Passes(a, assets, shares)
<1>1. CASE RouteWithdraw(a, x, b, limit, expiry)
  <2>1. /\ WithdrawAssets(Router, a, x) /\ ForwardFromVault(b, x)
        /\ UNCHANGED router
    BY <1>1 DEF RouteWithdraw
  <2>2. PICK shares \in Nat : DebitWithdrawal(Router, a, x, shares) /\ FairWithdrawal(x, shares)
    BY <2>1, RouterFacts, WithdrawalFair
  <2>3. VaultPays(x) /\ wallet'[Router] = 0
    BY <2>1, ForwardPays
  <2>4. routerAllowance' = 0 /\ UNCHANGED routerSettings
    BY <2>1, RouterFacts DEF router, routerSettings
  <2>. QED BY <2>2, <2>3, <2>4 DEF Passes, PayWithdrawal
<1>2. CASE RouteRedeem(a, x, limit, expiry)
  <2> DEFINE assets == RedeemAmount(x)
  <2>1. /\ DebitWithdrawal(Router, a, assets, x) /\ ForwardFromVault(a, assets)
        /\ UNCHANGED router
    BY <1>2 DEF RouteRedeem, RedeemShares
  <2>2. assets \in Nat /\ FairWithdrawal(assets, x)
    BY RouterFacts, WithdrawalFair
  <2>. HIDE DEF assets
  <2>3. VaultPays(assets) /\ wallet'[Router] = 0
    BY <2>1, <2>2, ForwardPays
  <2>4. routerAllowance' = 0 /\ UNCHANGED routerSettings
    BY <2>1, RouterFacts DEF router, routerSettings
  <2>. QED BY <2>1, <2>2, <2>3, <2>4 DEF Passes, PayWithdrawal
<1>. QED BY <1>1, <1>2

\* Every call through the router is such a deposit or withdrawal.
LEMMA RouteCases ==
    ASSUME RouterInv, NEW a \in Lenders, RouteStep(a)
    PROVE  \E c \in Account \ {Router}, assets, shares \in Nat : Passes(c, assets, shares)
<1>1. PICK b \in Named(a), x \in Amounts, limit \in Limits, expiry \in Expiries :
         \/ RouteDeposit(a, x, b, limit, expiry)
         \/ RouteWithdraw(a, x, b, limit, expiry)
         \/ RouteMint(a, x, b, limit, expiry)
         \/ RouteRedeem(a, x, limit, expiry)
  BY DEF RouteStep
<1>2. a \in Account \ {Router} /\ b \in Account \ {Router} /\ x \in Nat
  BY RouterFacts, EnvironmentAssumption
<1>3. CASE RouteDeposit(a, x, b, limit, expiry)
  BY <1>2, <1>3, RouteDepositPasses
<1>4. CASE RouteMint(a, x, b, limit, expiry)
  BY <1>2, <1>4, RouteMintPasses
<1>5. CASE RouteWithdraw(a, x, b, limit, expiry) \/ RouteRedeem(a, x, limit, expiry)
  BY <1>2, <1>5, RouteWithdrawPasses
<1>. QED BY <1>1, <1>3, <1>4, <1>5

-----------------------------------------------------------------------------
\* An account that no call names, that opened no liquidation and has neither assets
\* nor shares, gets none: of it, too, only nothing can be taken or given away.
LEMMA BystanderStep ==
    ASSUME TypeOK, [Next]_vars, NEW c \in Account,
           c \notin Lenders \cup Borrowers \cup Liquidators \cup Peers,
           liquidating.sender # c, wallet[c] = 0, balanceOf[c] = 0
    PROVE  wallet'[c] = 0 /\ balanceOf'[c] = 0 /\ liquidating'.sender # c
<1> DEFINE Goal == wallet'[c] = 0 /\ balanceOf'[c] = 0 /\ liquidating'.sender # c
<1>1. wallet \in [Account -> Nat] /\ balanceOf \in [Account -> Nat]
  BY DEF TypeOK
<1>2. ASSUME UNCHANGED <<wallet, balanceOf, liquidating>> PROVE Goal
  BY <1>2
<1>3. ASSUME NEW a \in Lenders, LenderStep(a) PROVE Goal
  <2>1. PICK b, o \in Named(a), x \in Amounts :
           \/ Deposit(a, b, x) \/ Mint(a, b, x)
           \/ Withdraw(a, b, o, x) \/ Redeem(a, b, o, x)
           \/ Transfer(a, b, x) \/ TransferFrom(a, o, b, x)
    BY <1>3 DEF LenderStep
  <2>2. a # c /\ b # c /\ o # c
    BY DEF Named
  <2>3. CASE Deposit(a, b, x) \/ Mint(a, b, x)
    BY <1>1, <2>2, <2>3
       DEF Deposit, DepositAssets, Mint, PayIn, CreditDeposit, MintShares, world
  <2>4. CASE Withdraw(a, b, o, x) \/ Redeem(a, b, o, x)
    BY <1>1, <2>2, <2>4
       DEF Withdraw, WithdrawAssets, Redeem, RedeemShares, PayOut, DebitWithdrawal,
           BurnShares, world
  <2>5. CASE Transfer(a, b, x) \/ TransferFrom(a, o, b, x)
    BY <1>1, <2>2, <2>5 DEF Transfer, TransferFrom, Send, token, world
  <2>. QED BY <2>1, <2>3, <2>4, <2>5
<1>4. ASSUME NEW a \in Borrowers, BorrowerStep(a) PROVE Goal
  <2>1. PICK b \in Named(a), x \in Amounts :
           Borrow(a, b, x) \/ Repay(a, b, x) \/ RepayShares(a, b, x)
    BY <1>4 DEF BorrowerStep
  <2>2. a # c /\ b # c
    BY DEF Named
  <2>. QED BY <1>1, <2>1, <2>2
           DEF Borrow, Repay, RepayShares, SettleLoan, PayIn, PayOut, shareVars, world
<1>5. ASSUME NEW a \in Claimers, RewardStep(a) PROVE Goal
  BY <1>2, <1>5 DEF RewardStep, ClaimRewards, GetPendingRewards, shareVars, token, world
<1>6. ASSUME AnyoneStep PROVE Goal
  <2>1. ASSUME NEW a \in Account, NEW x \in Donations, Donate(a, x) PROVE Goal
    <3>1. /\ wallet[a] >= x /\ wallet' = [wallet EXCEPT ![a] = @ - x]
          /\ UNCHANGED <<balanceOf, liquidating>>
      BY <2>1 DEF Donate, PayIn, shareVars, world
    <3>2. x \in Nat /\ wallet[a] \in Nat
      BY <1>1, EnvironmentAssumption
    <3>. QED BY <1>1, <3>1, <3>2
  <2>2. CASE Poke \/ \E a \in Approvers, b \in Lenders, x \in Approvals : Approve(a, b, x)
    BY <1>2, <2>2 DEF Poke, Approve, shareVars, token, world
  <2>. HIDE DEF Goal
  <2>. QED BY <1>6, <2>1, <2>2 DEF AnyoneStep
<1>7. ASSUME LiquidationStep PROVE Goal
  <2>1. ASSUME NEW s \in Liquidators, NEW a \in Account, LiquidateBegin(s, a) PROVE Goal
    BY <2>1 DEF LiquidateBegin, shareVars, token
  <2>2. ASSUME NEW x \in Amounts, Liquidate(x) PROVE Goal
    <3>1. /\ liquidating.account \in Account /\ liquidating.sender \in Account
          /\ balanceOf[liquidating.account] >= x
          /\ balanceOf' = Send(balanceOf, liquidating.account, liquidating.sender, x)
          /\ UNCHANGED <<wallet, liquidating>>
      BY <2>2 DEF Liquidate, TypeOK, LiquidationCall, token, world
    <3>2. x \in Nat
      BY EnvironmentAssumption
    <3>3. balanceOf'[c] = 0
      BY <1>1, <3>1, <3>2 DEF Send
    <3>. QED BY <3>1, <3>3
  <2>3. CASE LiquidateEnd
    <3>1. liquidating'.sender = 0 /\ UNCHANGED <<wallet, balanceOf>>
      BY <2>3 DEF LiquidateEnd, NoLiquidation, shareVars, token
    <3>2. c # 0
      BY RewardsAssumption DEF Account
    <3>. QED BY <3>1, <3>2
  <2>. HIDE DEF Goal
  <2>. QED BY <1>7, <2>1, <2>2, <2>3 DEF LiquidationStep
<1>8. CollateralStep \/ OwnerStep \/ BlockStep \/ UNCHANGED vars => Goal
  BY <1>2 DEF CollateralStep, ChangeCollateral, OwnerStep, CollectFee, SetInterestModel,
         SetFeeCollector, SetMaxBorrow, SetPlatformFee, BlockStep, Tick, Quote,
         vars, shareVars, token, world
<1>. HIDE DEF Goal
<1>9. Goal
  BY <1>3, <1>4, <1>5, <1>6, <1>7, <1>8 DEF Next
<1>. QED BY <1>9 DEF Goal

\* A step with the router is one of the market, one through the router, an approval
\* for the router, or one of the router's owner.
LEMMA RouterCases ==
    ASSUME RouterInv, [RouterNext]_routerVars
    PROVE  \/ [Next]_vars /\ UNCHANGED router
           \/ \E c \in Account \ {Router}, assets, shares \in Nat : Passes(c, assets, shares)
           \/ \E a \in Account, x \in Nat : Approve(a, Router, x) /\ UNCHANGED router
           \/ RouterOwnerStep
<1>1. CASE UNCHANGED routerVars
  BY <1>1 DEF routerVars
<1>2. CASE RouterNext
  <2>1. ASSUME NEW a \in Lenders, NEW x \in Approvals, Approve(a, Router, x), UNCHANGED router
        PROVE  \E c \in Account, y \in Nat : Approve(c, Router, y) /\ UNCHANGED router
    BY <2>1, EnvironmentAssumption
  <2>. QED BY <1>2, <2>1, RouteCases DEF RouterNext
<1>. QED BY <1>1, <1>2

\* What the owner of the router does is nothing to the market.
LEMMA RouterOwnerFrame ==
    ASSUME RouterInv, RouterOwnerStep
    PROVE  /\ UNCHANGED vars /\ UNCHANGED routerAllowance
           /\ routerFeeBips' \in 0..Bips /\ feeRecipient' \in FeeRecipients
           /\ paused' \in BOOLEAN
<1>1. routerFeeBips \in 0..Bips /\ feeRecipient \in FeeRecipients /\ paused \in BOOLEAN
  BY DEF RouterInv, RouterTypeOK
<1>2. CASE Pause \/ Unpause
  BY <1>1, <1>2 DEF Pause, Unpause
<1>3. ASSUME NEW x \in RouterFees, SetRouterFee(x)
      PROVE  /\ UNCHANGED <<vars, feeRecipient, paused, routerAllowance>>
             /\ routerFeeBips' \in 0..Bips
  BY <1>3, RouterAssumption DEF SetRouterFee
<1>4. ASSUME NEW x \in FeeRecipients, SetFeeRecipient(x)
      PROVE  /\ UNCHANGED <<vars, routerFeeBips, paused, routerAllowance>>
             /\ feeRecipient' \in FeeRecipients
  BY <1>4 DEF SetFeeRecipient
<1>. QED BY <1>1, <1>2, <1>3, <1>4 DEF RouterOwnerStep

\* The invariant is inductive.
LEMMA RouterInvStep ==
    ASSUME RouterInv, [RouterNext]_routerVars
    PROVE  RouterInv'
<1>1. /\ TypeOK /\ feeRecipient \in FeeRecipients /\ paused \in BOOLEAN
      /\ routerFeeBips \in 0..Bips /\ routerAllowance = 0
      /\ wallet[Router] = 0 /\ balanceOf[Router] = 0 /\ liquidating.sender # Router
  BY DEF RouterInv, RouterTypeOK, RouterKeepsNothing
<1>2. SUFFICES /\ TypeOK' /\ feeRecipient' \in FeeRecipients /\ paused' \in BOOLEAN
               /\ routerFeeBips' \in 0..Bips /\ routerAllowance' = 0
               /\ wallet'[Router] = 0 /\ balanceOf'[Router] = 0
               /\ liquidating'.sender # Router
  BY <1>2, RouterAssumption DEF RouterInv, RouterTypeOK, RouterKeepsNothing
<1>3. CASE [Next]_vars /\ UNCHANGED router
  <2>1. TypeOK'
    BY <1>1, <1>3, NextType
  <2>2. wallet'[Router] = 0 /\ balanceOf'[Router] = 0 /\ liquidating'.sender # Router
    BY <1>1, <1>3, BystanderStep, RouterAssumption, RouterApartAssumption
  <2>. QED BY <1>1, <1>3, <2>1, <2>2 DEF router
<1>4. ASSUME NEW c \in Account \ {Router}, NEW assets \in Nat, NEW shares \in Nat,
             Passes(c, assets, shares)
      PROVE  /\ TypeOK' /\ wallet'[Router] = 0 /\ balanceOf'[Router] = 0
             /\ routerAllowance' = 0 /\ UNCHANGED routerSettings
             /\ liquidating'.sender # Router
  <2>1. LendingMove(Router, c, assets, shares)
    BY <1>4 DEF Passes, LendingMove
  <2>2. TypeOK'
    BY <1>1, <2>1, RouterAssumption, LendingMoveType
  <2>3. balanceOf'[Router] = 0
    BY <1>1, <1>4, RouterFacts
       DEF Passes, TakeDeposit, CreditDeposit, MintShares, PayWithdrawal, DebitWithdrawal,
           BurnShares
  <2>4. UNCHANGED liquidating
    BY <2>1 DEF LendingMove, TakeDeposit, CreditDeposit, PayWithdrawal, DebitWithdrawal, world
  <2>. QED BY <1>1, <1>4, <2>2, <2>3, <2>4 DEF Passes
<1>5. ASSUME NEW a \in Account, NEW x \in Nat, Approve(a, Router, x), UNCHANGED router
      PROVE  /\ TypeOK' /\ UNCHANGED <<wallet, balanceOf, liquidating>>
             /\ UNCHANGED router
  <2>1. TypeOK'
    BY <1>1, <1>5, RouterAssumption, ShareType DEF ShareAction
  <2>. QED BY <1>5, <2>1 DEF Approve, token, world
<1>6. CASE RouterOwnerStep
  <2>1. TypeOK' /\ UNCHANGED <<wallet, balanceOf, liquidating>>
    BY <1>1, <1>6, RouterOwnerFrame, NextType DEF vars, shareVars, token, world
  <2>. QED BY <1>1, <1>6, <2>1, RouterOwnerFrame
<1>. QED BY <1>1, <1>3, <1>4, <1>5, <1>6, RouterCases DEF router, routerSettings

\* It holds at first.
LEMMA RouterInvInit == RouterInit => RouterInv
<1>1. SUFFICES ASSUME RouterInit PROVE RouterInv
  OBVIOUS
<1>2. TypeOK
  BY <1>1, InitType DEF RouterInit
<1>3. RouterKeepsNothing
  BY <1>1, RouterAssumption, RouterApartAssumption
     DEF RouterInit, Init, RouterKeepsNothing
<1>4. liquidating.sender # Router
  BY <1>1, RouterAssumption DEF RouterInit, Init, NoLiquidation, Account
<1>5. RouterTypeOK
  <2>1. routerFeeBips \in 0..Bips /\ feeRecipient \in Account /\ routerAllowance \in Nat
    BY <1>1, RouterAssumption DEF RouterInit, Bips
  <2>2. paused \in BOOLEAN
    BY <1>1 DEF RouterInit
  <2>. QED BY <1>2, <2>1, <2>2 DEF RouterTypeOK
<1>. QED BY <1>1, <1>3, <1>4, <1>5 DEF RouterInv, RouterInit

\* The invariant of the market and the router together.
LEMMA RouterInvariant == RouterSpec => []RouterInv
BY RouterInvInit, RouterInvStep, PTL DEF RouterSpec

\* Whatever the callers pass to deposit, mint, withdraw and redeem of the router,
\* the fee its owner sets included, no storage of it or of the vault underflows.
THEOREM RouterTypeCorrect == RouterSpec => []RouterTypeOK
BY RouterInvariant, PTL DEF RouterInv

\* The router passes on all that it pulls or is paid: between two calls it has
\* neither assets, nor shares, nor an approval open to the vault.
THEOREM RouterKeepsNothingCorrect == RouterSpec => []RouterKeepsNothing
BY RouterInvariant, PTL DEF RouterInv

-----------------------------------------------------------------------------
(***************************************************************************)
(* The market behind the router.  The router calls the vault in its own    *)
(* name, with allowances and amounts nobody else passes; what was proved   *)
(* of the market alone holds of the two together.                          *)
(***************************************************************************)
MarketInv == LedgerInv /\ CashAccounted /\ RewardsWithinTotal

\* Steps through the router keep it, as the market's own steps do.
LEMMA MarketInvStep ==
    ASSUME RouterInv, MarketInv, [RouterNext]_routerVars
    PROVE  MarketInv'
<1>1. TypeOK /\ LoanSharesSum /\ SharesSum /\ CashAccounted /\ RewardsWithinTotal
  BY DEF MarketInv, LedgerInv
<1>2. TypeOK'
  BY RouterInvStep DEF RouterInv, RouterTypeOK
<1>3. SUFFICES LoanSharesSum' /\ SharesSum' /\ CashAccounted' /\ RewardsWithinTotal'
  BY <1>2 DEF MarketInv, LedgerInv
<1>4. CASE [Next]_vars
  BY <1>1, <1>4, LoanSharesStep, SharesStep, CashStep, RewardsWithinStep
<1>5. ASSUME NEW c \in Account \ {Router}, NEW assets \in Nat, NEW shares \in Nat,
             Passes(c, assets, shares)
      PROVE  LoanSharesSum' /\ SharesSum' /\ CashAccounted' /\ RewardsWithinTotal'
  <2>1. Router \in Account /\ LendingMove(Router, c, assets, shares)
    BY <1>5, RouterAssumption DEF Passes, LendingMove
  <2>2. LoanSharesSum'
    <3>1. UNCHANGED loans
      BY <1>1, <2>1, LendingMoveType
    <3>. QED BY <1>1, <3>1 DEF LoanSharesSum, loans
  <2>3. SharesSum' /\ CashAccounted'
    BY <1>1, <2>1, LendingMoveShares, LendingMoveCash
  <2>4. RewardsWithinTotal'
    <3>1. HookReward(Router) /\ UNCHANGED now
      BY <2>1 DEF LendingMove, TakeDeposit, CreditDeposit, PayWithdrawal, DebitWithdrawal, world
    <3>2. /\ rewards'.totalRewardsPaid = rewards.totalRewardsPaid
          /\ rewards'.totalRewards = rewards.totalRewards
      BY <1>1, <2>1, <3>1, HookType
    <3>. QED BY <1>1, <3>2 DEF RewardsWithinTotal
  <2>. QED BY <2>2, <2>3, <2>4
<1>6. ASSUME NEW a \in Account, NEW x \in Nat, Approve(a, Router, x)
      PROVE  LoanSharesSum' /\ SharesSum' /\ CashAccounted' /\ RewardsWithinTotal'
  BY <1>1, <1>6 DEF Approve, LoanSharesSum, SharesSum, CashAccounted, RewardsWithinTotal,
                    lending, token
<1>7. RouterOwnerStep => [Next]_vars
  BY RouterOwnerFrame
<1>. QED BY <1>4, <1>5, <1>6, <1>7, RouterCases

\* The invariants of the market, with the router beside it.
LEMMA MarketInvariant == RouterSpec => []MarketInv
<1>1. Init => MarketInv
  <2>1. Init => LoanSharesSum
    BY InitLoanShares
  <2>2. Init => SharesSum
    BY InitShares
  <2>3. Init => CashAccounted
    BY InitCash
  <2>4. Init => RewardsWithinTotal
    BY InitRewardsWithin
  <2>. QED BY <2>1, <2>2, <2>3, <2>4, InitType DEF MarketInv, LedgerInv
<1>2. RouterInit => MarketInv
  BY <1>1 DEF RouterInit
<1>3. RouterInv /\ MarketInv /\ [RouterNext]_routerVars => MarketInv'
  BY MarketInvStep
<1>. QED BY <1>2, <1>3, RouterInvariant, PTL DEF RouterSpec

\* With calls through the router, too, the total of loan shares is the sum of
\* the accounts', the reserves are accounted for, repayShares charges in
\* full, the debts cover what the lenders are promised, maxWithdraw can be paid in
\* shares, and no more rewards are paid than there are.
THEOREM RouterMarketCorrect ==
    RouterSpec => [](/\ LoanSharesSum
                     /\ CashAccounted /\ RewardsWithinTotal
                     /\ DebtCovered /\ RepaySharesPaysFully
                     /\ MaxWithdrawHonoured)
<1>1. MarketInv => /\ LoanSharesSum
                   /\ CashAccounted /\ RewardsWithinTotal
                   /\ DebtCovered /\ RepaySharesPaysFully
                   /\ MaxWithdrawHonoured
  BY DebtCovers, RepaySharesPays, MaxWithdrawPays DEF MarketInv, LedgerInv
<1>. QED BY <1>1, MarketInvariant, PTL

\* A deposit or withdrawal through the router is one of VaultLedger.
LEMMA RouterStepImplements ==
    ASSUME RouterInv, MarketInv, [RouterNext]_routerVars
    PROVE  [Ledger!Next]_(Ledger!ledger) /\ SharePriceStep
<1>1. LedgerInv /\ TypeOK
  BY DEF MarketInv, LedgerInv
<1>2. CASE [Next]_vars
  BY <1>1, <1>2, StepImplements, StepKeepsPrice
<1>3. ASSUME NEW c \in Account \ {Router}, NEW assets \in Nat, NEW shares \in Nat,
             Passes(c, assets, shares)
      PROVE  [Ledger!Next]_(Ledger!ledger) /\ SharePriceStep
  <2>1. /\ Router \in Account
        /\ \/ CreditDeposit(Router, c, assets, shares) /\ FairDeposit(assets, shares)
           \/ DebitWithdrawal(Router, c, assets, shares) /\ FairWithdrawal(assets, shares)
    BY <1>3, RouterAssumption DEF Passes, TakeDeposit, PayWithdrawal
  <2>2. Ledger!Deposit(c) \/ Ledger!Withdraw(c)
    BY <1>1, <2>1, DepositImplements, WithdrawalImplements
  <2>3. Ledger!Next
    BY <2>2 DEF Ledger!Next, Ledger!Holder, Account
  <2>4. SharePriceStep
    BY <1>1, <2>1, FairKeepsPrice
  <2>. QED BY <2>3, <2>4
<1>4. ASSUME NEW a \in Account, NEW x \in Nat, Approve(a, Router, x)
      PROVE  [Ledger!Next]_(Ledger!ledger) /\ SharePriceStep
  <2>1. UNCHANGED <<cashReserves, book, borrowed, balanceOf, totalSupply>>
    BY <1>4 DEF Approve, lending
  <2>2. UNCHANGED Ledger!ledger
    BY <2>1 DEF Ledger!ledger
  <2>3. SharePriceStep
    <3>1. TotalAssets(book, cashReserves) * totalSupply \in Int
      BY <1>1 DEF TypeOK, Book, TotalAssets
    <3>. QED BY <2>1, <3>1 DEF SharePriceStep, TotalAssets
  <2>. QED BY <2>2, <2>3
<1>5. RouterOwnerStep => [Next]_vars
  BY RouterOwnerFrame
<1>. QED BY <1>2, <1>3, <1>4, <1>5, RouterCases

\* The market with the router implements VaultLedger: those who call through the
\* router pay and are paid the price of a share at that moment, and a stale
\* previewMint or maxWithdraw shifts nothing onto the others.
THEOREM RouterLedgerRefined == RouterSpec => KeepsLedger
<1>1. RouterInit => Ledger!Init
  BY DEF RouterInit, Init, Ledger!Init, Ledger!Holder, Account
<1>2. RouterInv /\ MarketInv /\ [RouterNext]_routerVars => [Ledger!Next]_(Ledger!ledger)
  BY RouterStepImplements
<1>. QED BY <1>1, <1>2, RouterInvariant, MarketInvariant, PTL
         DEF RouterSpec, KeepsLedger, Ledger!Spec

\* No call through the router lowers the assets behind a vault share either.
THEOREM RouterSharePriceCorrect == RouterSpec => SharePriceNeverFalls
<1>1. RouterInv /\ MarketInv /\ [RouterNext]_routerVars => [SharePriceStep]_vars
  BY RouterStepImplements
<1>. QED BY <1>1, RouterInvariant, MarketInvariant, PTL
         DEF RouterSpec, SharePriceNeverFalls, SharePriceStep
=============================================================================
