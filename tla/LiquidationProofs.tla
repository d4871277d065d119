-------------------------- MODULE LiquidationProofs --------------------------
(***************************************************************************)
(* The receipts under liquidation, for any accounts, positions and prices: *)
(* storage stays well formed, the arrays stay exact, every receipt is      *)
(* backed, and an account that relies on itself neither becomes unhealthy  *)
(* by the calls of others nor loses a position in its own withdrawal,      *)
(* whatever the contracts called back do.                                  *)
(***************************************************************************)
EXTENDS Liquidation, EnumerableProofs, ArithmeticProofs, SequenceTheorems

\* The inductive invariant: burning a receipt needs the arrays to be exact.
Inv == TypeOK /\ EnumerationExact

\* Approvals are no part of the enumeration.
LEMMA ApproveReceiptCorrect ==
    ASSUME NEW n \in NftState, Enumerates(n), NEW to \in Account, NEW t \in Token
    PROVE  LET m == [n EXCEPT !.getApproved[t] = to]
           IN  m \in NftState /\ Enumerates(m) /\ m.ownerOf = n.ownerOf
<1> DEFINE m == [n EXCEPT !.getApproved[t] = to]
<1>1. m \in NftState
    BY DEF NftState
<1>2. /\ m.ownerOf = n.ownerOf
      /\ m.ownedTokens = n.ownedTokens
      /\ m.ownedTokensIndex = n.ownedTokensIndex
      /\ m.allTokens = n.allTokens
      /\ m.allTokensIndex = n.allTokensIndex
    BY DEF NftState
<1> HIDE DEF m
<1>3. \A a : TokensOf(m, a) = TokensOf(n, a) /\ BalanceOf(m, a) = BalanceOf(n, a)
    BY <1>2 DEF TokensOf, BalanceOf
<1>4. Enumerates(m)
    BY <1>2, <1>3 DEF Enumerates, OwnedListed, OwnedIndexed, AllListed, AllIndexed
<1> QED
    BY <1>1, <1>2, <1>4 DEF m

\* The contract starts with well formed, empty storage.
LEMMA InitCorrect == Init => Inv
<1> SUFFICES ASSUME Init PROVE Inv
    OBVIOUS
<1> USE ERC721Assumption, UniswapV3Assumption, LiquidationAssumption
<1>1. nft \in NftState
    <2>1. /\ [t \in Token |-> NoOne] \in [Token -> Account \cup {NoOne}]
          /\ [a \in Account |-> [i \in Index |-> 0]] \in [Account -> [Index -> Token \cup {0}]]
          /\ [t \in Token |-> 0] \in [Token -> Nat]
          /\ <<>> \in Seq(Token)
        OBVIOUS
    <2> QED
        BY <2>1 DEF Init, NewNft, NftState
<1>2. \A a \in Account : BalanceOf(nft, a) = 0
    <2>1. \A a \in Account : TokensOf(nft, a) = {}
        BY DEF Init, NewNft, TokensOf
    <2> QED
        BY <2>1, FS_EmptySet DEF BalanceOf
<1>3. EnumerationExact
    <2>1. \A t \in Token : nft.ownerOf[t] = NoOne
        BY DEF Init, NewNft
    <2>2. nft.allTokens = <<>>
        BY DEF Init, NewNft
    <2> QED
        BY <1>2, <2>1, <2>2 DEF EnumerationExact, Enumerates, OwnedListed, OwnedIndexed,
                               AllListed, AllIndexed
<1>4. quote \in [Coins -> Nat \cup {NoOracle}] /\ tokenScaleFactor \in [Coins -> Scales]
    BY DEF Init
<1>5. UniswapV3Type
    BY <1>1, <1>4 DEF Init, UniswapV3Type
<1>6. calls \in Seq(Call)
    BY DEF Init
<1>7. /\ debtMarkets \subseteq Market
      /\ loans \in LoanBook
      /\ vaultShares \in [Account -> Nat]
      /\ controllerLocked \in BOOLEAN
      /\ keep \subseteq Account
    BY DEF Init, Market, LoanBook
<1> QED
    BY <1>3, <1>5, <1>6, <1>7 DEF Inv, TypeOK

-----------------------------------------------------------------------------
(***************************************************************************)
(* The steps of UniswapV3, which the actions are made of.                  *)
(***************************************************************************)

\* mint up to its callbacks.
LEMMA MintPositionCorrect ==
    ASSUME Inv, NEW receiver \in Account, NEW t \in Token, MintPosition(receiver, t)
    PROVE  UniswapV3Type' /\ EnumerationExact'
<1>1. nft \in NftState /\ Enumerates(nft) /\ nft.ownerOf[t] = NoOne
    BY DEF Inv, TypeOK, UniswapV3Type, EnumerationExact, MintPosition
<1>2. nft' \in NftState /\ Enumerates(nft')
    BY <1>1, MintFields, MintEnumerates DEF MintPosition
<1> QED
    BY <1>2 DEF Inv, TypeOK, UniswapV3Type, EnumerationExact, MintPosition, Lock, prices

\* withdraw up to its callbacks.
LEMMA WithdrawPositionCorrect ==
    ASSUME Inv, NEW sender \in Account, NEW receiver \in Account, NEW t \in Token,
           WithdrawPosition(sender, receiver, t)
    PROVE  UniswapV3Type' /\ EnumerationExact' /\ nft.ownerOf[t] \in Account
<1>1. nft \in NftState /\ Enumerates(nft) /\ nft.ownerOf[t] # NoOne
    BY DEF Inv, TypeOK, UniswapV3Type, EnumerationExact, WithdrawPosition, MayWithdraw
<1>2. nft' \in NftState /\ Enumerates(nft')
    BY <1>1, BurnFields, BurnEnumerates DEF WithdrawPosition
<1>3. nft.ownerOf[t] \in Account
    BY <1>1 DEF NftState
<1> QED
    BY <1>2, <1>3 DEF Inv, TypeOK, UniswapV3Type, EnumerationExact, WithdrawPosition, Lock, prices

\* The end of a seizure.
LEMMA BurnSeizedCorrect ==
    ASSUME Inv, NEW t \in Token, BurnSeized(t)
    PROVE  UniswapV3Type' /\ EnumerationExact'
<1>1. nft \in NftState /\ Enumerates(nft) /\ nft.ownerOf[t] # NoOne
    BY DEF Inv, TypeOK, UniswapV3Type, EnumerationExact, BurnSeized
<1>2. nft' \in NftState /\ Enumerates(nft')
    BY <1>1, BurnFields, BurnEnumerates DEF BurnSeized
<1> QED
    BY <1>2 DEF Inv, TypeOK, UniswapV3Type, EnumerationExact, BurnSeized, Unlock, prices

\* The steps that touch no receipt.
LEMMA SeizePositionCorrect ==
    ASSUME Inv, NEW borrower \in Account, NEW liquidator \in Account, NEW t \in Token,
           SeizePosition(borrower, liquidator, t)
    PROVE  UniswapV3Type' /\ EnumerationExact'
BY DEF Inv, TypeOK, UniswapV3Type, EnumerationExact, SeizePosition, Lock, receipts, prices

\* The end of mint and of withdraw.
LEMMA UnlockCorrect ==
    ASSUME Inv, Unlock, UNCHANGED <<receipts, holder, prices, activatedPools>>
    PROVE  UniswapV3Type' /\ EnumerationExact'
BY DEF Inv, TypeOK, UniswapV3Type, EnumerationExact, Unlock, receipts, prices

\* A step of another contract.
LEMMA UnchangedCorrect ==
    ASSUME Inv, UNCHANGED uniswapVars
    PROVE  UniswapV3Type' /\ EnumerationExact'
BY DEF Inv, TypeOK, UniswapV3Type, EnumerationExact, uniswapVars

-----------------------------------------------------------------------------
(***************************************************************************)
(* The stack of calls.                                                     *)
(***************************************************************************)

\* The accounts a transaction must keep healthy are accounts.
LEMMA EnteredType == ASSUME TypeOK PROVE Entered \subseteq Account
BY DEF TypeOK, Entered

\* Opening a call.
LEMMA OpenType ==
    ASSUME TypeOK, NEW op, NEW callee, NEW sender, NEW account, NEW t,
           [op |-> op, callee |-> callee, sender |-> sender, account |-> account,
            token |-> t] \in Call,
           Open(op, callee, sender, account, t)
    PROVE  calls' \in Seq(Call) /\ keep' \subseteq Account
<1>1. calls \in Seq(Call)
    BY DEF TypeOK
<1>2. calls' \in Seq(Call)
    BY <1>1 DEF Open
<1> QED
    BY <1>2, EnteredType DEF Open

\* Closing one.
LEMMA CloseType ==
    ASSUME TypeOK, NEW op, Close(op)
    PROVE  calls' \in Seq(Call) /\ keep' \subseteq Account /\ Running \in Call
<1>1. calls \in Seq(Call) /\ calls # <<>>
    BY DEF TypeOK, Close
<1>2. Len(calls) \in 1..Len(calls) /\ Len(calls) - 1 \in 0..Len(calls)
    BY <1>1
<1>3. Running \in Call
    BY <1>1, <1>2 DEF Running
<1>4. SubSeq(calls, 1, Len(calls) - 1) \in Seq(Call)
    BY <1>1, <1>2
<1> QED
    BY <1>3, <1>4 DEF Close, TypeOK

\* Interest leaves a book.
LEMMA AccrueType ==
    ASSUME NEW interest \in Interests, loans \in LoanBook, AccrueInterest(interest)
    PROVE  loans' \in LoanBook
BY LiquidationAssumption DEF AccrueInterest, LoanBook

\* The actions outside the transactions change prices, pools, markets or loans.
LEMMA OutsideCorrect == Inv /\ Outside => Inv'
<1> SUFFICES ASSUME Inv, Outside PROVE Inv'
    OBVIOUS
<1> USE UniswapV3Assumption DEF Inv, TypeOK, UniswapV3Type, EnumerationExact, receipts, prices,
        controllerVars, lending
<1>1. calls' \in Seq(Call) /\ keep' \subseteq Account
    BY DEF Outside
<1>2. ASSUME NEW coin \in Coins, NEW answer \in Quotes[coin], Quote(coin, answer),
             UNCHANGED <<controllerVars, lending>>
      PROVE  Inv'
    BY <1>1, <1>2 DEF Quote
<1>3. ASSUME NEW coin \in Coins, NEW answer \in Quotes[coin] \cup {NoOracle},
             SetOracle(coin, answer), UNCHANGED <<controllerVars, lending>>
      PROVE  Inv'
    BY <1>1, <1>3 DEF SetOracle
<1>4. ASSUME NEW coin \in Coins, NEW factor \in Scales, SetScaleFactor(coin, factor),
             UNCHANGED <<controllerVars, lending>>
      PROVE  Inv'
    BY <1>1, <1>4 DEF SetScaleFactor
<1>5. ASSUME NEW pools \in SUBSET Pool, ActivatePools(pools),
             UNCHANGED <<controllerVars, lending>>
      PROVE  Inv'
    BY <1>1, <1>5 DEF ActivatePools
<1>6. ASSUME NEW pool \in Pool, PausePool(pool), UNCHANGED <<controllerVars, lending>>
      PROVE  Inv'
    BY <1>1, <1>6 DEF PausePool
<1>7. ASSUME NEW market \in Market, AddDebtMarket(market)
      PROVE  Inv'
    BY <1>1, <1>7 DEF AddDebtMarket, uniswapVars
<1>8. ASSUME NEW interest \in Interests, AccrueInterest(interest)
      PROVE  Inv'
    BY <1>1, <1>8, AccrueType DEF AccrueInterest, uniswapVars
<1> QED
    BY <1>2, <1>3, <1>4, <1>5, <1>6, <1>7, <1>8 DEF Outside

\* The rate, and what an account owes by it, are amounts.
LEMMA RateNat ==
    ASSUME NEW book \in LoanBook
    PROVE  /\ GetInterestRate(book) \in Nat
           /\ \A a \in Account : GetBorrowBalance(book, a) \in Nat
<1> USE LiquidationAssumption
<1>1. /\ book.totalBorrows \in Nat /\ book.totalBorrowShares \in Nat
      /\ book.borrowed \in [Account -> Nat]
    BY DEF LoanBook
<1>2. GetInterestRate(book) \in Nat
    BY <1>1, MulDivUpBounds DEF GetInterestRate
<1> QED
    BY <1>1, <1>2, MulDivUpBounds DEF GetBorrowBalance

\* A loan, with the interest of the time without loans, leaves a book.
LEMMA BorrowType ==
    ASSUME TypeOK, NEW a \in Account, NEW amount \in Loans, NEW interest \in Interests \cup {0},
           Borrow(a, amount, interest)
    PROVE  loans' \in LoanBook
<1> DEFINE rate   == GetInterestRate(loans)
           scaled == amount * ExpScale
           shares == scaled \div rate
<1>1. loans \in LoanBook /\ amount \in Nat /\ interest \in Nat /\ scaled \in Nat
    BY LiquidationAssumption, ProductNat DEF TypeOK
<1>2. rate \in Nat \ {0}
    BY <1>1, RateNat DEF Borrow
<1>3. loans' = [totalBorrows      |-> loans.totalBorrows + amount + interest,
                totalBorrowShares |-> loans.totalBorrowShares + shares,
                borrowed          |-> [loans.borrowed EXCEPT ![a] = @ + shares]]
    BY DEF Borrow
<1> HIDE DEF rate, scaled
<1>4. shares \in Nat
    BY <1>1, <1>2, DivBounds
<1> HIDE DEF shares
<1> QED
    BY <1>1, <1>3, <1>4 DEF LoanBook

\* repay and repayShares settle a loan.
LEMMA SettlementCases ==
    ASSUME TypeOK, NEW sender \in Account, NEW a \in Account, NEW amount \in Loans,
           Repay(sender, a, amount) \/ RepayShares(sender, a, amount)
    PROVE  \E assets, shares \in Nat : SettleLoan(a, assets, shares)
<1>1. /\ GetInterestRate(loans) \in Nat /\ amount \in Nat
      /\ ExpScale \in Nat \ {0} /\ loans.totalBorrows \in Nat
    BY RateNat, LiquidationAssumption DEF TypeOK, LoanBook
<1>2. CASE Repay(sender, a, amount)
    <2>1. MulDivUp(amount, ExpScale, GetInterestRate(loans)) \in Nat
        BY <1>1, <1>2, MulDivUpBounds DEF Repay
    <2> QED
        BY <1>1, <1>2, <2>1 DEF Repay
<1>3. CASE RepayShares(sender, a, amount)
    <2>1. MulDivUp(amount, GetInterestRate(loans), ExpScale) \in Nat
        BY <1>1, MulDivUpBounds
    <2> QED
        BY <1>1, <1>3, <2>1 DEF RepayShares
<1> QED
    BY <1>2, <1>3

\* It takes no more off than there is.
LEMMA SettleLoanType ==
    ASSUME TypeOK, NEW a \in Account, NEW assets \in Nat, NEW shares \in Nat,
           SettleLoan(a, assets, shares)
    PROVE  loans' \in LoanBook
BY DEF TypeOK, LoanBook, SettleLoan

\* Nor do shares that change hands.
LEMMA SendType ==
    ASSUME NEW f \in [Account -> Nat], NEW a \in Account, NEW b \in Account,
           NEW x \in Nat, f[a] >= x
    PROVE  Send(f, a, b, x) \in [Account -> Nat]
BY DEF Send

\* Every step keeps the storage well formed and the arrays exact.
LEMMA StepCorrect == Inv /\ [Next]_vars => Inv'
<1> SUFFICES ASSUME Inv, [Next]_vars PROVE Inv'
    OBVIOUS
<1> USE LiquidationAssumption
<1>0. /\ TypeOK
      /\ UniswapV3Type
      /\ debtMarkets \subseteq Market
      /\ loans \in LoanBook
      /\ vaultShares \in [Account -> Nat]
      /\ controllerLocked \in BOOLEAN
      /\ calls \in Seq(Call)
      /\ keep \subseteq Account
    BY DEF Inv, TypeOK
<1>1. ASSUME NEW sender \in Account, NEW a \in Account, NEW t \in Token, Mint(sender, a, t)
      PROVE  Inv'
    <2>1. UniswapV3Type' /\ EnumerationExact'
        BY <1>1, MintPositionCorrect DEF Mint
    <2>2. calls' \in Seq(Call) /\ keep' \subseteq Account
        BY <1>0, <1>1, OpenType DEF Mint, Call, CallOf
    <2> QED
        BY <1>0, <1>1, <2>1, <2>2 DEF Mint, Inv, TypeOK, controllerVars, lending
<1>2. ASSUME NEW sender \in Account, NEW a \in Account, NEW t \in Token, Withdraw(sender, a, t)
      PROVE  Inv'
    <2>1. UniswapV3Type' /\ EnumerationExact' /\ nft.ownerOf[t] \in Account
        BY <1>2, WithdrawPositionCorrect DEF Withdraw
    <2>2. calls' \in Seq(Call) /\ keep' \subseteq Account
        BY <1>0, <1>2, <2>1, OpenType DEF Withdraw, Call, CallOf
    <2> QED
        BY <1>0, <1>2, <2>1, <2>2 DEF Withdraw, Inv, TypeOK, controllerVars, lending
<1>3. ASSUME NEW a \in Account, NEW t \in Token, OnERC721Received(a, t)
      PROVE  Inv'
    <2>1. UniswapV3Type' /\ EnumerationExact'
        BY <1>3, MintPositionCorrect DEF OnERC721Received
    <2>2. calls' \in Seq(Call) /\ keep' \subseteq Account
        BY <1>0, <1>3, OpenType DEF OnERC721Received, Call, CallOf
    <2> QED
        BY <1>0, <1>3, <2>1, <2>2 DEF OnERC721Received, Inv, TypeOK, controllerVars, lending
<1>4. ASSUME NEW t \in Token, Seize(t)
      PROVE  Inv'
    <2>1. Running.sender \in Account /\ Running.account \in Account
        <3>1. Len(calls) \in 1..Len(calls)
            BY <1>0, <1>4 DEF Seize
        <3> QED
            BY <1>0, <3>1 DEF Running, Call, CallOf
    <2>2. UniswapV3Type' /\ EnumerationExact'
        BY <1>4, <2>1, SeizePositionCorrect DEF Seize
    <2>3. calls' \in Seq(Call) /\ keep' \subseteq Account
        BY <1>0, <1>4, <2>1, OpenType DEF Seize, Call, CallOf
    <2> QED
        BY <1>0, <1>4, <2>2, <2>3 DEF Seize, Inv, TypeOK, controllerVars, lending
<1>5. ASSUME MintEnd
      PROVE  Inv'
    <2>1. UniswapV3Type' /\ EnumerationExact'
        BY <1>5, UnlockCorrect DEF MintEnd
    <2> QED
        BY <1>0, <1>5, <2>1, CloseType DEF MintEnd, Inv, TypeOK, controllerVars, lending
<1>6. ASSUME WithdrawEnd
      PROVE  Inv'
    <2>1. UniswapV3Type' /\ EnumerationExact'
        BY <1>6, UnlockCorrect DEF WithdrawEnd
    <2> QED
        BY <1>0, <1>6, <2>1, CloseType DEF WithdrawEnd, Inv, TypeOK, controllerVars, lending
<1>7. ASSUME SeizeEnd
      PROVE  Inv'
    <2>1. calls' \in Seq(Call) /\ keep' \subseteq Account /\ Running \in Call
        BY <1>0, <1>7, CloseType DEF SeizeEnd
    <2>2. Running.token \in Token
        BY <1>7, <2>1 DEF SeizeEnd, Close, Call, CallOf
    <2>3. UniswapV3Type' /\ EnumerationExact'
        BY <1>7, <2>2, BurnSeizedCorrect DEF SeizeEnd
    <2> QED
        BY <1>0, <1>7, <2>1, <2>3 DEF SeizeEnd, Inv, TypeOK, controllerVars, lending
<1>8. ASSUME LiquidateEnd
      PROVE  Inv'
    BY <1>0, <1>8, CloseType, UnchangedCorrect DEF LiquidateEnd, Inv, TypeOK, lending
<1>9. ASSUME NEW sender \in Account, NEW liquidator \in Account, NEW a \in Account,
             Liquidate(sender, liquidator, a)
      PROVE  Inv'
    <2>1. calls' \in Seq(Call) /\ keep' \subseteq Account
        BY <1>0, <1>9, OpenType DEF Liquidate, Call, CallOf
    <2> QED
        BY <1>0, <1>9, <2>1, UnchangedCorrect DEF Liquidate, Inv, TypeOK, lending
<1>10. ASSUME NEW a \in Account, NEW amount \in Loans, NEW interest \in Interests \cup {0},
              Borrow(a, amount, interest)
       PROVE  Inv'
    BY <1>0, <1>10, EnteredType, BorrowType, UnchangedCorrect
       DEF Borrow, Inv, TypeOK, controllerVars
<1>11. ASSUME NEW sender \in Account, NEW a \in Account, NEW amount \in Loans,
              Repay(sender, a, amount) \/ RepayShares(sender, a, amount)
       PROVE  Inv'
    <2>1. PICK assets \in Nat, shares \in Nat : SettleLoan(a, assets, shares)
        BY <1>0, <1>11, SettlementCases
    <2> QED
        BY <1>0, <2>1, EnteredType, SettleLoanType, UnchangedCorrect
           DEF SettleLoan, Inv, TypeOK, controllerVars
<1>12. ASSUME NEW sender \in Account, NEW operator \in Account, NEW t \in Token,
              Approve(sender, operator, t)
       PROVE  Inv'
    <2>1. nft' \in NftState /\ Enumerates(nft')
        BY <1>12, ApproveReceiptCorrect
           DEF Approve, ApproveReceipt, Inv, TypeOK, UniswapV3Type, EnumerationExact
    <2>2. UniswapV3Type' /\ EnumerationExact'
        BY <1>0, <1>12, <2>1 DEF Approve, ApproveReceipt, UniswapV3Type, EnumerationExact, prices
    <2> QED
        BY <1>0, <1>12, <2>2, EnteredType DEF Approve, Inv, TypeOK, controllerVars, lending
<1>13. ASSUME NEW sender \in Account, NEW operator \in Account, NEW approved \in BOOLEAN,
              SetApprovalForAll(sender, operator, approved)
       PROVE  Inv'
    <2>1. isApprovedForAll' \in [Account -> SUBSET Account]
        BY <1>0, <1>13 DEF SetApprovalForAll, ApproveOperator, UniswapV3Type
    <2>2. UniswapV3Type' /\ EnumerationExact'
        BY <1>0, <1>13, <2>1
           DEF SetApprovalForAll, ApproveOperator, Inv, UniswapV3Type, EnumerationExact, prices
    <2> QED
        BY <1>0, <1>13, <2>2, EnteredType DEF SetApprovalForAll, Inv, TypeOK, controllerVars, lending
<1>14. ASSUME NEW t \in Token, NEW to \in Account \cup {Vault}, TransferPosition(to, t)
       PROVE  Inv'
    <2>1. UniswapV3Type' /\ EnumerationExact'
        BY <1>0, <1>14
           DEF TransferPosition, MovePosition, Inv, UniswapV3Type, EnumerationExact, receipts, prices
    <2> QED
        BY <1>0, <1>14, <2>1, EnteredType
           DEF TransferPosition, Within, Inv, TypeOK, controllerVars, lending
<1>15. ASSUME NEW sender \in Account, NEW pool \in Pool, NEW to \in Ticks,
              SwapInPool(sender, pool, to)
       PROVE  Inv'
    <2>1. UniswapV3Type' /\ EnumerationExact'
        BY <1>0, <1>15 DEF SwapInPool, Swap, Inv, UniswapV3Type, EnumerationExact, receipts
    <2> QED
        BY <1>0, <1>15, <2>1 DEF SwapInPool, Inv, TypeOK, controllerVars, lending
<1>16. ASSUME NEW x \in Shares, SeizeShares(x)
       PROVE  Inv'
    <2>1. Running.sender \in Account /\ Running.account \in Account
        <3>1. Len(calls) \in 1..Len(calls)
            BY <1>0, <1>16 DEF SeizeShares
        <3> QED
            BY <1>0, <3>1 DEF Running, Call, CallOf
    <2>2. vaultShares' \in [Account -> Nat]
        BY <1>0, <1>16, <2>1, SendType DEF SeizeShares
    <2> QED
        BY <1>0, <1>16, <2>2, UnchangedCorrect DEF SeizeShares, Inv, TypeOK, controllerVars
<1>17. ASSUME NEW a \in Account, NEW b \in Account, NEW x \in Shares, TransferShares(a, b, x)
       PROVE  Inv'
    <2>1. vaultShares' \in [Account -> Nat]
        BY <1>0, <1>17, SendType DEF TransferShares
    <2> QED
        BY <1>0, <1>17, <2>1, EnteredType, UnchangedCorrect
           DEF TransferShares, Within, Inv, TypeOK, controllerVars
<1>18. CASE Outside
    BY <1>18, OutsideCorrect
<1>19. CASE UNCHANGED vars
    BY <1>0, <1>19, UnchangedCorrect DEF vars, Inv, TypeOK, controllerVars, lending
<1> QED
    BY <1>1, <1>2, <1>3, <1>4, <1>5, <1>6, <1>7, <1>8, <1>9, <1>10, <1>11, <1>12, <1>13,
       <1>14, <1>15, <1>16, <1>17, <1>18, <1>19 DEF Next

\* Every word of storage keeps its kind, and every open call is of a function
\* that calls out.
THEOREM LiquidationTypeCorrect == Spec => []TypeOK
<1>1. Spec => []Inv
    BY InitCorrect, StepCorrect, PTL DEF Spec
<1>2. Inv => TypeOK
    BY DEF Inv
<1> QED
    BY <1>1, <1>2, PTL

\* However deposits, withdrawals and seizures follow each other, the arrays
\* that getCollateralUsd walks list each account's receipts exactly once.
THEOREM EnumerationCorrect == Spec => []EnumerationExact
<1>1. Spec => []Inv
    BY InitCorrect, StepCorrect, PTL DEF Spec
<1>2. Inv => EnumerationExact
    BY DEF Inv
<1> QED
    BY <1>1, <1>2, PTL

-----------------------------------------------------------------------------
(***************************************************************************)
(* Receipts are backed.                                                    *)
(***************************************************************************)

\* A position whose seizure is under way.
Seized(stack, t) == \E i \in 1..Len(stack) : stack[i].op = "seize" /\ stack[i].token = t

Backed(n, held, stack) ==
    \A t \in Token : n.ownerOf[t] # NoOne => held[t] = Vault \/ Seized(stack, t)

\* Opening a call leaves the seizures under way.
LEMMA SeizedOpen ==
    ASSUME NEW stack \in Seq(Call), NEW call \in Call, NEW t
    PROVE  /\ Seized(stack, t) => Seized(Append(stack, call), t)
           /\ call.op = "seize" /\ call.token = t => Seized(Append(stack, call), t)
<1>1. Seized(stack, t) => Seized(Append(stack, call), t)
    <2> SUFFICES ASSUME Seized(stack, t) PROVE Seized(Append(stack, call), t)
        OBVIOUS
    <2>1. PICK i \in 1..Len(stack) : stack[i].op = "seize" /\ stack[i].token = t
        BY DEF Seized
    <2>2. i \in 1..Len(Append(stack, call)) /\ Append(stack, call)[i] = stack[i]
        BY <2>1
    <2> QED
        BY <2>1, <2>2 DEF Seized
<1>2. ASSUME call.op = "seize", call.token = t PROVE Seized(Append(stack, call), t)
    <2>1. /\ Len(stack) + 1 \in 1..Len(Append(stack, call))
          /\ Append(stack, call)[Len(stack) + 1] = call
        OBVIOUS
    <2> QED
        BY <1>2, <2>1 DEF Seized
<1> QED
    BY <1>1, <1>2

\* Closing a call ends at most the seizure it was.
LEMMA SeizedClose ==
    ASSUME NEW stack \in Seq(Call), stack # <<>>, NEW t, Seized(stack, t),
           stack[Len(stack)].op # "seize" \/ stack[Len(stack)].token # t
    PROVE  Seized(SubSeq(stack, 1, Len(stack) - 1), t)
<1>1. PICK i \in 1..Len(stack) : stack[i].op = "seize" /\ stack[i].token = t
    BY DEF Seized
<1>2. i \in 1..(Len(stack) - 1)
    BY <1>1
<1>3. /\ Len(SubSeq(stack, 1, Len(stack) - 1)) = Len(stack) - 1
      /\ SubSeq(stack, 1, Len(stack) - 1)[i] = stack[i]
    BY <1>2
<1> QED
    BY <1>1, <1>2, <1>3 DEF Seized

\* No step leaves a receipt without its position, except the seizure itself
\* until it has ended.
LEMMA StepBacked ==
    Inv /\ Backed(nft, holder, calls) /\ [Next]_vars => Backed(nft', holder', calls')
<1> SUFFICES ASSUME Inv, Backed(nft, holder, calls), [Next]_vars
             PROVE  Backed(nft', holder', calls')
    OBVIOUS
<1> USE LiquidationAssumption
<1>0. /\ nft \in NftState
      /\ Enumerates(nft)
      /\ holder \in [Token -> Account \cup {Vault}]
      /\ calls \in Seq(Call)
    BY DEF Inv, TypeOK, UniswapV3Type, EnumerationExact
<1>1. ASSUME nft'.ownerOf = nft.ownerOf, holder' = holder, calls' = calls
      PROVE  Backed(nft', holder', calls')
    BY <1>1 DEF Backed
<1>2. ASSUME NEW sender \in Account, NEW a \in Account, NEW t \in Token,
             MintPosition(a, t), Open("mint", a, sender, a, t)
      PROVE  Backed(nft', holder', calls')
    <2>1. nft'.ownerOf = [nft.ownerOf EXCEPT ![t] = a]
        <3>1. nft.ownerOf[t] = NoOne /\ nft' = MintToken(nft, a, t)
            BY <1>2 DEF MintPosition
        <3>2. Minted(nft, nft', a, t)
            BY <1>0, <3>1, MintFields
        <3> QED
            BY <3>2 DEF Minted
    <2>2. \A u \in Token : Seized(calls, u) => Seized(calls', u)
        BY <1>0, <1>2, SeizedOpen DEF Open, Call, CallOf
    <2>3. holder' = [holder EXCEPT ![t] = Vault]
        BY <1>2 DEF MintPosition
    <2> QED
        BY <1>0, <2>1, <2>2, <2>3 DEF Backed, NftState
<1>3. ASSUME NEW sender \in Account, NEW a \in Account, NEW t \in Token, Withdraw(sender, a, t)
      PROVE  Backed(nft', holder', calls')
    <2>1. nft.ownerOf[t] # NoOne /\ nft.ownerOf[t] \in Account
        BY <1>0, <1>3 DEF Withdraw, WithdrawPosition, MayWithdraw, NftState
    <2>2. nft'.ownerOf = [nft.ownerOf EXCEPT ![t] = NoOne]
        BY <1>0, <1>3, <2>1, BurnFields DEF Withdraw, WithdrawPosition, Burned
    <2>3. \A u \in Token : Seized(calls, u) => Seized(calls', u)
        BY <1>0, <1>3, <2>1, SeizedOpen DEF Withdraw, Open, Call, CallOf
    <2>4. holder' = [holder EXCEPT ![t] = a]
        BY <1>3 DEF Withdraw, WithdrawPosition
    <2> QED
        BY <1>0, <2>2, <2>3, <2>4 DEF Backed, NftState
<1>4. ASSUME NEW t \in Token, Seize(t)
      PROVE  Backed(nft', holder', calls')
    <2>1. Running.sender \in Account /\ Running.account \in Account
        <3>1. Len(calls) \in 1..Len(calls)
            BY <1>0, <1>4 DEF Seize
        <3> QED
            BY <1>0, <3>1 DEF Running, Call, CallOf
    <2> DEFINE call == [op |-> "seize", callee |-> Running.sender, sender |-> Running.sender,
                        account |-> Running.account, token |-> t]
    <2>2. call \in Call /\ call.op = "seize" /\ call.token = t
        BY <2>1 DEF Call, CallOf
    <2>3. calls' = Append(calls, call)
        BY <1>4 DEF Seize, Open
    <2> HIDE DEF call
    <2>4. Seized(calls', t) /\ \A u \in Token : Seized(calls, u) => Seized(calls', u)
        BY <1>0, <2>2, <2>3, SeizedOpen
    <2>5. nft' = nft /\ holder' = [holder EXCEPT ![t] = Running.sender]
        BY <1>4 DEF Seize, SeizePosition, receipts
    <2> QED
        BY <1>0, <2>4, <2>5 DEF Backed
<1>5. ASSUME nft' = nft, holder' = holder, NEW op, op # "seize", Close(op)
      PROVE  Backed(nft', holder', calls')
    <2>1. \A u \in Token : Seized(calls, u) => Seized(calls', u)
        BY <1>0, <1>5, SeizedClose DEF Close, Running
    <2> QED
        BY <1>5, <2>1 DEF Backed
<1>6. ASSUME SeizeEnd
      PROVE  Backed(nft', holder', calls')
    <2> DEFINE t == Running.token
    <2>1. Running \in Call
        BY <1>6, CloseType DEF SeizeEnd, Inv
    <2>2. t \in Token
        BY <1>6, <2>1 DEF SeizeEnd, Close, Call, CallOf
    <2>3. nft'.ownerOf = [nft.ownerOf EXCEPT ![t] = NoOne]
        BY <1>0, <1>6, <2>2, BurnFields DEF SeizeEnd, BurnSeized, Burned
    <2>4. \A u \in Token \ {t} : Seized(calls, u) => Seized(calls', u)
        BY <1>0, <1>6, SeizedClose DEF SeizeEnd, Close, Running
    <2>5. holder' = holder
        BY <1>6 DEF SeizeEnd, BurnSeized
    <2> HIDE DEF t
    <2> QED
        BY <1>0, <2>2, <2>3, <2>4, <2>5 DEF Backed, NftState
<1>7. ASSUME NEW sender \in Account, NEW liquidator \in Account, NEW a \in Account,
             Liquidate(sender, liquidator, a)
      PROVE  Backed(nft', holder', calls')
    <2>1. nft' = nft /\ holder' = holder
        BY <1>7 DEF Liquidate, uniswapVars
    <2>2. \A u \in Token : Seized(calls, u) => Seized(calls', u)
        BY <1>0, <1>7, SeizedOpen DEF Liquidate, Open, Call, CallOf
    <2> QED
        BY <2>1, <2>2 DEF Backed
<1>8. ASSUME NEW t \in Token, NEW to, TransferPosition(to, t)
      PROVE  Backed(nft', holder', calls')
    BY <1>0, <1>8 DEF Backed, TransferPosition, MovePosition, Within, receipts
<1>9. ASSUME NEW sender, NEW to \in Account, NEW t \in Token, Approve(sender, to, t)
      PROVE  Backed(nft', holder', calls')
    <2>1. nft'.ownerOf = nft.ownerOf
        BY <1>0, <1>9, ApproveReceiptCorrect DEF Approve, ApproveReceipt
    <2> QED
        BY <1>1, <1>9, <2>1 DEF Approve, ApproveReceipt
<1>10. CASE Outside
    BY <1>1, <1>10
       DEF Outside, Quote, SetOracle, SetScaleFactor, ActivatePools, PausePool, AddDebtMarket,
           AccrueInterest, uniswapVars, receipts
<1>11. CASE UNCHANGED vars
    BY <1>1, <1>11 DEF vars, uniswapVars
<1>12. ASSUME NEW sender \in Account, NEW a \in Account, NEW t \in Token, Mint(sender, a, t)
       PROVE  Backed(nft', holder', calls')
    BY <1>2, <1>12 DEF Mint
<1>13. ASSUME NEW a \in Account, NEW t \in Token, OnERC721Received(a, t)
       PROVE  Backed(nft', holder', calls')
    BY <1>2, <1>13 DEF OnERC721Received
<1>14. CASE MintEnd
    BY <1>5, <1>14 DEF MintEnd, receipts
<1>15. CASE WithdrawEnd
    BY <1>5, <1>15 DEF WithdrawEnd, receipts
<1>16. CASE LiquidateEnd
    BY <1>5, <1>16 DEF LiquidateEnd, uniswapVars
<1>17. ASSUME NEW a, NEW amount, NEW interest, Borrow(a, amount, interest)
       PROVE  Backed(nft', holder', calls')
    BY <1>1, <1>17 DEF Borrow, uniswapVars
<1>18. ASSUME NEW sender, NEW a, NEW amount,
              Repay(sender, a, amount) \/ RepayShares(sender, a, amount)
       PROVE  Backed(nft', holder', calls')
    BY <1>1, <1>18 DEF Repay, RepayShares, SettleLoan, uniswapVars
<1>19. ASSUME NEW a, NEW b, NEW x, SeizeShares(x) \/ TransferShares(a, b, x)
       PROVE  Backed(nft', holder', calls')
    BY <1>1, <1>19 DEF SeizeShares, TransferShares, Within, uniswapVars
<1>20. ASSUME NEW sender, NEW operator, NEW approved, SetApprovalForAll(sender, operator, approved)
       PROVE  Backed(nft', holder', calls')
    BY <1>1, <1>20 DEF SetApprovalForAll, ApproveOperator
<1>21. ASSUME NEW sender, NEW pool, NEW to, SwapInPool(sender, pool, to)
       PROVE  Backed(nft', holder', calls')
    BY <1>1, <1>21 DEF SwapInPool, Swap, receipts
<1> QED
    BY <1>3, <1>4, <1>6, <1>7, <1>8, <1>9, <1>10, <1>11, <1>12, <1>13, <1>14, <1>15, <1>16,
       <1>17, <1>18, <1>19, <1>20, <1>21 DEF Next

\* Whatever the contracts called back do, the position of every receipt is in
\* the contract, except while its own seizure is under way.
THEOREM ReceiptsBackedCorrect == Spec => []ReceiptsBacked
<1>1. Init => Inv /\ ReceiptsBacked
    BY InitCorrect DEF Init, NewNft, ReceiptsBacked
<1>2. Inv /\ ReceiptsBacked /\ [Next]_vars => Inv' /\ ReceiptsBacked'
    BY StepCorrect, StepBacked DEF ReceiptsBacked, Backed, Seized
<1> QED
    BY <1>1, <1>2, PTL DEF Spec
-----------------------------------------------------------------------------
(***************************************************************************)
(* Health.                                                                 *)
(***************************************************************************)

\* A position is worth what the prices say.
LEMMA ValueSame ==
    ASSUME UNCHANGED prices
    PROVE  \A t : /\ GetAssetValueUsd(t)' = GetAssetValueUsd(t)
                  /\ Priced(t)' <=> Priced(t)
BY DEF prices, GetAssetValueUsd, Priced, CoinValue, Amount0, Amount1,
       GetAmount0Delta, GetAmount1Delta, PriceInRange

\* The health of an account reads its own receipts, its debt and the prices.
LEMMA HealthLocal ==
    ASSUME UNCHANGED <<prices, debtMarkets>>, NEW a,
           nft'.ownedTokens[a] = nft.ownedTokens[a],
           BalanceOf(nft', a) = BalanceOf(nft, a)
    PROVE  /\ HealthKnown(a)' <=> HealthKnown(a)
           /\ MaxBorrowUsd(a)' = MaxBorrowUsd(a)
<1>1. CollateralPriced(a)' <=> CollateralPriced(a)
    BY ValueSame DEF CollateralPriced, TokenOfOwnerByIndex
<1>2. GetCollateralUsd(a)' = GetCollateralUsd(a)
    BY ValueSame DEF GetCollateralUsd, TokenOfOwnerByIndex
<1> QED
    BY <1>1, <1>2 DEF HealthKnown, MaxBorrowUsd, GetMaxBorrowUsd

\* A position that can be priced is worth a number of dollars.
LEMMA AssetValueNat ==
    ASSUME UniswapV3Type, NEW t \in Token, Priced(t)
    PROVE  GetAssetValueUsd(t) \in Nat
<1> USE UniswapV3Assumption
<1> DEFINE p == Positions[t]
           coins == PoolCoins[p.pool]
<1>1. /\ p.pool \in Pool /\ p.liquidity \in Nat /\ p.owed0 \in Nat /\ p.owed1 \in Nat
      /\ p.tickLower \in Nat \ {0} /\ p.tickUpper \in Nat /\ p.tickLower < p.tickUpper
    OBVIOUS
<1>2. coins \in Coins \X Coins /\ tick[p.pool] \in Nat
    BY <1>1 DEF UniswapV3Type
<1>3. /\ PriceInRange(p) \in Nat \ {0} /\ p.tickUpper \in Nat \ {0}
      /\ p.tickLower <= PriceInRange(p) /\ PriceInRange(p) <= p.tickUpper
    BY <1>1, <1>2 DEF PriceInRange
<1>4. Amount0(t) \in Nat /\ Amount1(t) \in Nat
    <2>1. p.tickUpper - PriceInRange(p) \in Nat /\ PriceInRange(p) - p.tickLower \in Nat
        BY <1>1, <1>3
    <2>2. p.liquidity * Q96 \in Nat
        BY <1>1, ProductNat
    <2>3. GetAmount0Delta(PriceInRange(p), p.tickUpper, p.liquidity) \in Nat
        BY <1>3, <2>1, <2>2, MulDivDownBounds, DivBounds DEF GetAmount0Delta
    <2>4. GetAmount1Delta(p.tickLower, PriceInRange(p), p.liquidity) \in Nat
        BY <1>1, <2>1, MulDivDownBounds DEF GetAmount1Delta
    <2> QED
        BY <1>1, <2>3, <2>4 DEF Amount0, Amount1
<1>5. ASSUME NEW coin \in Coins, NEW amount \in Nat, amount > 0 => quote[coin] # NoOracle
      PROVE  CoinValue(coin, amount) \in Nat
    <2>1. CASE amount > 0
        <3>1. quote[coin] \in Nat /\ tokenScaleFactor[coin] \in Nat
            BY <1>5, <2>1 DEF UniswapV3Type
        <3> QED
            BY <2>1, <3>1, ProductNat DEF CoinValue
    <2> QED
        BY <2>1 DEF CoinValue
<1>6. CoinValue(coins[1], Amount0(t)) \in Nat /\ CoinValue(coins[2], Amount1(t)) \in Nat
    BY <1>2, <1>4, <1>5 DEF Priced
<1>7. CoinValue(coins[1], Amount0(t)) + CoinValue(coins[2], Amount1(t)) \in Nat
    BY <1>6
<1> QED
    BY <1>7, DivBounds DEF GetAssetValueUsd

\* A deposit adds its value to the collateral of the receiver.
LEMMA HealthAfterMint ==
    ASSUME UniswapV3Type, Enumerates(nft), NEW a \in Account, NEW t \in Token,
           MintPosition(a, t), UNCHANGED debtMarkets, HealthKnown(a)
    PROVE  /\ HealthKnown(a)'
           /\ MaxBorrowUsd(a) \in Int
           /\ MaxBorrowUsd(a)' \in Int
           /\ MaxBorrowUsd(a) <= MaxBorrowUsd(a)'
<1> DEFINE n == BalanceOf(nft, a)
<1>1. /\ nft \in NftState /\ nft.ownerOf[t] = NoOne /\ Priced(t)
      /\ Minted(nft, nft', a, t)
      /\ UNCHANGED prices
    BY MintFields DEF UniswapV3Type, MintPosition
<1>2. n \in Nat /\ n \in Index /\ BalanceOf(nft', a) = n + 1
    <2>1. n \in Index
        BY <1>1, RoomForToken, ERC721Assumption
    <2> QED
        BY <1>1, <2>1, BalanceAfterMint, ERC721Assumption DEF Minted, Index
<1>3. /\ nft'.ownedTokens[a][n] = t
      /\ \A i \in 0..(n - 1) : nft'.ownedTokens[a][i] = nft.ownedTokens[a][i]
    <2>1. nft.ownedTokens \in [Account -> [Index -> Token \cup {0}]]
        BY <1>1 DEF NftState
    <2>2. nft'.ownedTokens[a] = [nft.ownedTokens[a] EXCEPT ![n] = t]
        BY <1>1, <2>1 DEF Minted
    <2>3. \A i \in 0..(n - 1) : i \in Index /\ i # n
        BY <1>2, ERC721Assumption DEF Index
    <2> HIDE DEF n
    <2> QED
        BY <1>2, <2>1, <2>2, <2>3
<1>4. \A i \in 0..(n - 1) : nft.ownedTokens[a][i] \in Token
    BY DEF Enumerates, OwnedListed, TokensOf
<1>5. CASE "asset" \notin debtMarkets
    BY <1>5 DEF HealthKnown, MaxBorrowUsd
<1>6. CASE "asset" \in debtMarkets
    <2> DEFINE own(i) == nft.ownedTokens[a][i - 1]
               own1(i) == nft'.ownedTokens[a][i - 1]
               value(u) == GetAssetValueUsd(u)
               counted(u) == IF value(u) < MinDeposit THEN 0 ELSE value(u)
               f == [i \in 1..n |-> counted(own(i))]
               e == [i \in 1..(n+1) |-> counted(own1(i))]
    <2>1. \A i \in 0..(n - 1) : Priced(nft.ownedTokens[a][i])
        BY <1>6 DEF HealthKnown, CollateralPriced, TokenOfOwnerByIndex
    <2>2. CollateralPriced(a)'
        <3>1. \A i \in 0..n : Priced(nft'.ownedTokens[a][i])
            BY <1>1, <1>2, <1>3, <2>1
        <3> QED
            BY <1>1, <1>2, <3>1, ValueSame DEF CollateralPriced, TokenOfOwnerByIndex
    <2>3. GetCollateralUsd(a) = Sum(f, n)
        BY DEF GetCollateralUsd, TokenOfOwnerByIndex
    <2>4. GetCollateralUsd(a)' = Sum(e, n + 1)
        BY <1>1, <1>2, ValueSame DEF GetCollateralUsd, TokenOfOwnerByIndex
    <2>5. \A i \in 1..(n+1) : Priced(own1(i)) /\ own1(i) \in Token
        BY <1>1, <1>2, <1>3, <1>4, <2>1
    <2>6. \A i \in 1..(n+1) : counted(own1(i)) \in Nat
        BY <2>5, AssetValueNat
    <2>7. \A i \in 1..n : own(i) = own1(i) /\ i \in 1..(n+1)
        BY <1>2, <1>3
    <2> HIDE DEF own, own1, value, counted
    <2>8. /\ f \in [1..n -> Int] /\ e \in [1..(n+1) -> Int]
          /\ e[n+1] \in Nat
          /\ \A i \in 1..n : e[i] = f[i]
        BY <1>2, <2>6, <2>7
    <2> HIDE DEF f, e
    <2>9. Sum(e, n + 1) = Sum(f, n) + e[n+1] /\ Sum(f, n) \in Int
        BY <1>2, <2>8, SumAppend, SumInt
    <2>10. /\ GetCollateralUsd(a) \in Int /\ GetCollateralUsd(a)' \in Int
           /\ GetCollateralUsd(a) <= GetCollateralUsd(a)'
        BY <2>3, <2>4, <2>8, <2>9
    <2>11. ASSUME NEW x \in Int, NEW y \in Int, x <= y
           PROVE  /\ MulDivDown(x, CollateralFactor, Bips) \in Int
                  /\ MulDivDown(y, CollateralFactor, Bips) \in Int
                  /\ MulDivDown(x, CollateralFactor, Bips) <= MulDivDown(y, CollateralFactor, Bips)
        BY <2>11 DEF MulDivDown, CollateralFactor, Bips
    <2>12. /\ GetMaxBorrowUsd(a) \in Int /\ GetMaxBorrowUsd(a)' \in Int
           /\ GetMaxBorrowUsd(a) <= GetMaxBorrowUsd(a)'
        BY <2>10, <2>11 DEF GetMaxBorrowUsd
    <2> QED
        BY <1>6, <2>2, <2>12 DEF HealthKnown, MaxBorrowUsd
<1> QED
    BY <1>5, <1>6

\* What an account may borrow is an amount.
LEMMA MaxBorrowNat ==
    ASSUME UniswapV3Type, Enumerates(nft), NEW a \in Account, HealthKnown(a)
    PROVE  MaxBorrowUsd(a) \in Nat
<1> DEFINE n == BalanceOf(nft, a)
           counted(u) == IF GetAssetValueUsd(u) < MinDeposit THEN 0 ELSE GetAssetValueUsd(u)
           f == [i \in 1..n |-> counted(nft.ownedTokens[a][i - 1])]
<1>1. CASE "asset" \notin debtMarkets
    BY <1>1 DEF MaxBorrowUsd
<1>2. CASE "asset" \in debtMarkets
    <2>1. \A i \in 0..(n - 1) : nft.ownedTokens[a][i] \in Token /\ Priced(nft.ownedTokens[a][i])
        BY <1>2 DEF HealthKnown, CollateralPriced, TokenOfOwnerByIndex, Enumerates,
                    OwnedListed, TokensOf
    <2>2. n \in Nat
        BY BalanceType, ERC721Assumption
    <2>3. \A i \in 0..(n - 1) : counted(nft.ownedTokens[a][i]) \in Nat
        BY <2>1, AssetValueNat
    <2>4. GetCollateralUsd(a) = Sum(f, n)
        BY DEF GetCollateralUsd, TokenOfOwnerByIndex
    <2> HIDE DEF counted, n
    <2>5. f \in [1..n -> Nat]
        <3>1. \A i \in 1..n : i - 1 \in 0..(n - 1)
            BY <2>2
        <3> QED
            BY <2>3, <3>1
    <2>6. GetCollateralUsd(a) \in Nat
        <3> HIDE DEF f
        <3> QED
            BY <2>2, <2>4, <2>5, SumNat
    <2> QED
        BY <1>2, <2>6, MulDivDownBounds DEF MaxBorrowUsd, GetMaxBorrowUsd, CollateralFactor, Bips
<1> QED
    BY <1>1, <1>2

\* So is what it owes.
LEMMA TotalBorrowNat ==
    ASSUME NEW a \in Account
    PROVE  /\ loans \in LoanBook => TotalBorrowUsd(a) \in Nat
           /\ loans' \in LoanBook => TotalBorrowUsd(a)' \in Nat
<1>1. ASSUME NEW book \in LoanBook
      PROVE  MulDivUp(GetBorrowBalance(book, a), LoanPrice, TokenScale) \in Nat
    BY RateNat, MulDivUpBounds, LiquidationAssumption
<1>2. GetDebtBalanceUsd(a)' = MulDivUp(GetBorrowBalance(loans', a), LoanPrice, TokenScale)
    BY DEF GetDebtBalanceUsd, GetBorrowBalance, GetInterestRate
<1> QED
    BY <1>1, <1>2 DEF TotalBorrowUsd, GetDebtBalanceUsd

-----------------------------------------------------------------------------
(***************************************************************************)
(* Solvency.  The argument is about the accounts K that the running        *)
(* transaction must leave healthy.  An account of K is unhealthy only      *)
(* under a withdrawal of its own, which holds the lock until it has        *)
(* checked the account; so a liquidation that is opened against it         *)
(* meanwhile cannot seize, and a seizure never hits K.                     *)
(***************************************************************************)

\* Nobody but the account itself may handle its receipts.
SelfReliant(a) ==
    /\ isApprovedForAll[a] = {}
    /\ \A t \in TokensOf(nft, a) : nft.getApproved[t] = NoOne

\* One of the first n open calls is a withdrawal made by the account.
Withdrawing(stack, n, a) ==
    \E i \in 1..n : stack[i].op = "withdraw" /\ stack[i].sender = a

Protected(K) ==
    \A a \in K : SelfReliant(a) /\ (Healthy(a) \/ Withdrawing(calls, Len(calls), a))

\* _burn has cleared the approval of every receipt that does not exist.
Unapproved == \A t \in Token : nft.ownerOf[t] = NoOne => nft.getApproved[t] = NoOne

\* The calls that hold the lock of UniswapV3.
HoldsLock(call) == call.op # "liquidate"

\* One call at most holds the lock; a liquidation of an account of K is under
\* a withdrawal of that account; a seizure is of a receipt of its account, and
\* no account of K.
StackOK(stack, lock, owners, K) ==
    /\ \A i \in 1..Len(stack) : HoldsLock(stack[i]) => lock
    /\ \A i, j \in 1..Len(stack) : HoldsLock(stack[i]) /\ HoldsLock(stack[j]) => i = j
    /\ \A i \in 1..Len(stack) : stack[i].op = "liquidate" /\ stack[i].account \in K
          => Withdrawing(stack, i - 1, stack[i].account)
    /\ \A i \in 1..Len(stack) : stack[i].op = "seize"
          => owners[stack[i].token] = stack[i].account /\ stack[i].account \notin K

KeepsK(K) == Protected(K) /\ StackOK(calls, locked, nft.ownerOf, K)

\* The inductive invariant.
SolvencyInv == Inv /\ Unapproved /\ KeepsK(keep)

\* It holds for fewer accounts, too.
LEMMA KeepsFewer ==
    ASSUME NEW stack, NEW lock, NEW owners, NEW K, NEW L, L \subseteq K,
           StackOK(stack, lock, owners, K)
    PROVE  StackOK(stack, lock, owners, L)
BY DEF StackOK

\* What a call relies on when it starts.
LEMMA EnteredKept == SolvencyInv => KeepsK(Entered)
<1> SUFFICES ASSUME SolvencyInv PROVE KeepsK(Entered)
    OBVIOUS
<1>1. CASE calls = <<>>
    <2>1. Protected(Entered)
        BY <1>1 DEF Protected, Entered, Relies, SelfReliant
    <2>2. Len(calls) = 0
        BY <1>1
    <2>3. StackOK(calls, locked, nft.ownerOf, Entered)
        BY <2>2 DEF StackOK
    <2> QED
        BY <2>1, <2>3 DEF KeepsK
<1>2. CASE calls # <<>>
    BY <1>2 DEF Entered, SolvencyInv
<1> QED
    BY <1>1, <1>2

\* Opening a call.
LEMMA StackOpen ==
    ASSUME NEW stack \in Seq(Call), NEW lock \in BOOLEAN, NEW owners, NEW K,
           StackOK(stack, lock, owners, K),
           NEW call \in Call, NEW lock1 \in BOOLEAN, NEW owners1,
           HoldsLock(call) => ~lock /\ lock1,
           ~HoldsLock(call) => lock1 = lock /\ owners1 = owners,
           call.op = "liquidate" /\ call.account \in K
               => Withdrawing(stack, Len(stack), call.account),
           call.op = "seize" => owners1[call.token] = call.account /\ call.account \notin K
    PROVE  StackOK(Append(stack, call), lock1, owners1, K)
<1> DEFINE next == Append(stack, call)
           n == Len(stack)
<1>1. /\ n \in Nat /\ Len(next) = n + 1 /\ next[n + 1] = call
      /\ \A i \in 1..n : next[i] = stack[i] /\ i \in 1..Len(next)
      /\ \A i \in 1..Len(next) : i \in 1..n \/ i = n + 1
    OBVIOUS
<1> HIDE DEF next, n
<1>2. \A i \in 1..Len(next) : HoldsLock(next[i]) => lock1
    BY <1>1 DEF StackOK, n
<1>3. \A i, j \in 1..Len(next) : HoldsLock(next[i]) /\ HoldsLock(next[j]) => i = j
    BY <1>1 DEF StackOK, n
<1>4. ASSUME NEW i \in 1..Len(next), next[i].op = "liquidate", next[i].account \in K
      PROVE  Withdrawing(next, i - 1, next[i].account)
    <2> DEFINE a == next[i].account
    <2>1. Withdrawing(stack, i - 1, a)
        BY <1>1, <1>4 DEF StackOK, n
    <2>2. \A j \in 1..(i - 1) : j \in 1..n
        BY <1>1
    <2> QED
        BY <1>1, <2>1, <2>2 DEF Withdrawing
<1>5. ASSUME NEW i \in 1..Len(next), next[i].op = "seize"
      PROVE  owners1[next[i].token] = next[i].account /\ next[i].account \notin K
    BY <1>1, <1>5 DEF StackOK, HoldsLock, n
<1> QED
    BY <1>2, <1>3, <1>4, <1>5 DEF StackOK, next

\* Closing one.
LEMMA StackClose ==
    ASSUME NEW stack \in Seq(Call), stack # <<>>, NEW lock \in BOOLEAN, NEW owners, NEW K,
           StackOK(stack, lock, owners, K), NEW lock1 \in BOOLEAN, NEW owners1,
           ~HoldsLock(stack[Len(stack)]) => lock1 = lock /\ owners1 = owners
    PROVE  StackOK(SubSeq(stack, 1, Len(stack) - 1), lock1, owners1, K)
<1> DEFINE next == SubSeq(stack, 1, Len(stack) - 1)
           n == Len(stack)
<1>1. /\ n \in Nat /\ n > 0 /\ n \in 1..n /\ Len(next) = n - 1
      /\ \A i \in 1..Len(next) : next[i] = stack[i] /\ i \in 1..n /\ i # n
    <2>1. n \in Nat /\ n > 0 /\ n \in 1..n /\ n - 1 \in 0..n
        OBVIOUS
    <2>2. n - 1 \in Int /\ \A i \in 1..(n - 1) : stack[i] \in Call
        BY <2>1
    <2>3. /\ Len(next) = IF 1 <= n - 1 THEN (n - 1) - 1 + 1 ELSE 0
          /\ \A i \in 1..((n - 1) - 1 + 1) : next[i] = stack[1 + i - 1]
        <3> HIDE DEF n
        <3>1. next = SubSeq(stack, 1, n - 1)
            BY DEF n
        <3> HIDE DEF next
        <3> QED
            BY <2>2, <3>1, SubSeqProperties
    <2> HIDE DEF next, n
    <2>4. Len(next) = n - 1
        BY <2>1, <2>3
    <2>5. ASSUME NEW i \in 1..Len(next) PROVE next[i] = stack[i] /\ i \in 1..n /\ i # n
        <3>1. i \in 1..((n - 1) - 1 + 1) /\ 1 + i - 1 = i
            BY <2>1, <2>4
        <3> QED
            BY <2>1, <2>3, <3>1
    <2> QED
        BY <2>1, <2>4, <2>5
<1> HIDE DEF next, n
<1>2. \A i \in 1..Len(next) : HoldsLock(next[i]) => lock1 = lock /\ owners1 = owners
    BY <1>1 DEF StackOK, n
<1>3. /\ \A i \in 1..Len(next) : HoldsLock(next[i]) => lock1
      /\ \A i, j \in 1..Len(next) : HoldsLock(next[i]) /\ HoldsLock(next[j]) => i = j
    BY <1>1, <1>2 DEF StackOK, n
<1>4. ASSUME NEW i \in 1..Len(next), next[i].op = "liquidate", next[i].account \in K
      PROVE  Withdrawing(next, i - 1, next[i].account)
    <2>1. Withdrawing(stack, i - 1, next[i].account)
        BY <1>1, <1>4 DEF StackOK, n
    <2>2. \A j \in 1..(i - 1) : j \in 1..Len(next)
        BY <1>1
    <2> QED
        BY <1>1, <2>1, <2>2 DEF Withdrawing
<1>5. ASSUME NEW i \in 1..Len(next), next[i].op = "seize"
      PROVE  owners1[next[i].token] = next[i].account /\ next[i].account \notin K
    BY <1>1, <1>2, <1>5 DEF StackOK, HoldsLock, n
<1> QED
    BY <1>3, <1>4, <1>5 DEF StackOK, next

\* A withdrawal stays under way when calls are opened above it,
LEMMA WithdrawingOpen ==
    ASSUME NEW stack \in Seq(Call), NEW call \in Call, NEW a
    PROVE  /\ Withdrawing(stack, Len(stack), a)
                => Withdrawing(Append(stack, call), Len(Append(stack, call)), a)
           /\ call.op = "withdraw" /\ call.sender = a
                => Withdrawing(Append(stack, call), Len(Append(stack, call)), a)
<1> DEFINE next == Append(stack, call)
           n == Len(stack)
<1>1. /\ n \in Nat /\ n + 1 \in 1..Len(next) /\ next[n + 1] = call
      /\ \A i \in 1..n : next[i] = stack[i] /\ i \in 1..Len(next)
    OBVIOUS
<1> HIDE DEF next
<1> QED
    BY <1>1 DEF Withdrawing, next

\* and until it is closed itself.
LEMMA WithdrawingClose ==
    ASSUME NEW stack \in Seq(Call), stack # <<>>, NEW a, Withdrawing(stack, Len(stack), a),
           ~ (stack[Len(stack)].op = "withdraw" /\ stack[Len(stack)].sender = a)
    PROVE  LET next == SubSeq(stack, 1, Len(stack) - 1) IN Withdrawing(next, Len(next), a)
<1> DEFINE next == SubSeq(stack, 1, Len(stack) - 1)
<1>1. PICK i \in 1..Len(stack) : stack[i].op = "withdraw" /\ stack[i].sender = a
    BY DEF Withdrawing
<1>2. i \in 1..(Len(stack) - 1)
    BY <1>1
<1>3. i \in 1..Len(next) /\ next[i] = stack[i]
    BY <1>2
<1> QED
    BY <1>1, <1>3 DEF Withdrawing

-----------------------------------------------------------------------------
(***************************************************************************)
(* One lemma for each group of actions.                                    *)
(***************************************************************************)

\* What the steps read of the invariant.
LEMMA SolvencyParts ==
    ASSUME SolvencyInv
    PROVE  /\ nft \in NftState /\ Enumerates(nft) /\ UniswapV3Type /\ locked \in BOOLEAN
           /\ isApprovedForAll \in [Account -> SUBSET Account]
           /\ loans \in LoanBook
           /\ calls \in Seq(Call)
           /\ TypeOK
           /\ Protected(Entered)
           /\ StackOK(calls, locked, nft.ownerOf, Entered)
           /\ Entered \subseteq Account
BY EnteredKept, EnteredType
   DEF SolvencyInv, Inv, TypeOK, UniswapV3Type, EnumerationExact, KeepsK

\* What an account owes depends on the loans alone.
LEMMA BorrowUsdSame ==
    ASSUME UNCHANGED <<debtMarkets, loans>>
    PROVE  \A a : TotalBorrowUsd(a)' = TotalBorrowUsd(a)
BY DEF TotalBorrowUsd, GetDebtBalanceUsd, GetBorrowBalance, GetInterestRate

\* A step that leaves receipts, prices and loans leaves the health of all.
LEMMA HealthSame ==
    ASSUME UNCHANGED <<receipts, prices, debtMarkets, loans>>
    PROVE  \A a : /\ Healthy(a)' <=> Healthy(a)
                  /\ SelfReliant(a)' <=> SelfReliant(a)
<1> TAKE a
<1>1. nft' = nft /\ isApprovedForAll' = isApprovedForAll
    BY DEF receipts
<1>2. /\ HealthKnown(a)' <=> HealthKnown(a)
      /\ MaxBorrowUsd(a)' = MaxBorrowUsd(a)
    BY <1>1, HealthLocal
<1>3. TotalBorrowUsd(a)' = TotalBorrowUsd(a)
    BY BorrowUsdSame
<1> QED
    BY <1>1, <1>2, <1>3 DEF Healthy, IsHealthy, SelfReliant, TokensOf

\* Calls that open no other and move nothing the health depends on.
LEMMA CalmStep ==
    ASSUME SolvencyInv, UNCHANGED <<receipts, prices, debtMarkets, loans, calls, locked>>,
           keep' \in {keep, Entered}
    PROVE  Unapproved' /\ KeepsK(keep)'
<1>1. nft' = nft /\ calls' = calls /\ locked' = locked
    BY DEF receipts
<1>2. KeepsK(keep')
    BY EnteredKept DEF SolvencyInv
<1>3. Protected(keep)'
    BY <1>1, <1>2, HealthSame DEF KeepsK, Protected
<1> QED
    BY <1>1, <1>2, <1>3 DEF SolvencyInv, Unapproved, KeepsK

\* The price of a pool, and all that happens between transactions.
LEMMA FreshStep ==
    ASSUME SolvencyInv, UNCHANGED <<nft, calls, locked>>, keep' = {}
    PROVE  Unapproved' /\ KeepsK(keep)'
<1>1. StackOK(calls, locked, nft.ownerOf, {})
    BY KeepsFewer DEF SolvencyInv, KeepsK
<1> QED
    BY <1>1 DEF SolvencyInv, Unapproved, KeepsK, Protected

\* A deposit: the receiver's collateral grows, the receipt is approved to
\* nobody, and the lock was free.
LEMMA MintStep ==
    ASSUME SolvencyInv, NEW sender \in Account, NEW a \in Account, NEW t \in Token,
           MintPosition(a, t), Open("mint", a, sender, a, t), UNCHANGED <<controllerVars, lending>>
    PROVE  Unapproved' /\ KeepsK(keep)'
<1> DEFINE call == [op |-> "mint", callee |-> a, sender |-> sender, account |-> a, token |-> t]
<1>0. /\ call \in Call /\ call.op = "mint"
      /\ calls' = Append(calls, call) /\ keep' = Entered
      /\ ~locked /\ locked'
      /\ nft.ownerOf[t] = NoOne /\ nft' = MintToken(nft, a, t)
      /\ UNCHANGED <<prices, debtMarkets, loans, isApprovedForAll>>
    BY DEF Call, CallOf, Open, MintPosition, Lock, controllerVars, lending
<1> HIDE DEF call
<1>1. Minted(nft, nft', a, t)
    BY <1>0, SolvencyParts, MintFields
<1>2. Unapproved'
    <2>1. nft.ownerOf \in [Token -> Account \cup {NoOne}] /\ Unapproved
        BY SolvencyParts DEF SolvencyInv, NftState
    <2>2. \A u \in Token : nft'.ownerOf[u] = NoOne => nft.ownerOf[u] = NoOne
        BY <1>1, <2>1, ERC721Assumption DEF Minted
    <2> QED
        BY <1>1, <2>1, <2>2 DEF Minted, Unapproved
<1>3. StackOK(calls, locked, nft.ownerOf, keep)'
    <2>1. locked' \in BOOLEAN
        BY <1>0
    <2> QED
        BY <1>0, <2>1, SolvencyParts, StackOpen DEF HoldsLock
<1>4. ASSUME NEW b \in Entered
      PROVE  SelfReliant(b)' /\ (Healthy(b) \/ Withdrawing(calls, Len(calls), b))'
    <2>1. /\ b \in Account /\ SelfReliant(b)
          /\ Healthy(b) \/ Withdrawing(calls, Len(calls), b)
        BY <1>4, SolvencyParts DEF Protected
    <2>2. SelfReliant(b)'
        BY <1>0, <1>1, <2>1, SolvencyParts
           DEF Minted, SelfReliant, TokensOf, NftState, Unapproved, SolvencyInv
    <2>3. Withdrawing(calls, Len(calls), b) => Withdrawing(calls, Len(calls), b)'
        BY <1>0, SolvencyParts, WithdrawingOpen
    <2>4. TotalBorrowUsd(b)' = TotalBorrowUsd(b)
        BY <1>0, BorrowUsdSame
    <2>5. CASE Healthy(b) /\ b = a
        <3>1. /\ HealthKnown(b)'
              /\ MaxBorrowUsd(b) \in Int /\ MaxBorrowUsd(b)' \in Int
              /\ MaxBorrowUsd(b) <= MaxBorrowUsd(b)'
            BY <1>0, <2>5, SolvencyParts, HealthAfterMint DEF Healthy
        <3>2. TotalBorrowUsd(b) \in Int /\ TotalBorrowUsd(b) <= MaxBorrowUsd(b)
            BY <2>1, <2>5, SolvencyParts, TotalBorrowNat DEF Healthy, IsHealthy
        <3> QED
            BY <2>2, <2>4, <3>1, <3>2 DEF Healthy, IsHealthy
    <2>6. CASE Healthy(b) /\ b # a
        <3>1. nft'.ownedTokens[b] = nft.ownedTokens[b]
            BY <1>1, <2>1, <2>6, SolvencyParts DEF Minted, NftState
        <3>2. BalanceOf(nft', b) = BalanceOf(nft, b)
            <4>1. nft \in NftState /\ nft'.ownerOf = [nft.ownerOf EXCEPT ![t] = a]
                BY <1>1, SolvencyParts DEF Minted
            <4>2. b \in Account \ {a}
                BY <2>1, <2>6
            <4> QED
                BY <1>0, <4>1, <4>2, BalanceAfterMint
        <3>3. HealthKnown(b)' /\ MaxBorrowUsd(b)' = MaxBorrowUsd(b)
            BY <1>0, <2>6, <3>1, <3>2, HealthLocal DEF Healthy
        <3> QED
            BY <2>2, <2>4, <2>6, <3>3 DEF Healthy, IsHealthy
    <2> QED
        BY <2>1, <2>2, <2>3, <2>5, <2>6
<1> QED
    BY <1>0, <1>2, <1>3, <1>4 DEF KeepsK, Protected

\* Burning a receipt touches its owner's health and nobody else's.
LEMMA BurnHealth ==
    ASSUME SolvencyInv, NEW t \in Token, nft.ownerOf[t] # NoOne, nft' = BurnToken(nft, t),
           UNCHANGED <<prices, debtMarkets, loans, isApprovedForAll>>
    PROVE  /\ nft.ownerOf[t] \in Account
           /\ Unapproved'
           /\ \A b \in Account : SelfReliant(b) => SelfReliant(b)'
           /\ \A b \in Account \ {nft.ownerOf[t]} : Healthy(b) => Healthy(b)'
<1> DEFINE owner == nft.ownerOf[t]
<1>1. /\ nft'.ownerOf = [nft.ownerOf EXCEPT ![t] = NoOne]
      /\ nft'.getApproved = [nft.getApproved EXCEPT ![t] = NoOne]
      /\ \A b \in Account \ {owner} : nft'.ownedTokens[b] = nft.ownedTokens[b]
    <2>1. nft.ownedTokens \in [Account -> [Index -> Token \cup {0}]]
        BY SolvencyParts DEF NftState
    <2>2. nft \in NftState /\ Enumerates(nft)
        BY SolvencyParts
    <2>3. PICK last, j, u, g, v : Burned(nft, nft', t, owner, last, j, u, g, v)
        BY <2>2, BurnFields, Zenon
    <2> QED
        BY <2>1, <2>3 DEF Burned
<1>2. owner \in Account
    BY SolvencyParts DEF NftState
<1>3. Unapproved'
    BY <1>1, SolvencyParts DEF Unapproved, SolvencyInv, NftState
<1>4. ASSUME NEW b \in Account, SelfReliant(b) PROVE SelfReliant(b)'
    BY <1>1, <1>4, SolvencyParts DEF SelfReliant, TokensOf, NftState
<1>5. ASSUME NEW b \in Account \ {owner}, Healthy(b) PROVE Healthy(b)'
    <2>1. BalanceOf(nft', b) = BalanceOf(nft, b)
        <3>1. nft \in NftState
            BY SolvencyParts
        <3> QED
            BY <1>1, <1>2, <3>1, BalanceAfterBurn
    <2>2. HealthKnown(b)' /\ MaxBorrowUsd(b)' = MaxBorrowUsd(b)
        BY <1>1, <1>5, <2>1, HealthLocal DEF Healthy
    <2> QED
        BY <1>5, <2>2, BorrowUsdSame DEF Healthy, IsHealthy
<1> QED
    BY <1>2, <1>3, <1>4, <1>5

\* A withdrawal: only the owner withdraws from an account that relies on
\* itself, and its call is then open.
LEMMA WithdrawStep ==
    ASSUME SolvencyInv, NEW sender \in Account, NEW a \in Account, NEW t \in Token,
           Withdraw(sender, a, t)
    PROVE  Unapproved' /\ KeepsK(keep)'
<1> DEFINE owner == nft.ownerOf[t]
           call == [op |-> "withdraw", callee |-> a, sender |-> sender,
                    account |-> owner, token |-> t]
<1>0. /\ calls' = Append(calls, call) /\ keep' = Entered
      /\ ~locked /\ locked'
      /\ owner # NoOne /\ nft' = BurnToken(nft, t)
      /\ sender = owner \/ sender = nft.getApproved[t] \/ sender \in isApprovedForAll[owner]
      /\ UNCHANGED <<prices, debtMarkets, loans, isApprovedForAll>>
    BY DEF Open, Withdraw, WithdrawPosition, MayWithdraw, Lock, controllerVars, lending
<1>1. /\ owner \in Account
      /\ Unapproved'
      /\ \A b \in Account : SelfReliant(b) => SelfReliant(b)'
      /\ \A b \in Account \ {owner} : Healthy(b) => Healthy(b)'
    BY <1>0, BurnHealth
<1>2. call \in Call /\ call.op = "withdraw" /\ call.sender = sender
    BY <1>1 DEF Call, CallOf
<1> HIDE DEF call
<1>3. StackOK(calls, locked, nft.ownerOf, keep)'
    <2>1. locked' \in BOOLEAN
        BY <1>0
    <2> QED
        BY <1>0, <1>2, <2>1, SolvencyParts, StackOpen DEF HoldsLock
<1>4. ASSUME NEW b \in Entered
      PROVE  SelfReliant(b)' /\ (Healthy(b) \/ Withdrawing(calls, Len(calls), b))'
    <2>1. /\ b \in Account /\ SelfReliant(b)
          /\ Healthy(b) \/ Withdrawing(calls, Len(calls), b)
        BY <1>4, SolvencyParts DEF Protected
    <2>2. Withdrawing(calls, Len(calls), b) => Withdrawing(calls, Len(calls), b)'
        BY <1>0, <1>2, SolvencyParts, WithdrawingOpen
    <2>3. CASE b = owner
        <3>1. t \in TokensOf(nft, b)
            BY <2>3 DEF TokensOf
        <3>2. sender = b
            BY <1>0, <2>1, <2>3, <3>1, ERC721Assumption DEF SelfReliant
        <3> QED
            BY <1>0, <1>1, <1>2, <2>1, <3>2, SolvencyParts, WithdrawingOpen
    <2> QED
        BY <1>1, <2>1, <2>2, <2>3
<1> QED
    BY <1>0, <1>1, <1>3, <1>4 DEF KeepsK, Protected

\* A seizure: were the account in K, its own withdrawal would hold the lock.
LEMMA SeizeStep ==
    ASSUME SolvencyInv, NEW t \in Token, Seize(t)
    PROVE  Unapproved' /\ KeepsK(keep)'
<1> DEFINE n == Len(calls)
           call == [op |-> "seize", callee |-> calls[n].sender, sender |-> calls[n].sender,
                    account |-> calls[n].account, token |-> t]
<1>0. /\ calls' = Append(calls, call) /\ keep' = Entered
      /\ calls # <<>> /\ calls[n].op = "liquidate"
      /\ ~locked /\ locked'
      /\ nft.ownerOf[t] = calls[n].account
      /\ UNCHANGED <<receipts, prices, debtMarkets, loans>>
    BY DEF Seize, Open, SeizePosition, Lock, Running, controllerVars, lending
<1>1. n \in 1..n /\ n - 1 \in 0..n
    BY <1>0, SolvencyParts
<1>2. call \in Call /\ call.op = "seize" /\ call.token = t /\ call.account = calls[n].account
    BY <1>0, <1>1, SolvencyParts DEF Call, CallOf
<1>3. calls[n].account \notin Entered
    <2> SUFFICES ASSUME calls[n].account \in Entered PROVE FALSE
        OBVIOUS
    <2>1. Withdrawing(calls, n - 1, calls[n].account)
        BY <1>0, <1>1, SolvencyParts DEF StackOK
    <2>2. PICK i \in 1..(n - 1) : calls[i].op = "withdraw"
        BY <2>1 DEF Withdrawing
    <2>3. i \in 1..Len(calls) /\ HoldsLock(calls[i])
        BY <1>1, <2>2 DEF HoldsLock
    <2> QED
        BY <1>0, <2>3, SolvencyParts DEF StackOK
<1> HIDE DEF call
<1>4. nft' = nft
    BY <1>0 DEF receipts
<1>5. StackOK(calls, locked, nft.ownerOf, keep)'
    <2>1. locked' \in BOOLEAN
        BY <1>0
    <2> QED
        BY <1>0, <1>2, <1>3, <1>4, <2>1, SolvencyParts, StackOpen DEF HoldsLock
<1>6. \A b : Withdrawing(calls, Len(calls), b) => Withdrawing(calls, Len(calls), b)'
    BY <1>0, <1>2, SolvencyParts, WithdrawingOpen
<1>7. Protected(keep)'
    BY <1>0, <1>6, SolvencyParts, HealthSame DEF Protected
<1> QED
    BY <1>4, <1>5, <1>7 DEF KeepsK, SolvencyInv, Unapproved

\* A liquidation opens against an account that is unhealthy: one of K only
\* under its withdrawal.
LEMMA LiquidateStep ==
    ASSUME SolvencyInv, NEW sender \in Account, NEW liquidator \in Account,
           NEW a \in Account, Liquidate(sender, liquidator, a)
    PROVE  Unapproved' /\ KeepsK(keep)'
<1> DEFINE call == [op |-> "liquidate", callee |-> liquidator, sender |-> sender,
                    account |-> a, token |-> 0]
<1>0. /\ calls' = Append(calls, call) /\ keep' = Entered
      /\ Unhealthy(a)
      /\ nft' = nft /\ locked' = locked
      /\ UNCHANGED <<receipts, prices, debtMarkets, loans>>
    BY DEF Liquidate, Open, uniswapVars, receipts, prices, lending
<1>1. call \in Call /\ call.op = "liquidate" /\ call.account = a
    BY DEF Call, CallOf
<1> HIDE DEF call
<1>2. a \in Entered => Withdrawing(calls, Len(calls), a)
    BY <1>0, SolvencyParts DEF Protected, Healthy, Unhealthy
<1>3. StackOK(calls, locked, nft.ownerOf, keep)'
    BY <1>0, <1>1, <1>2, SolvencyParts, StackOpen DEF HoldsLock
<1>4. \A b : Withdrawing(calls, Len(calls), b) => Withdrawing(calls, Len(calls), b)'
    BY <1>0, <1>1, SolvencyParts, WithdrawingOpen
<1>5. Protected(keep)'
    BY <1>0, <1>4, SolvencyParts, HealthSame DEF Protected
<1> QED
    BY <1>0, <1>3, <1>5 DEF KeepsK, SolvencyInv, Unapproved

\* The end of a call that burns nothing; a withdrawal has checked its sender.
LEMMA CloseStep ==
    ASSUME SolvencyInv, NEW op, Close(op), UNCHANGED <<receipts, prices, debtMarkets, loans>>,
           locked' \in BOOLEAN, op = "liquidate" => UNCHANGED locked,
           op = "withdraw" => Healthy(Running.sender)
    PROVE  Unapproved' /\ KeepsK(keep)'
<1> DEFINE n == Len(calls)
<1>0. /\ calls # <<>> /\ calls[n].op = op /\ Running = calls[n]
      /\ calls' = SubSeq(calls, 1, n - 1) /\ keep' = keep /\ Entered = keep
    BY DEF Close, Running, Entered
<1>1. nft' = nft
    BY DEF receipts
<1>2. StackOK(calls, locked, nft.ownerOf, keep)'
    BY <1>0, <1>1, SolvencyParts, StackClose DEF HoldsLock
<1>3. ASSUME NEW b \in keep
      PROVE  SelfReliant(b)' /\ (Healthy(b) \/ Withdrawing(calls, Len(calls), b))'
    <2>1. SelfReliant(b) /\ (Healthy(b) \/ Withdrawing(calls, n, b))
        BY <1>0, SolvencyParts DEF Protected
    <2>2. CASE Healthy(b)
        BY <2>1, <2>2, HealthSame
    <2>3. CASE ~Healthy(b)
        <3>1. ~ (calls[n].op = "withdraw" /\ calls[n].sender = b)
            BY <1>0, <2>3
        <3>2. Withdrawing(calls, Len(calls), b)'
            BY <1>0, <2>1, <2>3, <3>1, SolvencyParts, WithdrawingClose
        <3> QED
            BY <2>1, <3>2, HealthSame
    <2> QED
        BY <2>2, <2>3
<1> QED
    BY <1>0, <1>1, <1>2, <1>3 DEF KeepsK, Protected, SolvencyInv, Unapproved

\* The end of a seizure burns a receipt of an account outside K.
LEMMA SeizeEndStep ==
    ASSUME SolvencyInv, SeizeEnd
    PROVE  Unapproved' /\ KeepsK(keep)'
<1> DEFINE n == Len(calls)
           t == calls[n].token
<1>0. /\ calls # <<>> /\ calls[n].op = "seize"
      /\ calls' = SubSeq(calls, 1, n - 1) /\ keep' = keep /\ Entered = keep
      /\ nft.ownerOf[t] # NoOne /\ nft' = BurnToken(nft, t)
      /\ locked' = FALSE
      /\ UNCHANGED <<prices, debtMarkets, loans, isApprovedForAll>>
    BY DEF SeizeEnd, BurnSeized, Unlock, Close, Running, Entered, controllerVars, lending
<1>1. n \in 1..Len(calls)
    BY <1>0, SolvencyParts
<1>2. t \in Token
    BY <1>0, <1>1, SolvencyParts DEF Call, CallOf
<1>3. nft.ownerOf[t] \notin keep
    BY <1>0, <1>1, SolvencyParts DEF StackOK
<1>4. /\ Unapproved'
      /\ \A b \in Account : SelfReliant(b) => SelfReliant(b)'
      /\ \A b \in Account \ {nft.ownerOf[t]} : Healthy(b) => Healthy(b)'
    BY <1>0, <1>2, BurnHealth
<1> HIDE DEF t
<1>5. StackOK(calls, locked, nft.ownerOf, keep)'
    BY <1>0, SolvencyParts, StackClose DEF HoldsLock
<1>6. ASSUME NEW b \in keep
      PROVE  SelfReliant(b)' /\ (Healthy(b) \/ Withdrawing(calls, Len(calls), b))'
    <2>1. /\ b \in Account \ {nft.ownerOf[t]} /\ SelfReliant(b)
          /\ Healthy(b) \/ Withdrawing(calls, n, b)
        BY <1>0, <1>3, SolvencyParts DEF Protected
    <2>2. Withdrawing(calls, n, b) => Withdrawing(calls, Len(calls), b)'
        BY <1>0, SolvencyParts, WithdrawingClose
    <2> QED
        BY <1>4, <2>1, <2>2
<1> QED
    BY <1>0, <1>4, <1>5, <1>6 DEF KeepsK, Protected

\* A change of the loans that leaves each account of K healthy if it was: it owes
\* no more, or is checked.
LEMMA DebtStep ==
    ASSUME SolvencyInv, UNCHANGED <<uniswapVars, controllerVars, calls>>,
           loans' \in LoanBook, keep' \subseteq Entered,
           \A b \in keep' : ~ (TotalBorrowUsd(b)' > TotalBorrowUsd(b)) \/ Healthy(b)'
    PROVE  Unapproved' /\ KeepsK(keep)'
<1>0. /\ UNCHANGED <<receipts, prices, debtMarkets>>
      /\ nft' = nft /\ calls' = calls /\ locked' = locked
      /\ isApprovedForAll' = isApprovedForAll
    BY DEF uniswapVars, controllerVars, receipts, prices
<1>1. ASSUME NEW b \in keep', Healthy(b) PROVE Healthy(b)'
    <2>1. CASE ~ (TotalBorrowUsd(b)' > TotalBorrowUsd(b))
        <3>1. b \in Account
            BY SolvencyParts
        <3>2. HealthKnown(b)' /\ MaxBorrowUsd(b)' = MaxBorrowUsd(b)
            BY <1>0, <1>1, HealthLocal DEF Healthy
        <3>3. MaxBorrowUsd(b) \in Nat
            BY <1>1, <3>1, MaxBorrowNat, SolvencyParts DEF Healthy
        <3>4. TotalBorrowUsd(b) \in Nat /\ TotalBorrowUsd(b)' \in Nat
            BY <3>1, TotalBorrowNat, SolvencyParts
        <3> QED
            BY <1>1, <2>1, <3>2, <3>3, <3>4 DEF Healthy, IsHealthy
    <2> QED
        BY <2>1
<1>2. \A b : SelfReliant(b) => SelfReliant(b)'
    BY <1>0 DEF SelfReliant, TokensOf
<1>3. Protected(keep)'
    BY <1>0, <1>1, <1>2, SolvencyParts DEF Protected
<1>4. StackOK(calls, locked, nft.ownerOf, keep)'
    BY <1>0, SolvencyParts, KeepsFewer
<1> QED
    BY <1>0, <1>3, <1>4 DEF KeepsK, SolvencyInv, Unapproved

\* Borrowing ends with the check of the borrower; of the others, those whose
\* debt it raises leave K.
LEMMA BorrowStep ==
    ASSUME SolvencyInv, NEW a \in Account, NEW amount \in Loans,
           NEW interest \in Interests \cup {0}, Borrow(a, amount, interest)
    PROVE  Unapproved' /\ KeepsK(keep)'
<1>1. /\ UNCHANGED <<uniswapVars, controllerVars, calls>>
      /\ keep' = Entered \ (Burdened \ {a}) /\ Healthy(a)'
    BY DEF Borrow
<1>2. loans' \in LoanBook
    BY SolvencyParts, BorrowType
<1>3. \A b \in keep' : ~ (TotalBorrowUsd(b)' > TotalBorrowUsd(b)) \/ Healthy(b)'
    BY <1>1, SolvencyParts DEF Burdened
<1> QED
    BY <1>1, <1>2, <1>3, DebtStep

\* The same of a repayment.
LEMMA RepayStep ==
    ASSUME SolvencyInv, NEW sender \in Account, NEW a \in Account, NEW amount \in Loans,
           Repay(sender, a, amount) \/ RepayShares(sender, a, amount)
    PROVE  Unapproved' /\ KeepsK(keep)'
<1>1. PICK assets \in Nat, shares \in Nat : SettleLoan(a, assets, shares)
    BY SolvencyParts, SettlementCases
<1>2. /\ UNCHANGED <<uniswapVars, controllerVars, calls>>
      /\ keep' = Entered \ Burdened
    BY <1>1 DEF SettleLoan
<1>3. loans' \in LoanBook
    BY <1>1, SolvencyParts, SettleLoanType
<1>4. \A b \in keep' : ~ (TotalBorrowUsd(b)' > TotalBorrowUsd(b))
    BY <1>2, SolvencyParts DEF Burdened
<1> QED
    BY <1>2, <1>3, <1>4, DebtStep

\* Who approves another leaves K.
LEMMA ApproveStep ==
    ASSUME SolvencyInv, NEW sender \in Account, NEW to \in Account, NEW t \in Token,
           Approve(sender, to, t)
    PROVE  Unapproved' /\ KeepsK(keep)'
<1> DEFINE owner == nft.ownerOf[t]
<1>0. /\ owner # NoOne /\ nft' = [nft EXCEPT !.getApproved[t] = to]
      /\ UNCHANGED <<prices, debtMarkets, loans, isApprovedForAll, locked, calls>>
      /\ keep' = Entered \ {owner}
    BY DEF Approve, ApproveReceipt, controllerVars, lending
<1>1. /\ nft'.ownerOf = nft.ownerOf /\ nft'.ownedTokens = nft.ownedTokens
      /\ \A u \in Token \ {t} : nft'.getApproved[u] = nft.getApproved[u]
    BY <1>0, SolvencyParts DEF NftState
<1>2. Unapproved'
    BY <1>0, <1>1 DEF Unapproved, SolvencyInv
<1>3. ASSUME NEW b \in Entered, b # owner
      PROVE  SelfReliant(b)' /\ (Healthy(b) => Healthy(b)')
    <2>1. SelfReliant(b)
        BY <1>3, SolvencyParts DEF Protected
    <2>2. SelfReliant(b)'
        BY <1>0, <1>1, <1>3, <2>1 DEF SelfReliant, TokensOf
    <2>3. BalanceOf(nft', b) = BalanceOf(nft, b)
        BY <1>1, BalanceOfOwners
    <2>4. (HealthKnown(b)' <=> HealthKnown(b)) /\ MaxBorrowUsd(b)' = MaxBorrowUsd(b)
        BY <1>0, <1>1, <2>3, HealthLocal
    <2> QED
        BY <1>0, <2>2, <2>4, BorrowUsdSame DEF Healthy, IsHealthy
<1>4. Protected(keep)'
    BY <1>0, <1>3, SolvencyParts DEF Protected
<1>5. StackOK(calls, locked, nft.ownerOf, keep)'
    BY <1>0, <1>1, SolvencyParts, KeepsFewer
<1> QED
    BY <1>2, <1>4, <1>5 DEF KeepsK

LEMMA ApprovalForAllStep ==
    ASSUME SolvencyInv, NEW sender \in Account, NEW operator \in Account, NEW approved \in BOOLEAN,
           SetApprovalForAll(sender, operator, approved)
    PROVE  Unapproved' /\ KeepsK(keep)'
<1>0. /\ UNCHANGED <<nft, prices, debtMarkets, loans, locked, calls>>
      /\ \A b \in Account \ {sender} : isApprovedForAll'[b] = isApprovedForAll[b]
      /\ keep' = Entered \ {sender}
    BY SolvencyParts DEF SetApprovalForAll, ApproveOperator, controllerVars, lending
<1>1. ASSUME NEW b \in Entered, b # sender
      PROVE  SelfReliant(b)' /\ (Healthy(b) => Healthy(b)')
    <2>1. SelfReliant(b) /\ b \in Account
        BY <1>1, SolvencyParts DEF Protected
    <2>2. (HealthKnown(b)' <=> HealthKnown(b)) /\ MaxBorrowUsd(b)' = MaxBorrowUsd(b)
        BY <1>0, HealthLocal
    <2> QED
        BY <1>0, <1>1, <2>1, <2>2, BorrowUsdSame DEF Healthy, IsHealthy, SelfReliant, TokensOf
<1>2. Protected(keep)'
    BY <1>0, <1>1, SolvencyParts DEF Protected
<1>3. StackOK(calls, locked, nft.ownerOf, keep)'
    BY <1>0, SolvencyParts, KeepsFewer
<1> QED
    BY <1>0, <1>2, <1>3 DEF KeepsK, SolvencyInv, Unapproved

\* Every step keeps the inductive invariant.
LEMMA StepSolvent == SolvencyInv /\ [Next]_vars => SolvencyInv'
<1> SUFFICES ASSUME SolvencyInv, [Next]_vars PROVE Unapproved' /\ KeepsK(keep)'
    BY StepCorrect DEF SolvencyInv
<1> USE LiquidationAssumption
<1>1. ASSUME NEW sender \in Account, NEW a \in Account, NEW t \in Token, Mint(sender, a, t)
      PROVE  Unapproved' /\ KeepsK(keep)'
    BY <1>1, MintStep DEF Mint
<1>2. ASSUME NEW sender \in Account, NEW a \in Account, NEW t \in Token, Withdraw(sender, a, t)
      PROVE  Unapproved' /\ KeepsK(keep)'
    BY <1>2, WithdrawStep
<1>3. ASSUME NEW a \in Account, NEW t \in Token, OnERC721Received(a, t)
      PROVE  Unapproved' /\ KeepsK(keep)'
    BY <1>3, MintStep DEF OnERC721Received
<1>4. ASSUME NEW t \in Token, Seize(t)
      PROVE  Unapproved' /\ KeepsK(keep)'
    BY <1>4, SeizeStep
<1>5. CASE MintEnd
    BY <1>5, CloseStep DEF MintEnd, Unlock, controllerVars, lending
<1>6. CASE WithdrawEnd
    BY <1>6, CloseStep DEF WithdrawEnd, Unlock, controllerVars, lending
<1>7. CASE SeizeEnd
    BY <1>7, SeizeEndStep
<1>8. CASE LiquidateEnd
    BY <1>8, CloseStep, SolvencyParts DEF LiquidateEnd, uniswapVars, receipts, prices, lending
<1>9. ASSUME NEW sender \in Account, NEW liquidator \in Account, NEW a \in Account,
             Liquidate(sender, liquidator, a)
      PROVE  Unapproved' /\ KeepsK(keep)'
    BY <1>9, LiquidateStep
<1>10. ASSUME NEW a \in Account, NEW amount \in Loans, NEW interest \in Interests \cup {0},
              Borrow(a, amount, interest)
       PROVE  Unapproved' /\ KeepsK(keep)'
    BY <1>10, BorrowStep
<1>11. ASSUME NEW sender \in Account, NEW a \in Account, NEW amount \in Loans,
              Repay(sender, a, amount) \/ RepayShares(sender, a, amount)
       PROVE  Unapproved' /\ KeepsK(keep)'
    BY <1>11, RepayStep
<1>12. ASSUME NEW sender \in Account, NEW operator \in Account, NEW t \in Token,
              Approve(sender, operator, t)
       PROVE  Unapproved' /\ KeepsK(keep)'
    BY <1>12, ApproveStep
<1>13. ASSUME NEW sender \in Account, NEW operator \in Account, NEW approved \in BOOLEAN,
              SetApprovalForAll(sender, operator, approved)
       PROVE  Unapproved' /\ KeepsK(keep)'
    BY <1>13, ApprovalForAllStep
<1>14. ASSUME NEW t \in Token, NEW to \in Account \cup {Vault}, TransferPosition(to, t)
       PROVE  Unapproved' /\ KeepsK(keep)'
    BY <1>14, CalmStep DEF TransferPosition, MovePosition, Within, controllerVars, lending
<1>15. ASSUME NEW sender \in Account, NEW pool \in Pool, NEW to \in Ticks,
              SwapInPool(sender, pool, to)
       PROVE  Unapproved' /\ KeepsK(keep)'
    BY <1>15, FreshStep DEF SwapInPool, Swap, receipts
<1>16. CASE Outside
    <2>1. UNCHANGED <<nft, calls, locked>> /\ keep' = {}
        BY <1>16
           DEF Outside, Quote, SetOracle, SetScaleFactor, ActivatePools, PausePool,
               AddDebtMarket, AccrueInterest, uniswapVars, receipts
    <2> QED
        BY <2>1, FreshStep
<1>17. CASE UNCHANGED vars
    BY <1>17, CalmStep DEF vars, uniswapVars, controllerVars, receipts, prices, lending
<1>18. ASSUME NEW x \in Shares, SeizeShares(x)
       PROVE  Unapproved' /\ KeepsK(keep)'
    BY <1>18, CalmStep DEF SeizeShares, uniswapVars, controllerVars, receipts, prices
<1>19. ASSUME NEW a \in Account, NEW b \in Account, NEW x \in Shares, TransferShares(a, b, x)
       PROVE  Unapproved' /\ KeepsK(keep)'
    BY <1>19, CalmStep DEF TransferShares, Within, uniswapVars, controllerVars, receipts, prices
<1> QED
    BY <1>1, <1>2, <1>3, <1>4, <1>5, <1>6, <1>7, <1>8, <1>9, <1>10, <1>11, <1>12, <1>13,
       <1>14, <1>15, <1>16, <1>17, <1>18, <1>19 DEF Next

\* The invariant holds throughout.
LEMMA SolvencyInvariant == Spec => []SolvencyInv
<1>1. Init => SolvencyInv
    <2> SUFFICES ASSUME Init PROVE Unapproved /\ KeepsK(keep)
        BY InitCorrect DEF SolvencyInv
    <2>1. Len(calls) = 0 /\ keep = {} /\ Unapproved
        BY DEF Init, NewNft, Unapproved
    <2> QED
        BY <2>1 DEF KeepsK, Protected, StackOK
<1> QED
    BY <1>1, StepSolvent, PTL DEF Spec

\* No transaction makes an account unhealthy that was healthy when it began and
\* let nobody else handle its receipts, unless a pool moves or another's loan or
\* repayment raises its debt: whatever is called back between the steps of
\* withdraw and liquidate, and however deeply.
THEOREM SolvencyCorrect == Spec => []SolvencyKept
<1>1. SolvencyInv => SolvencyKept
    <2> SUFFICES ASSUME SolvencyInv, calls = <<>>, NEW a \in keep PROVE Healthy(a)
        BY DEF SolvencyKept
    <2>1. Len(calls) = 0
        OBVIOUS
    <2> QED
        BY <2>1 DEF SolvencyInv, KeepsK, Protected, Withdrawing
<1> QED
    BY <1>1, SolvencyInvariant, PTL

\* Such an account is liquidated only from within its own withdrawal, until which
\* ends it looks worse, and loses no position there.
THEOREM HealthyNotSeizedCorrect == Spec => []HealthyNotSeized
<1>1. SolvencyInv => HealthyNotSeized
    BY DEF SolvencyInv, KeepsK, StackOK, HealthyNotSeized, Withdrawing
<1> QED
    BY <1>1, SolvencyInvariant, PTL
==============================================================================
