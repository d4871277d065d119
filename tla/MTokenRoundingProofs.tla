------------------------ MODULE MTokenRoundingProofs ------------------------
(***************************************************************************)
(* Which way the roundings of MToken go, for any number of accounts, any   *)
(* amounts, scales and rates: towards the lenders as a whole, and towards  *)
(* the borrowers who stay when one of them repays.                         *)
(***************************************************************************)
EXTENDS MTokenProofs

\* Two loan shares' worth: if a share is worth at least T / S, then the amount
\* mulDivUp asks for x shares is worth at least x * T / S.
LEMMA RoundedUpTwice ==
    ASSUME NEW T \in Nat, NEW E \in Nat \ {0}, NEW S \in Nat \ {0},
           NEW rate \in Nat, NEW x \in Nat, NEW y \in Nat,
           T * E <= S * rate, x * rate <= E * y
    PROVE  x * T <= y * S
<1>1. x * (T * E) <= x * (S * rate)
  <2>1. T * E \in Int /\ S * rate \in Int
    OBVIOUS
  <2>. QED BY <2>1, ProductMono
<1>2. S * (x * rate) <= S * (E * y)
  <2>1. x * rate \in Int /\ E * y \in Int
    OBVIOUS
  <2>. QED BY <2>1, ProductMono
<1>3. x * (S * rate) = S * (x * rate)
  BY ProductRegroup
<1>4. x * (T * E) = E * (x * T)
  BY ProductRegroup
<1>5. S * (E * y) = E * (y * S)
  BY ProductRegroup
<1>6. x * T \in Int /\ y * S \in Int
  OBVIOUS
<1>7. E * (x * T) \in Int /\ E * (y * S) \in Int /\ x * (S * rate) \in Int
  BY <1>6, ProductRegroup
<1>8. E * (x * T) <= E * (y * S)
  BY <1>1, <1>2, <1>3, <1>4, <1>5, <1>7
<1>. QED BY <1>6, <1>8, ProductCancel

\* While there are loan shares, getInterestRate does not undervalue them.
LEMMA RateCovers ==
    ASSUME NEW b \in Book, NEW shares \in Nat \ {0}
    PROVE  b.totalBorrows * ExpScale <= shares * GetInterestRate(b, shares)
<1>1. b.totalBorrows \in Nat
  BY DEF Book
<1>2. shares * MulDivUp(b.totalBorrows, ExpScale, shares) >= b.totalBorrows * ExpScale
  BY <1>1, MulDivUpBounds, MTokenAssumption
<1>3. GetInterestRate(b, shares) = MulDivUp(b.totalBorrows, ExpScale, shares)
  BY DEF GetInterestRate
<1>4. MulDivUp(b.totalBorrows, ExpScale, shares) \in Nat
  BY <1>1, MulDivUpBounds, MTokenAssumption
<1>. HIDE DEF MulDivUp
<1>. QED BY <1>1, <1>2, <1>3, <1>4, ProductNat, MTokenAssumption

\* The amount repayShares asks is rounded up twice before it is capped.
LEMMA RepaySharesPays ==
    ASSUME TypeOK
    PROVE  RepaySharesPaysFully
<1> DEFINE S == totalBorrowShares
           T == Accrued.totalBorrows
           rate == GetInterestRate(Accrued, S)
<1>1. S \in Nat /\ T \in Nat /\ rate \in Nat /\ Accrued \in Book
  BY TypeParts, AccruedOK DEF LedgerOK
<1>2. SUFFICES ASSUME NEW x \in 0..S PROVE x * T <= RepaySharesAmount(x) * S
  <2>1. \A x \in 0..S : /\ RepaySharesAmount(x) * S \in Int
                        /\ x * T \in Int
    BY <1>1, RepaySharesAmountNat
  <2>. HIDE DEF T
  <2>. QED BY <2>1 DEF RepaySharesPaysFully, T
<1>3. CASE S = 0
  BY <1>1, <1>2, <1>3, RepaySharesAmountNat
<1>4. CASE S # 0
  <2> DEFINE y == MulDivUp(x, rate, ExpScale)
  <2>1. x \in Nat /\ x <= S /\ S \in Nat \ {0}
    BY <1>1, <1>2, <1>4
  <2>2. T * ExpScale <= S * rate
    BY <1>1, <2>1, RateCovers
  <2>3. RepaySharesAmount(x) = IF y > T THEN T ELSE y
    BY DEF RepaySharesAmount
  <2>. HIDE DEF S, T, rate
  <2>4. y \in Nat /\ x * rate <= ExpScale * y
    <3>1. /\ y \in Nat /\ ExpScale * y >= x * rate
      BY <1>1, <2>1, MulDivUpBounds, MTokenAssumption
    <3>. HIDE DEF y
    <3>2. ExpScale * y \in Int /\ x * rate \in Int
      BY <1>1, <2>1, <3>1, MTokenAssumption
    <3>. QED BY <3>1, <3>2
  <2>. HIDE DEF y
  <2>5. x * T <= y * S
    BY <1>1, <2>1, <2>2, <2>4, RoundedUpTwice, MTokenAssumption
  <2>6. x * T <= T * S
    <3>1. x * T <= S * T
      BY <1>1, <2>1, ProductMono
    <3>. QED BY <1>1, <2>1, <3>1, ProductRegroup
  <2>. QED BY <2>3, <2>5, <2>6
<1>. QED BY <1>3, <1>4

\* However the debt was built up, repayShares never asks less for a number of
\* loan shares than their part of the debt, despite the cap and the roundings.
THEOREM RepaySharesCorrect == Spec => []RepaySharesPaysFully
<1>1. TypeOK => RepaySharesPaysFully
  BY RepaySharesPays
<1>. QED BY <1>1, TypeCorrect, PTL

-----------------------------------------------------------------------------
\* Each balance is rounded up, so that their sum covers the debt.
LEMMA DebtCovers ==
    ASSUME TypeOK, LoanSharesSum
    PROVE  DebtCovered
<1> DEFINE S == totalBorrowShares
           T == Accrued.totalBorrows
           rate == GetInterestRate(Accrued, S)
           owed == [a \in Account |-> GetBorrowBalance(a)]
           total == Sum(owed, NumAccounts)
<1>1. /\ S \in Nat /\ T \in Nat /\ rate \in Nat /\ Accrued \in Book
      /\ borrowed \in [1..NumAccounts -> Nat] /\ NumAccounts \in Nat
  BY TypeParts, AccruedOK, RewardsAssumption DEF LedgerOK, Account
<1>2. ExpScale \in Nat \ {0}
  BY MTokenAssumption
<1>3. ASSUME NEW a \in 1..NumAccounts
      PROVE  /\ owed[a] \in Nat
             /\ rate * borrowed[a] <= ExpScale * owed[a]
  <2>1. owed[a] = MulDivUp(borrowed[a], rate, ExpScale)
    BY DEF GetBorrowBalance, Account
  <2>. HIDE DEF rate, owed
  <2>2. /\ MulDivUp(borrowed[a], rate, ExpScale) \in Nat
        /\ ExpScale * MulDivUp(borrowed[a], rate, ExpScale) >= borrowed[a] * rate
    BY <1>1, <1>2, MulDivUpBounds
  <2>3. borrowed[a] \in Nat
    BY <1>1
  <2>4. borrowed[a] * rate = rate * borrowed[a]
    BY <1>1, <2>3, ProductRegroup
  <2>5. rate * borrowed[a] \in Int /\ ExpScale * owed[a] \in Int
    BY <1>1, <1>2, <2>1, <2>2, <2>3, ProductNat
  <2>. QED BY <2>1, <2>2, <2>4, <2>5
<1>4. owed \in [1..NumAccounts -> Nat]
  <2>1. \A a \in 1..NumAccounts : owed[a] \in Nat
    BY <1>3
  <2>2. owed = [a \in 1..NumAccounts |-> owed[a]]
    BY DEF Account
  <2>. HIDE DEF owed
  <2>. QED BY <2>1, <2>2
<1>5. rate * Sum(borrowed, NumAccounts) <= ExpScale * total
  <2>. HIDE DEF rate, owed
  <2>. QED BY <1>1, <1>2, <1>3, <1>4, SumScaled
<1>6. total \in Int
  <2>1. owed \in [1..NumAccounts -> Int]
    BY <1>4
  <2>. HIDE DEF owed
  <2>. QED BY <1>1, <2>1, SumInt
<1>7. Sum(borrowed, NumAccounts) = S
  BY DEF LoanSharesSum
<1>8. ASSUME S > 0 PROVE T <= total
  <2>1. T * ExpScale <= S * rate
    BY <1>1, <1>8, RateCovers
  <2>. HIDE DEF T, S, rate, total
  <2>2. T * ExpScale = ExpScale * T /\ S * rate = rate * S
    BY <1>1, <1>2, ProductRegroup
  <2>3. /\ ExpScale * T \in Int /\ rate * S \in Int /\ ExpScale * total \in Int
    BY <1>1, <1>2, <1>6
  <2>4. ExpScale * T <= ExpScale * total
    BY <1>5, <1>7, <2>1, <2>2, <2>3
  <2>. QED BY <1>1, <1>2, <1>6, <2>4, ProductCancel
<1>. QED BY <1>8 DEF DebtCovered

\* What getBorrowBalance asks of any number of borrowers, each rounded up, adds
\* up to at least the debt that totalAssets counts for the lenders.
THEOREM DebtCoveredCorrect == Spec => []DebtCovered
<1>1. TypeOK /\ LoanSharesSum => DebtCovered
  BY DebtCovers
<1>. QED BY <1>1, TypeCorrect, LoanSharesCorrect, PTL

-----------------------------------------------------------------------------
\* An amount that x shares were worth before interest accrued costs at most x
\* shares afterwards.
LEMMA RoundTrip ==
    ASSUME NEW x \in Nat, NEW m \in Nat \ {0}, NEW supply \in Nat, NEW A \in Nat,
           NEW B \in Nat, A <= B, m <= ConvertToAssets(x, supply, A)
    PROVE  PreviewWithdraw(m, supply, B) <= x
<1>1. CASE supply = 0
  BY <1>1 DEF ConvertToAssets, PreviewWithdraw
<1>2. CASE supply # 0
  <2> DEFINE q == MulDivDown(x, A, supply)
             p == MulDivUp(m, supply, B)
  <2>1. q \in Nat /\ supply * q <= x * A /\ m <= q
    BY <1>2, MulDivDownBounds DEF ConvertToAssets
  <2>. HIDE DEF q
  <2>2. supply * m <= x * B
    <3>1. supply * m <= supply * q
      BY <2>1, ProductMono
    <3>2. x * A <= x * B
      BY ProductMono
    <3>3. /\ supply * m \in Int /\ supply * q \in Int /\ x * A \in Int /\ x * B \in Int
      BY <2>1
    <3>. QED BY <2>1, <3>1, <3>2, <3>3
  <2>3. supply * m \in Nat \ {0}
    BY <1>2
  <2>4. B \in Nat \ {0}
    <3>1. CASE B = 0
      <4>1. x * B = 0
        BY <3>1
      <4>. QED BY <2>2, <2>3, <4>1
    <3>. QED BY <3>1
  <2>5. p \in Nat /\ B * p < m * supply + B
    BY <2>4, MulDivUpBounds
  <2>6. PreviewWithdraw(m, supply, B) = p
    BY <1>2 DEF PreviewWithdraw
  <2>. HIDE DEF p
  <2>7. p <= x
    <3>1. SUFFICES ASSUME x + 1 <= p PROVE FALSE
      BY <2>5
    <3>2. B * (x + 1) <= B * p
      BY <2>5, <3>1, ProductMono
    <3>3. B * (x + 1) = x * B + B /\ m * supply = supply * m
      OBVIOUS
    <3>4. B * p \in Int /\ x * B \in Int /\ supply * m \in Int
      BY <2>5
    <3>. QED BY <2>2, <2>5, <3>2, <3>3, <3>4
  <2>. QED BY <2>6, <2>7
<1>. QED BY <1>1, <1>2

\* maxWithdraw rounds down on a book that interest can only raise.
LEMMA MaxWithdrawPays ==
    ASSUME TypeOK
    PROVE  MaxWithdrawHonoured
<1> DEFINE A == TotalAssets(book, cashReserves)
           B == TotalAssets(Accrued, cashReserves)
<1>1. /\ totalSupply \in Nat /\ balanceOf \in [Account -> Nat] /\ cashReserves \in Nat
      /\ A \in Nat /\ B \in Nat /\ A <= B
  BY TypeParts, AccruedOK DEF LedgerOK, TotalAssets, Book
<1>. HIDE DEF A, B
<1>2. SUFFICES ASSUME NEW o \in Account, MaxWithdraw(o) > 0
               PROVE  PreviewWithdraw(MaxWithdraw(o), totalSupply, B) <= balanceOf[o]
  BY DEF MaxWithdrawHonoured, B
<1> DEFINE m == MaxWithdraw(o)
           c == ConvertToAssets(balanceOf[o], totalSupply, A)
<1>3. balanceOf[o] \in Nat /\ c \in Nat
  BY <1>1, ConversionNat
<1>4. m = IF c > cashReserves THEN cashReserves ELSE c
  BY DEF MaxWithdraw, A
<1>. HIDE DEF c
<1>5. m \in Nat \ {0} /\ m <= c
  BY <1>1, <1>2, <1>3, <1>4
<1>. HIDE DEF m
<1>6. PreviewWithdraw(m, totalSupply, B) <= balanceOf[o]
  BY <1>1, <1>3, <1>5, RoundTrip DEF c
<1>. QED BY <1>6 DEF m

\* An owner of any balance can withdraw what maxWithdraw reports without running
\* out of shares, however long ago interest was last accrued.
THEOREM MaxWithdrawCorrect == Spec => []MaxWithdrawHonoured
<1>1. TypeOK => MaxWithdrawHonoured
  BY MaxWithdrawPays
<1>. QED BY <1>1, TypeCorrect, PTL

-----------------------------------------------------------------------------
(***************************************************************************)
(* The price of a vault share.                                             *)
(***************************************************************************)

\* The step that SharePriceNeverFalls allows.
SharePriceStep ==
    totalSupply > 0 /\ totalSupply' > 0 =>
        TotalAssets(book, cashReserves) * totalSupply'
          <= TotalAssets(book, cashReserves)' * totalSupply

\* A deposit that pays x for s new shares, or a withdrawal that gives up s shares
\* for x, keeps the price when it is rounded the vault's way.
LEMMA PriceKept ==
    ASSUME NEW A \in Nat, NEW B \in Nat, A <= B, NEW S \in Nat, NEW s \in Nat, NEW x \in Nat
    PROVE  /\ B * s <= x * S => A * (S + s) <= (B + x) * S
           /\ x * S <= B * s /\ s <= S => A * (S - s) <= (B - x) * S
<1>1. B * s \in Int /\ x * S \in Int /\ B * S \in Int
  OBVIOUS
<1>2. ASSUME B * s <= x * S PROVE A * (S + s) <= (B + x) * S
  <2>1. A * (S + s) <= B * (S + s)
    BY ProductMono
  <2>2. B * (S + s) = B * S + B * s /\ (B + x) * S = B * S + x * S
    OBVIOUS
  <2>3. A * (S + s) \in Int
    OBVIOUS
  <2>. QED BY <1>1, <1>2, <2>1, <2>2, <2>3
<1>3. ASSUME x * S <= B * s, s <= S PROVE A * (S - s) <= (B - x) * S
  <2>0. S - s \in Nat
    BY <1>3
  <2>1. A * (S - s) <= B * (S - s)
    BY <2>0, ProductMono
  <2>2. B * (S - s) = B * S - B * s /\ (B - x) * S = B * S - x * S
    OBVIOUS
  <2>3. A * (S - s) \in Int
    OBVIOUS
  <2>. QED BY <1>1, <1>3, <2>1, <2>2, <2>3
<1>. QED BY <1>2, <1>3

\* Each conversion of ERC4626 rounds the way of the lenders who stay.
LEMMA ConversionRounds ==
    ASSUME NEW x \in Nat, NEW S \in Nat, NEW B \in Nat
    PROVE  /\ S # 0 /\ B # 0 => B * PreviewDeposit(x, S, B) <= x * S
           /\ S # 0 => B * x <= PreviewMint(x, S, B) * S
           /\ S # 0 /\ B # 0 => x * S <= B * PreviewWithdraw(x, S, B)
           /\ S # 0 => PreviewRedeem(x, S, B) * S <= B * x
<1>1. ASSUME S # 0, B # 0
      PROVE  /\ B * PreviewDeposit(x, S, B) <= x * S
             /\ x * S <= B * PreviewWithdraw(x, S, B)
  <2> DEFINE down == MulDivDown(x, S, B)
             up   == MulDivUp(x, S, B)
  <2>1. /\ down \in Nat /\ B * down <= x * S
        /\ up \in Nat /\ B * up >= x * S
    BY <1>1, MulDivDownBounds, MulDivUpBounds
  <2>2. PreviewDeposit(x, S, B) = down /\ PreviewWithdraw(x, S, B) = up
    BY <1>1 DEF PreviewDeposit, ConvertToShares, PreviewWithdraw
  <2>. HIDE DEF down, up
  <2>3. B * up \in Int /\ x * S \in Int
    BY <2>1
  <2>. QED BY <2>1, <2>2, <2>3
<1>2. ASSUME S # 0
      PROVE  /\ B * x <= PreviewMint(x, S, B) * S
             /\ PreviewRedeem(x, S, B) * S <= B * x
  <2> DEFINE down == MulDivDown(x, B, S)
             up   == MulDivUp(x, B, S)
  <2>1. /\ down \in Nat /\ S * down <= x * B
        /\ up \in Nat /\ S * up >= x * B
    BY <1>2, MulDivDownBounds, MulDivUpBounds
  <2>2. PreviewRedeem(x, S, B) = down /\ PreviewMint(x, S, B) = up
    BY <1>2 DEF PreviewRedeem, ConvertToAssets, PreviewMint
  <2>. HIDE DEF down, up
  <2>3. /\ S * down = down * S /\ S * up = up * S /\ x * B = B * x
        /\ S * down \in Int /\ S * up \in Int /\ x * B \in Int
    BY <2>1
  <2>. QED BY <2>1, <2>2, <2>3
<1>. QED BY <1>1, <1>2

\* Assets and new shares that take nothing from the lenders already there, and
\* assets and burnt shares that take nothing from those who stay.
FairDeposit(assets, shares) ==
    IF totalSupply = 0
    THEN shares = assets
    ELSE TotalAssets(Accrued, cashReserves) * shares <= assets * totalSupply

FairWithdrawal(assets, shares) ==
    IF totalSupply = 0
    THEN shares = assets
    ELSE assets * totalSupply <= TotalAssets(Accrued, cashReserves) * shares

\* deposit and mint, whoever pays: the shares or the assets they compute are fair.
LEMMA DepositFair ==
    ASSUME TypeOK, NEW a \in Account, NEW b \in Account, NEW x \in Nat
    PROVE  /\ DepositAssets(a, b, x) =>
                 \E shares \in Nat : CreditDeposit(a, b, x, shares) /\ FairDeposit(x, shares)
           /\ MintAmount(x) \in Nat /\ FairDeposit(MintAmount(x), x)
<1> DEFINE B == TotalAssets(Accrued, cashReserves)
           S == totalSupply
<1>1. S \in Nat /\ B \in Nat
  BY TypeParts, AccruedOK DEF LedgerOK
<1>2. ASSUME DepositAssets(a, b, x)
      PROVE  \E shares \in Nat : CreditDeposit(a, b, x, shares) /\ FairDeposit(x, shares)
  <2> DEFINE shares == PreviewDeposit(x, S, B)
  <2>1. CreditDeposit(a, b, x, shares) /\ Convertible(S, B)
    BY <1>2 DEF DepositAssets
  <2>. HIDE DEF B, S
  <2>2. shares \in Nat
    BY <1>1, <2>1, ConversionNat DEF PreviewDeposit
  <2>3. IF S = 0 THEN shares = x ELSE B * shares <= x * S
    BY <1>1, <2>1, ConversionRounds DEF Convertible, PreviewDeposit, ConvertToShares
  <2>4. FairDeposit(x, shares)
    BY <2>3 DEF FairDeposit, B, S
  <2>. QED BY <2>1, <2>2, <2>4
<1>3. MintAmount(x) = PreviewMint(x, S, B)
  BY DEF MintAmount
<1>4. MintAmount(x) \in Nat /\ FairDeposit(MintAmount(x), x)
  <2>. HIDE DEF B, S
  <2>1. PreviewMint(x, S, B) \in Nat
    BY <1>1, ConversionNat
  <2>2. IF S = 0 THEN x = PreviewMint(x, S, B) ELSE B * x <= PreviewMint(x, S, B) * S
    BY <1>1, ConversionRounds DEF PreviewMint
  <2>. QED BY <1>3, <2>1, <2>2 DEF FairDeposit, B, S
<1>. QED BY <1>2, <1>4

\* withdraw and redeem, whoever is paid.
LEMMA WithdrawalFair ==
    ASSUME TypeOK, NEW a \in Account, NEW o \in Account, NEW x \in Nat
    PROVE  /\ WithdrawAssets(a, o, x) =>
                 \E shares \in Nat :
                    DebitWithdrawal(a, o, x, shares) /\ FairWithdrawal(x, shares)
           /\ RedeemAmount(x) \in Nat /\ FairWithdrawal(RedeemAmount(x), x)
<1> DEFINE B == TotalAssets(Accrued, cashReserves)
           S == totalSupply
<1>1. S \in Nat /\ B \in Nat
  BY TypeParts, AccruedOK DEF LedgerOK
<1>2. ASSUME WithdrawAssets(a, o, x)
      PROVE  \E shares \in Nat : DebitWithdrawal(a, o, x, shares) /\ FairWithdrawal(x, shares)
  <2> DEFINE shares == PreviewWithdraw(x, S, B)
  <2>1. DebitWithdrawal(a, o, x, shares) /\ Convertible(S, B)
    BY <1>2 DEF WithdrawAssets
  <2>. HIDE DEF B, S
  <2>2. shares \in Nat
    BY <1>1, <2>1, ConversionNat
  <2>3. IF S = 0 THEN shares = x ELSE x * S <= B * shares
    BY <1>1, <2>1, ConversionRounds DEF Convertible, PreviewWithdraw
  <2>4. FairWithdrawal(x, shares)
    BY <2>3 DEF FairWithdrawal, B, S
  <2>. QED BY <2>1, <2>2, <2>4
<1>3. RedeemAmount(x) = PreviewRedeem(x, S, B)
  BY DEF RedeemAmount
<1>4. RedeemAmount(x) \in Nat /\ FairWithdrawal(RedeemAmount(x), x)
  <2>. HIDE DEF B, S
  <2>1. PreviewRedeem(x, S, B) \in Nat
    BY <1>1, ConversionNat DEF PreviewRedeem
  <2>2. IF S = 0 THEN x = PreviewRedeem(x, S, B) ELSE PreviewRedeem(x, S, B) * S <= B * x
    BY <1>1, ConversionRounds DEF PreviewRedeem, ConvertToAssets
  <2>. QED BY <1>3, <2>1, <2>2 DEF FairWithdrawal, B, S
<1>. QED BY <1>2, <1>4

\* The four functions of lenders are fair deposits and withdrawals.
LEMMA LendingFair ==
    ASSUME TypeOK, NEW a \in Account, NEW b \in Account, NEW o \in Account, NEW x \in Nat,
           LendingAction(a, b, o, x)
    PROVE  \E assets, shares \in Nat :
              \/ CreditDeposit(a, b, assets, shares) /\ FairDeposit(assets, shares)
              \/ DebitWithdrawal(a, o, assets, shares) /\ FairWithdrawal(assets, shares)
<1>1. CASE Deposit(a, b, x)
  BY <1>1, DepositFair DEF Deposit
<1>2. CASE Mint(a, b, x)
  BY <1>2, DepositFair DEF Mint
<1>3. CASE Withdraw(a, b, o, x)
  BY <1>3, WithdrawalFair DEF Withdraw
<1>4. CASE Redeem(a, b, o, x)
  BY <1>4, WithdrawalFair DEF Redeem, RedeemShares
<1>. QED BY <1>1, <1>2, <1>3, <1>4 DEF LendingAction

\* A fair deposit or withdrawal does not lower the price.
LEMMA FairKeepsPrice ==
    ASSUME TypeOK, NEW a \in Account, NEW b \in Account, NEW assets \in Nat, NEW shares \in Nat,
           \/ CreditDeposit(a, b, assets, shares) /\ FairDeposit(assets, shares)
           \/ DebitWithdrawal(a, b, assets, shares) /\ FairWithdrawal(assets, shares)
    PROVE  SharePriceStep
<1> DEFINE A == TotalAssets(book, cashReserves)
           B == TotalAssets(Accrued, cashReserves)
           S == totalSupply
<1>1. /\ S \in Nat /\ cashReserves \in Nat /\ Accrued.totalBorrows \in Nat
      /\ A \in Nat /\ B \in Nat /\ A <= B
      /\ B = cashReserves + Accrued.totalBorrows
  BY TypeParts, AccruedOK DEF LedgerOK, TotalAssets, Book
<1>2. SUFFICES ASSUME S > 0 PROVE A * S' <= A' * S
  BY DEF SharePriceStep
<1>3. CASE CreditDeposit(a, b, assets, shares) /\ FairDeposit(assets, shares)
  <2>1. S' = S + shares
    BY <1>3 DEF CreditDeposit, MintShares
  <2>2. A' = B + assets
    BY <1>1, <1>3 DEF CreditDeposit, TotalAssets
  <2>3. B * shares <= assets * S
    BY <1>1, <1>2, <1>3 DEF FairDeposit
  <2>. HIDE DEF A, B
  <2>. QED BY <1>1, <2>1, <2>2, <2>3, PriceKept
<1>4. CASE DebitWithdrawal(a, b, assets, shares) /\ FairWithdrawal(assets, shares)
  <2>1. S' = S - shares /\ shares <= S
    BY <1>1, <1>4 DEF DebitWithdrawal, BurnShares
  <2>2. A' = B - assets
    BY <1>1, <1>4 DEF DebitWithdrawal, TotalAssets
  <2>3. assets * S <= B * shares
    BY <1>1, <1>2, <1>4 DEF FairWithdrawal
  <2>. HIDE DEF A, B
  <2>. QED BY <1>1, <2>1, <2>2, <2>3, PriceKept
<1>. QED BY <1>3, <1>4

\* deposit, mint, withdraw and redeem.
LEMMA LendingKeepsPrice ==
    ASSUME TypeOK, NEW a \in Account, NEW b \in Account, NEW o \in Account, NEW x \in Nat,
           LendingAction(a, b, o, x)
    PROVE  SharePriceStep
BY LendingFair, FairKeepsPrice

\* The other steps leave the supply alone and the assets no smaller.
LEMMA OthersKeepPrice ==
    ASSUME TypeOK, [Next]_vars
    PROVE  \/ \E a, b, o \in Account, x \in Nat : LendingAction(a, b, o, x)
           \/ /\ totalSupply' = totalSupply
              /\ TotalAssets(book, cashReserves) <= TotalAssets(book, cashReserves)'
<1> DEFINE Kept == /\ totalSupply' = totalSupply
                   /\ TotalAssets(book, cashReserves) <= TotalAssets(book, cashReserves)'
<1>1. /\ cashReserves \in Nat /\ book.totalBorrows \in Nat /\ totalSupply \in Nat
      /\ Accrued \in Book /\ Accrued.totalBorrows \in Nat
      /\ Accrued.lastAccrual <= now
      /\ book.totalBorrows <= Accrued.totalBorrows
  BY TypeParts, AccruedOK DEF LedgerOK, Book
<1>2. ASSUME totalSupply' = totalSupply, cashReserves' = cashReserves,
             book'.totalBorrows = book.totalBorrows
      PROVE  Kept
  BY <1>1, <1>2 DEF TotalAssets
<1>3. ASSUME totalSupply' = totalSupply, cashReserves' = cashReserves, book' = Accrued
      PROVE  Kept
  BY <1>1, <1>3 DEF TotalAssets
<1>. HIDE DEF Kept
<1>4. ASSUME NEW a \in Account, NEW b \in Account, NEW x \in Nat, LoanAction(a, b, x)
      PROVE  Kept
  <2>1. CASE Borrow(a, b, x)
    <3> DEFINE lent == [Accrued EXCEPT !.totalBorrows = @ + x]
               cash == cashReserves - x
    <3>1. /\ book' = AccrueInterest(lent, cash) /\ cashReserves' = cash
          /\ totalSupply' = totalSupply /\ cash \in Nat
      BY <1>1, <2>1 DEF Borrow, shareVars
    <3>2. lent \in Book /\ lent.lastAccrual <= now
          /\ lent.totalBorrows = Accrued.totalBorrows + x
      BY <1>1 DEF Book
    <3>3. AccrualOK
      BY TypeParts DEF SettingsOK, WorldOK, AccrualOK
    <3>. HIDE DEF lent, cash
    <3>4. book' \in Book /\ book'.totalBorrows >= lent.totalBorrows
      BY <3>1, <3>2, <3>3, AccrueType
    <3>5. book'.totalBorrows \in Nat
      BY <3>4 DEF Book
    <3>. QED BY <1>1, <3>1, <3>2, <3>4, <3>5 DEF Kept, TotalAssets, cash
  <2>2. ASSUME NEW assets \in Nat, NEW shares \in Nat, SettleLoan(a, b, assets, shares)
        PROVE  Kept
    <3>1. /\ book' = [Accrued EXCEPT !.totalBorrows = @ - assets]
          /\ cashReserves' = cashReserves + assets
          /\ totalSupply' = totalSupply
      BY <2>2 DEF SettleLoan, shareVars
    <3>2. book'.totalBorrows = Accrued.totalBorrows - assets
      BY <1>1, <3>1 DEF Book
    <3>. QED BY <1>1, <3>1, <3>2 DEF Kept, TotalAssets
  <2>. QED BY <1>4, <2>1, <2>2, LoanCases
<1>5. ASSUME NEW a \in Account, NEW b \in Account, NEW o \in Account, NEW x \in Nat,
             ShareAction(a, b, o, x) \/ Donate(a, x)
      PROVE  Kept
  <2>1. /\ totalSupply' = totalSupply /\ cashReserves' = cashReserves
        /\ book' = book
    BY <1>5 DEF ShareAction, Transfer, TransferFrom, Approve, Donate, lending, shareVars
  <2>. QED BY <1>2, <2>1
<1>6. ASSUME NEW a \in Account, NEW b \in Account, RewardAction(a, b) PROVE Kept
  <2>1. /\ totalSupply' = totalSupply /\ cashReserves' = cashReserves
        /\ book' = OnEntry
    BY <1>6 DEF RewardAction, ClaimRewards, GetPendingRewards, shareVars
  <2>2. book' = book \/ book' = Accrued
    BY <2>1 DEF OnEntry
  <2>. QED BY <1>2, <1>3, <2>1, <2>2
<1>7. ASSUME NEW x \in Nat, CollectFee(x) PROVE Kept
  <2>1. book' = [book EXCEPT !.collectableFee = @ - x] /\ book \in Book
    BY <1>7 DEF CollectFee, TypeOK
  <2>2. book'.totalBorrows = book.totalBorrows
    BY <2>1 DEF Book
  <2>. QED BY <1>2, <1>7, <2>2 DEF CollectFee, shareVars
<1>8. ASSUME Poke PROVE Kept
  BY <1>3, <1>8 DEF Poke, shareVars
<1>9. SettingAction \/ WorldAction => Kept
  BY <1>2 DEF SettingAction, SetInterestModel, SetFeeCollector, SetMaxBorrow,
         SetPlatformFee, WorldAction, Tick, Quote, ChangeCollateral, lending, shareVars
<1>10. ASSUME UNCHANGED vars PROVE Kept
  BY <1>2, <1>10 DEF vars, lending, shareVars
<1>11. ASSUME LiquidationAction PROVE Kept
  BY <1>2, <1>3, <1>11
     DEF LiquidationAction, LiquidateBegin, Liquidate, LiquidateEnd, lending, shareVars
<1>. QED BY <1>4, <1>5, <1>6, <1>7, <1>8, <1>9, <1>10, <1>11, NextCases DEF Kept

\* Together: no step of the market lowers the price.
LEMMA StepKeepsPrice ==
    ASSUME TypeOK, [Next]_vars
    PROVE  SharePriceStep
<1>1. ASSUME totalSupply' = totalSupply,
             TotalAssets(book, cashReserves) <= TotalAssets(book, cashReserves)'
      PROVE  SharePriceStep
  <2>1. TypeOK'
    BY NextType
  <2>2. /\ totalSupply \in Nat
        /\ TotalAssets(book, cashReserves) \in Int
        /\ TotalAssets(book, cashReserves)' \in Int
    BY <2>1 DEF TypeOK, Book, TotalAssets
  <2>. HIDE DEF TotalAssets
  <2>. QED BY <1>1, <2>2, ProductMono DEF SharePriceStep
<1>. QED BY <1>1, LendingKeepsPrice, OthersKeepPrice

\* No call of anyone, and no passage of time, lowers the assets behind a vault
\* share, for any amounts and any utilization.
THEOREM SharePriceCorrect == Spec => SharePriceNeverFalls
<1>1. TypeOK /\ [Next]_vars => [SharePriceStep]_vars
  BY StepKeepsPrice
<1>. QED BY <1>1, TypeCorrect, PTL DEF Spec, SharePriceNeverFalls, SharePriceStep

-----------------------------------------------------------------------------
\* Within one block a second accrual finds nothing to do, whatever the cash.
LEMMA AccrueOnce ==
    ASSUME NEW b \in Book, NEW c, NEW d
    PROVE  AccrueInterest(AccrueInterest(b, c), d) = AccrueInterest(b, c)
<1>1. CASE now = b.lastAccrual \/ b.totalBorrows = 0
  BY <1>1 DEF AccrueInterest
<1>2. CASE ~ (now = b.lastAccrual \/ b.totalBorrows = 0)
  <2>1. AccrueInterest(b, c).lastAccrual = now
    BY <1>2 DEF AccrueInterest
  <2>. QED BY <2>1 DEF AccrueInterest
<1>. QED BY <1>1, <1>2

\* The step that LendersDontMoveDebt allows.
DebtKeptStep ==
    totalSupply' # totalSupply =>
        /\ Accrued'.totalBorrows = Accrued.totalBorrows
        /\ UNCHANGED loans

\* deposit, mint, withdraw and redeem accrue before they move cash.
LEMMA LendingKeepsDebt ==
    ASSUME TypeOK, NEW a \in Account, NEW b \in Account, NEW o \in Account, NEW x \in Nat,
           LendingAction(a, b, o, x)
    PROVE  DebtKeptStep
<1>1. /\ book' = Accrued /\ now' = now /\ platformFee' = platformFee
      /\ interestModel' = interestModel /\ UNCHANGED loans
  BY LendingCases DEF LendingMove, TakeDeposit, CreditDeposit, PayWithdrawal, DebitWithdrawal, world, settings
<1>2. Accrued' = AccrueInterest(book', cashReserves')
  BY <1>1 DEF Accrued, AccrueInterest, InterestCharged, GetInterest
<1>3. book \in Book
  BY DEF TypeOK
<1>4. AccrueInterest(book', cashReserves') = Accrued
  BY <1>1, <1>3, AccrueOnce DEF Accrued
<1>. QED BY <1>1, <1>2, <1>4 DEF DebtKeptStep

\* A lender who deposits or withdraws in any amount, and so moves the utilization
\* and the rate, leaves the debt of this moment as it was.
THEOREM LendersDontMoveDebtCorrect == Spec => LendersDontMoveDebt
<1>1. TypeOK /\ [Next]_vars => [DebtKeptStep]_vars
  <2>1. SUFFICES ASSUME TypeOK, [Next]_vars PROVE DebtKeptStep
    OBVIOUS
  <2>2. totalSupply' = totalSupply => DebtKeptStep
    BY DEF DebtKeptStep
  <2>. QED BY <2>1, <2>2, LendingKeepsDebt, OthersKeepPrice
<1>. QED BY <1>1, TypeCorrect, PTL DEF Spec, LendersDontMoveDebt, DebtKeptStep
-----------------------------------------------------------------------------
(***************************************************************************)
(* The market implements VaultLedger.  Its hand-kept totals are the sums   *)
(* of the accounts' shares, by which the abstract steps divide.            *)
(***************************************************************************)
LedgerInv == TypeOK /\ LoanSharesSum /\ SharesSum

\* The three invariants of the earlier theorems, together.
LEMMA LedgerInvariant == Spec => []LedgerInv
BY TypeCorrect, LoanSharesCorrect, SharesCorrect, PTL DEF LedgerInv

\* The same sums, under the names they have in the two modules.
LEMMA LedgerTotals ==
    ASSUME LedgerInv
    PROVE  Ledger!Supply = totalSupply /\ Ledger!LoanSupply = totalBorrowShares
<1>1. ASSUME NEW f, NEW n PROVE Ledger!Sum(f, n) = Sum(f, n)
  BY Zenon DEF Ledger!Sum, Sum
<1>. QED BY <1>1 DEF LedgerInv, LoanSharesSum, SharesSum, Ledger!Supply, Ledger!LoanSupply

\* What the abstract steps read, in a well-formed state.
LEMMA LedgerFacts ==
    ASSUME LedgerInv
    PROVE  /\ cashReserves \in Nat /\ totalSupply \in Nat /\ totalBorrowShares \in Nat
           /\ balanceOf \in [Account -> Nat] /\ borrowed \in [Account -> Nat]
           /\ book \in Book /\ book.totalBorrows \in Nat
           /\ Accrued \in Book /\ Accrued.totalBorrows \in Nat
           /\ Accrued.totalBorrows >= book.totalBorrows
           /\ Accrued.lastAccrual <= now
           /\ GetInterestRate(Accrued, totalBorrowShares) \in Nat
           /\ TotalAssets(Accrued, cashReserves) = cashReserves + Accrued.totalBorrows
BY TypeParts, AccruedOK DEF LedgerInv, LedgerOK, Book, TotalAssets

\* A fair deposit is a deposit of VaultLedger.
LEMMA DepositImplements ==
    ASSUME LedgerInv, NEW a \in Account, NEW b \in Account,
           NEW assets \in Nat, NEW shares \in Nat,
           CreditDeposit(a, b, assets, shares), FairDeposit(assets, shares)
    PROVE  Ledger!Deposit(b)
<1>1. /\ cashReserves' = cashReserves + assets /\ book' = Accrued
      /\ balanceOf' = [balanceOf EXCEPT ![b] = @ + shares]
      /\ UNCHANGED borrowed
  BY DEF CreditDeposit, MintShares, loans
<1>2. /\ cashReserves' - cashReserves = assets
      /\ balanceOf'[b] - balanceOf[b] = shares
  BY <1>1, LedgerFacts
<1>3. Ledger!Grows(balanceOf, balanceOf', b, shares)
  BY <1>1 DEF Ledger!Grows
<1>4. IF totalSupply = 0 THEN shares = assets
      ELSE shares * (cashReserves + Accrued.totalBorrows) <= assets * totalSupply
  <2> DEFINE B == TotalAssets(Accrued, cashReserves)
  <2>1. B \in Nat /\ B = cashReserves + Accrued.totalBorrows
    BY LedgerFacts
  <2>2. B * shares = shares * B
    BY <2>1, ProductRegroup
  <2>. QED BY <2>1, <2>2 DEF FairDeposit
<1>. QED BY <1>1, <1>2, <1>3, <1>4, LedgerFacts, LedgerTotals DEF Ledger!Deposit

\* Undoing a subtraction from one entry.
LEMMA GrowsBack ==
    ASSUME NEW f \in [Account -> Nat], NEW a \in Account, NEW k \in Nat
    PROVE  Ledger!Grows([f EXCEPT ![a] = @ - k], f, a, k)
<1> DEFINE g == [f EXCEPT ![a] = @ - k]
           h == [g EXCEPT ![a] = @ + k]
<1>1. g \in [Account -> Int] /\ h \in [Account -> Int]
  OBVIOUS
<1>2. \A c \in Account : h[c] = f[c]
  OBVIOUS
<1>3. h = f
  <2>. HIDE DEF h
  <2>. QED BY <1>1, <1>2
<1>. QED BY <1>3 DEF Ledger!Grows

\* A fair withdrawal is a withdrawal of VaultLedger: without shares there is
\* nothing to burn, and so nothing to take.
LEMMA WithdrawalImplements ==
    ASSUME LedgerInv, NEW a \in Account, NEW o \in Account,
           NEW assets \in Nat, NEW shares \in Nat,
           DebitWithdrawal(a, o, assets, shares), FairWithdrawal(assets, shares)
    PROVE  Ledger!Withdraw(o)
<1>1. /\ cashReserves' = cashReserves - assets /\ book' = Accrued
      /\ balanceOf' = [balanceOf EXCEPT ![o] = @ - shares]
      /\ totalSupply >= shares
      /\ UNCHANGED borrowed
  BY DEF DebitWithdrawal, BurnShares, loans
<1>2. /\ cashReserves - cashReserves' = assets
      /\ balanceOf[o] - balanceOf'[o] = shares
  BY <1>1, LedgerFacts
<1>3. Ledger!Grows(balanceOf', balanceOf, o, shares)
  BY <1>1, LedgerFacts, GrowsBack
<1>4. totalSupply = 0 => assets = 0
  BY <1>1, LedgerFacts DEF FairWithdrawal
<1>5. assets * totalSupply <= shares * (cashReserves + Accrued.totalBorrows)
  <2> DEFINE B == TotalAssets(Accrued, cashReserves)
  <2>1. B \in Nat /\ B = cashReserves + Accrued.totalBorrows
    BY LedgerFacts
  <2>2. B * shares = shares * B /\ shares * B \in Nat
    BY <2>1, ProductRegroup, ProductNat
  <2>3. CASE totalSupply = 0
    BY <1>4, <2>1, <2>2, <2>3
  <2>4. CASE totalSupply # 0
    BY <2>1, <2>2, <2>4 DEF FairWithdrawal
  <2>. QED BY <2>3, <2>4
<1>6. book'.totalBorrows >= book.totalBorrows /\ (assets > 0 => totalSupply > 0)
  BY <1>1, <1>4, LedgerFacts
<1>. QED BY <1>1, <1>2, <1>3, <1>5, <1>6, LedgerTotals DEF Ledger!Withdraw

\* Shares that change hands, by transfer, transferFrom or liquidate.
LEMMA TransferImplements ==
    ASSUME LedgerInv, NEW a \in Account, NEW b \in Account, NEW x \in Nat,
           balanceOf' = Send(balanceOf, a, b, x), UNCHANGED <<lending>>
    PROVE  Ledger!Transfer(a, b) \/ UNCHANGED Ledger!ledger
<1>1. UNCHANGED <<cashReserves, book, borrowed>>
  BY DEF lending
<1>2. CASE a = b
  <2>1. balanceOf' = balanceOf
    BY <1>2, LedgerFacts DEF Send
  <2>. QED BY <1>1, <2>1 DEF Ledger!ledger
<1>3. CASE a # b
  <2>1. balanceOf[a] - balanceOf'[a] = x
    BY <1>3, LedgerFacts DEF Send
  <2>2. balanceOf' = [[balanceOf EXCEPT ![a] = @ - x] EXCEPT ![b] = @ + x]
    BY DEF Send
  <2>3. UNCHANGED <<cashReserves, book.totalBorrows, borrowed>>
    BY <1>1
  <2>4. x >= 0
    OBVIOUS
  <2>. QED BY <2>1, <2>2, <2>3, <2>4, Zenon DEF Ledger!Transfer
<1>. QED BY <1>2, <1>3

\* Loan shares rounded down, at a rate rounded up: less than one share is missing.
LEMMA WithinOneShare ==
    ASSUME NEW amount \in Nat, NEW scale \in Nat, NEW S \in Nat \ {0}, NEW T \in Nat,
           NEW rate \in Nat, NEW new \in Nat,
           amount * scale < rate * new + rate, S * rate < T * scale + S
    PROVE  amount * S * scale < (new + 1) * (T * scale + S)
<1> DEFINE u == amount * scale
           w == rate * (new + 1)
           v == T * scale + S
<1>1. u \in Nat /\ v \in Nat /\ w \in Nat /\ S * rate \in Nat /\ new + 1 \in Nat
      /\ rate * new \in Nat
  BY ProductNat
<1>2. u + 1 <= w
  <2>1. w = rate * new + rate
    OBVIOUS
  <2>. HIDE DEF u, w
  <2>. QED BY <1>1, <2>1 DEF u
<1>3. amount * S * scale = u * S
  BY ProductRegroup
<1>4. w * S = (new + 1) * (S * rate)
  <2>1. w * S = (rate * S) * (new + 1)
    BY <1>1, ProductRegroup
  <2>2. rate * S = S * rate
    BY ProductRegroup
  <2>. QED BY <1>1, <2>1, <2>2, ProductRegroup
<1>5. S * rate <= v
  BY <1>1
<1>. HIDE DEF u, v, w
<1>6. (new + 1) * (S * rate) <= (new + 1) * v
  BY <1>1, <1>5, ProductMono
<1>7. (u + 1) * S <= w * S
  BY <1>1, <1>2, ProductMono
<1>8. (u + 1) * S = u * S + S
  BY <1>1
<1>9. u * S \in Int /\ w * S \in Int /\ (new + 1) * v \in Int
  BY <1>1
<1>10. u * S < (new + 1) * v
  <2>1. u * S + S <= w * S
    BY <1>7, <1>8
  <2>2. w * S <= (new + 1) * v
    BY <1>4, <1>6
  <2>. QED BY <1>9, <2>1, <2>2
<1>. QED BY <1>3, <1>10 DEF v

\* borrow: the loan shares are rounded down at a rate that is rounded up.  Where
\* there are loan shares, borrow needs debt behind them; then nothing accrues twice.
LEMMA BorrowImplements ==
    ASSUME LedgerInv, NEW a \in Account, NEW b \in Account, NEW amount \in Nat,
           Borrow(a, b, amount)
    PROVE  Ledger!Borrow(a)
<1> DEFINE S      == totalBorrowShares
           T      == Accrued.totalBorrows
           rate   == GetInterestRate(Accrued, S)
           scaled == amount * ExpScale
           new    == scaled \div rate
           lent   == [Accrued EXCEPT !.totalBorrows = @ + amount]
<1>1. /\ cashReserves' = cashReserves - amount /\ cashReserves >= amount
      /\ borrowed' = [borrowed EXCEPT ![a] = @ + new]
      /\ book' = AccrueInterest(lent, cashReserves - amount)
      /\ rate # 0
      /\ UNCHANGED balanceOf
  BY DEF Borrow, shareVars
<1>2. /\ S \in Nat /\ T \in Nat /\ rate \in Nat \ {0} /\ T >= book.totalBorrows
      /\ ExpScale \in Nat \ {0} /\ scaled \in Nat
  BY <1>1, LedgerFacts, MTokenAssumption, ProductNat
<1>3. lent \in Book /\ lent.totalBorrows = T + amount /\ lent.lastAccrual = Accrued.lastAccrual
  BY LedgerFacts DEF Book
<1>4. book'.totalBorrows \in Nat /\ book'.totalBorrows >= T + amount
  <2>1. cashReserves - amount \in Nat /\ AccrualOK /\ lent.lastAccrual <= now
    BY <1>1, <1>3, LedgerFacts, TypeParts DEF LedgerInv, SettingsOK, WorldOK, AccrualOK
  <2>. HIDE DEF lent
  <2>2. book'.totalBorrows >= lent.totalBorrows /\ book' \in Book
    BY <1>1, <1>3, <2>1, AccrueType
  <2>. QED BY <1>3, <2>2 DEF Book
<1>5. S # 0 => S * rate >= T * ExpScale /\ S * rate < T * ExpScale + S
  BY <1>2, MulDivUpBounds DEF GetInterestRate
<1>6. S # 0 => book'.totalBorrows = T + amount
  <2>1. SUFFICES ASSUME S # 0 PROVE book'.totalBorrows = T + amount
    OBVIOUS
  <2>2. T # 0
    <3>1. SUFFICES ASSUME T = 0 PROVE FALSE
      OBVIOUS
    <3>2. T * ExpScale = 0
      BY <1>2, <3>1
    <3>3. S * rate >= S * 1
      <4>1. 1 <= rate
        BY <1>2
      <4>. HIDE DEF rate
      <4>. QED BY <1>2, <4>1, ProductMono
    <3>. HIDE DEF rate, T
    <3>4. S * rate \in Int
      BY <1>2
    <3>. QED BY <1>2, <1>5, <2>1, <3>2, <3>3, <3>4
  <2>3. Accrued.lastAccrual = now
    BY <2>2, LedgerFacts DEF Accrued, AccrueInterest
  <2>4. AccrueInterest(lent, cashReserves - amount) = lent
    <3>. HIDE DEF lent
    <3>. QED BY <1>3, <2>3 DEF AccrueInterest
  <2>. QED BY <1>1, <1>3, <2>4
<1>. HIDE DEF rate
<1>7. new \in Nat /\ rate * new <= scaled /\ scaled < rate * new + rate
  <2>. HIDE DEF scaled
  <2>. QED BY <1>2, DivBounds
<1>8. S = 0 => new = amount
  <2>1. SUFFICES ASSUME S = 0 PROVE new = amount
    OBVIOUS
  <2>2. rate = ExpScale
    BY <2>1 DEF rate, GetInterestRate
  <2>3. (amount * ExpScale) \div ExpScale = amount
    BY MTokenAssumption
  <2>. QED BY <2>2, <2>3
<1>. HIDE DEF new, T
<1>9. S # 0 => new * T <= amount * S
  <2>1. SUFFICES ASSUME S # 0 PROVE new * T <= amount * S
    OBVIOUS
  <2>2. new * rate <= ExpScale * amount
    <3>1. rate * new = new * rate /\ scaled = ExpScale * amount
      BY <1>2, <1>7, ProductRegroup
    <3>. QED BY <1>7, <3>1
  <2>. QED BY <1>2, <1>5, <1>7, <2>1, <2>2, RoundedUpTwice
<1>10. S # 0 => amount * S * ExpScale < (new + 1) * (T * ExpScale + S)
  BY <1>2, <1>5, <1>7, WithinOneShare
<1>11. /\ cashReserves - cashReserves' = amount
       /\ borrowed'[a] - borrowed[a] = new
       /\ book'.totalBorrows - amount >= book.totalBorrows
       /\ S # 0 => book'.totalBorrows - amount = T
  BY <1>1, <1>2, <1>4, <1>6, <1>7, LedgerFacts
<1>12. Ledger!Grows(borrowed, borrowed', a, new)
  BY <1>1, <1>7 DEF Ledger!Grows
<1>13. Ledger!LoanSupply = S
  BY LedgerTotals
<1>. HIDE DEF S
<1>. QED BY <1>1, <1>8, <1>9, <1>10, <1>11, <1>12, <1>13 DEF Ledger!Borrow

\* repay rounds the loan shares up at a rate that is rounded up, so it may settle
\* up to one share more than is paid for; repayShares settles none it is not paid.
LEMMA SettlementFair ==
    ASSUME LedgerInv, NEW a \in Account, NEW b \in Account, NEW x \in Nat,
           Repay(a, b, x) \/ RepayShares(a, b, x)
    PROVE  \E assets, shares \in Nat :
              /\ SettleLoan(a, b, assets, shares)
              /\ (shares - 1) * Accrued.totalBorrows <= assets * totalBorrowShares
<1> DEFINE S    == totalBorrowShares
           T    == Accrued.totalBorrows
           rate == GetInterestRate(Accrued, S)
<1>1. S \in Nat /\ T \in Nat /\ rate \in Nat /\ ExpScale \in Nat \ {0}
  BY LedgerFacts, MTokenAssumption
<1>2. CASE Repay(a, b, x)
  <2> DEFINE settled == MulDivUp(x, ExpScale, rate)
  <2>1. SettleLoan(a, b, x, settled) /\ rate # 0
    BY <1>2 DEF Repay
  <2>2. S # 0 => T * ExpScale <= S * rate
    BY <1>1, LedgerFacts, RateCovers
  <2>. HIDE DEF rate, T
  <2>3. settled \in Nat /\ rate * settled < x * ExpScale + rate
    BY <1>1, <2>1, MulDivUpBounds
  <2>. HIDE DEF settled
  <2>4. settled <= S
    BY <2>1 DEF SettleLoan
  <2>5. (settled - 1) * T <= x * S
    <3>1. CASE settled = 0
      <4>1. (settled - 1) * T = 0 - T /\ x * S \in Nat
        BY <1>1, <3>1, ProductNat
      <4>. QED BY <1>1, <4>1
    <3>2. CASE settled # 0
      <4>1. settled - 1 \in Nat /\ S \in Nat \ {0}
        BY <1>1, <2>3, <2>4, <3>2
      <4>2. (settled - 1) * rate <= ExpScale * x
        <5>1. (settled - 1) * rate = rate * settled - rate /\ x * ExpScale = ExpScale * x
          BY <1>1, <2>3
        <5>2. rate * settled \in Int /\ x * ExpScale \in Int
          BY <1>1, <2>3
        <5>. QED BY <1>1, <2>3, <5>1, <5>2
      <4>. QED BY <1>1, <2>2, <4>1, <4>2, RoundedUpTwice
    <3>. QED BY <3>1, <3>2
  <2>. QED BY <2>1, <2>3, <2>5 DEF T
<1>3. CASE RepayShares(a, b, x)
  <2> DEFINE paid == RepaySharesAmount(x)
  <2>1. SettleLoan(a, b, paid, x) /\ x <= S
    BY <1>1, <1>3 DEF RepayShares, SettleLoan
  <2>2. paid \in Nat /\ paid * S >= x * T
    <3>1. TypeOK
      BY DEF LedgerInv
    <3>. QED BY <1>1, <2>1, <3>1, RepaySharesAmountNat, RepaySharesPays DEF RepaySharesPaysFully
  <2>. HIDE DEF paid, T
  <2>3. (x - 1) * T = x * T - T /\ x * T \in Int /\ paid * S \in Int
    BY <1>1, <2>2
  <2>4. (x - 1) * T <= paid * S
    BY <1>1, <2>2, <2>3
  <2>. QED BY <2>1, <2>2, <2>4 DEF T
<1>. QED BY <1>2, <1>3

\* repay and repayShares are repayments of VaultLedger.
LEMMA SettlementImplements ==
    ASSUME LedgerInv, NEW a \in Account, NEW b \in Account,
           NEW assets \in Nat, NEW shares \in Nat, SettleLoan(a, b, assets, shares),
           (shares - 1) * Accrued.totalBorrows <= assets * totalBorrowShares
    PROVE  Ledger!Repay(b)
<1>1. /\ cashReserves' = cashReserves + assets
      /\ book' = [Accrued EXCEPT !.totalBorrows = @ - assets]
      /\ borrowed' = [borrowed EXCEPT ![b] = @ - shares]
      /\ UNCHANGED balanceOf
  BY DEF SettleLoan, shareVars
<1>2. /\ cashReserves' - cashReserves = assets
      /\ borrowed[b] - borrowed'[b] = shares
  BY <1>1, LedgerFacts
<1>3. book'.totalBorrows + assets = Accrued.totalBorrows
  <2>1. book'.totalBorrows = Accrued.totalBorrows - assets
    BY <1>1, LedgerFacts DEF Book
  <2>. QED BY <2>1, LedgerFacts
<1>4. Ledger!Grows(borrowed', borrowed, b, shares)
  BY <1>1, LedgerFacts, GrowsBack
<1>. QED BY <1>1, <1>2, <1>3, <1>4, LedgerFacts, LedgerTotals DEF Ledger!Repay

\* Every step of the market is a step of VaultLedger, or invisible to it.
LEMMA StepImplements ==
    ASSUME LedgerInv, [Next]_vars
    PROVE  [Ledger!Next]_(Ledger!ledger)
<1> DEFINE Goal == Ledger!Next \/ UNCHANGED Ledger!ledger
<1>1. SUFFICES Goal
  OBVIOUS
<1>2. \A a \in Account : Ledger!Deposit(a) \/ Ledger!Withdraw(a) \/ Ledger!Borrow(a)
                            \/ Ledger!Repay(a) => Goal
  BY DEF Ledger!Next, Ledger!Holder, Account
<1>3. \A a, b \in Account : Ledger!Transfer(a, b) => Goal
  BY DEF Ledger!Next, Ledger!Holder, Account
<1>4. ASSUME UNCHANGED <<cashReserves, borrowed, balanceOf>>,
             book'.totalBorrows = book.totalBorrows
      PROVE  Goal
  BY <1>4 DEF Ledger!ledger
<1>5. ASSUME UNCHANGED <<cashReserves, borrowed, balanceOf>>, book' = Accrued
      PROVE  Goal
  <2>1. Ledger!Interest
    BY <1>5, LedgerFacts DEF Ledger!Interest
  <2>. QED BY <2>1 DEF Ledger!Next
<1>. HIDE DEF Goal
<1>6. TypeOK
  BY DEF LedgerInv
<1>7. ASSUME NEW a \in Account, NEW b \in Account, NEW o \in Account, NEW x \in Nat,
             LendingAction(a, b, o, x)
      PROVE  Goal
  BY <1>2, <1>6, <1>7, LendingFair, DepositImplements, WithdrawalImplements
<1>8. ASSUME NEW a \in Account, NEW b \in Account, NEW x \in Nat, LoanAction(a, b, x)
      PROVE  Goal
  BY <1>2, <1>8, BorrowImplements, SettlementFair, SettlementImplements DEF LoanAction
<1>9. ASSUME NEW a \in Account, NEW b \in Account, NEW x \in Nat,
             balanceOf' = Send(balanceOf, a, b, x), UNCHANGED lending
      PROVE  Goal
  <2>1. Ledger!Transfer(a, b) \/ UNCHANGED Ledger!ledger
    BY <1>9, TransferImplements
  <2>. QED BY <1>3, <2>1 DEF Goal
<1>10. ASSUME NEW a \in Account, NEW b \in Account, NEW o \in Account, NEW x \in Nat,
              ShareAction(a, b, o, x) \/ Donate(a, x)
      PROVE  Goal
  <2>1. CASE Transfer(a, b, x)
    BY <1>9, <2>1 DEF Transfer
  <2>2. CASE TransferFrom(a, o, b, x)
    BY <1>9, <2>2 DEF TransferFrom
  <2>3. CASE Approve(a, b, x) \/ Donate(a, x)
    BY <1>4, <2>3 DEF Approve, Donate, lending, shareVars
  <2>. QED BY <1>10, <2>1, <2>2, <2>3 DEF ShareAction
<1>11. ASSUME NEW a \in Account, NEW b \in Account, RewardAction(a, b) PROVE Goal
  <2>1. UNCHANGED <<cashReserves, borrowed, balanceOf>> /\ book' = OnEntry
    BY <1>11 DEF RewardAction, ClaimRewards, GetPendingRewards, shareVars, loans
  <2>. QED BY <1>4, <1>5, <2>1 DEF OnEntry
<1>12. ASSUME NEW x \in Nat, CollectFee(x) PROVE Goal
  <2>1. book' = [book EXCEPT !.collectableFee = @ - x]
    BY <1>12 DEF CollectFee
  <2>2. book'.totalBorrows = book.totalBorrows
    BY <2>1, LedgerFacts DEF Book
  <2>. QED BY <1>4, <1>12, <2>2 DEF CollectFee, shareVars, loans
<1>13. ASSUME Poke PROVE Goal
  BY <1>5, <1>13 DEF Poke, shareVars, loans
<1>14. SettingAction \/ WorldAction \/ UNCHANGED vars => Goal
  BY <1>4 DEF SettingAction, SetInterestModel, SetFeeCollector, SetMaxBorrow, SetPlatformFee,
         WorldAction, Tick, Quote, ChangeCollateral, vars, lending, shareVars
<1>15. ASSUME LiquidationAction PROVE Goal
  <2>1. CASE LiquidateEnd \/ \E s, a \in Account : LiquidateBegin(s, a)
    BY <1>5, <2>1 DEF LiquidateBegin, LiquidateEnd, shareVars, loans
  <2>2. ASSUME NEW x \in Nat, Liquidate(x) PROVE Goal
    <3>1. liquidating.sender \in Account /\ liquidating.account \in Account
      BY <1>6, <2>2 DEF TypeOK, LiquidationCall, Liquidate
    <3>. QED BY <1>9, <2>2, <3>1 DEF Liquidate
  <2>. QED BY <1>15, <2>1, <2>2 DEF LiquidationAction
<1>. QED BY <1>7, <1>8, <1>10, <1>11, <1>12, <1>13, <1>14, <1>15, NextCases

\* With any number of lenders and borrowers, any amounts, scales and interest, what
\* the functions of the market do to its books is what VaultLedger allows: each
\* pays or is paid the price of a share at that moment, every rounding included.
THEOREM LedgerRefined == Spec => KeepsLedger
<1>1. Init => Ledger!Init
  BY DEF Init, Ledger!Init, Ledger!Holder, Account
<1>2. LedgerInv /\ [Next]_vars => [Ledger!Next]_(Ledger!ledger)
  BY StepImplements
<1>. QED BY <1>1, <1>2, LedgerInvariant, PTL DEF Spec, KeepsLedger, Ledger!Spec
=============================================================================
