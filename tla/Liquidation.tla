----------------------------- MODULE Liquidation -----------------------------
(***************************************************************************)
(* Controller.sol with the collateral of UniswapV3: who is healthy, and    *)
(* the transactions in which positions are deposited, withdrawn and seized.*)
(*                                                                         *)
(* These call the receiver or the liquidator before their last check.      *)
(* A transaction is therefore a sequence of steps over a stack of open     *)
(* calls; while a contract is being called back, it and the contracts it   *)
(* calls may start any other function.  A call that reverts leaves no      *)
(* trace: it is one the model does not take, and a transaction that cannot *)
(* end is a behaviour that stops inside it.  What a transaction commits is *)
(* the state in which no call is open.                                     *)
(*                                                                         *)
(* Of the debt market there are the loans, with their roundings, and the   *)
(* vault shares, which liquidate also takes.  The reserves, the cap and the*)
(* payments, which MToken models, make some of its calls revert: here they *)
(* always go through.                                                      *)
(***************************************************************************)
EXTENDS UniswapV3

CONSTANTS
    Contracts,      \* accounts with code, which are called back
    Operators,      \* accounts that may be approved by others
    OracleCoins,    \* coins whose oracle the owner replaces
    InitialHolder,  \* the positions at the start
    ExpScale,       \* 1e18: precision of the borrow exchange rate
    LoanPrice, TokenScale,  \* quote of the borrowed asset, and its unit
    Loans,          \* amounts of assets or shares that are borrowed and repaid
    Interests,      \* amounts of interest that accrue
    MaxDebt,        \* bound of the model on totalBorrows
    InitialShares,  \* the vault shares at the start
    Shares          \* numbers of vault shares that are transferred or seized

ASSUME LiquidationAssumption ==
    /\ Contracts \subseteq Account
    /\ Operators \subseteq Account
    /\ OracleCoins \subseteq Coins
    /\ InitialHolder \in [Token -> Account]
    /\ ExpScale \in Nat \ {0}
    /\ LoanPrice \in Nat
    /\ TokenScale \in Nat \ {0}
    /\ Loans \subseteq Nat
    /\ Interests \subseteq Nat
    /\ MaxDebt \in Nat
    /\ InitialShares \in [Account -> Nat]
    /\ Shares \subseteq Nat

VARIABLES
    debtMarkets,        \* the registered markets
    loans,              \* totalBorrows, totalBorrowShares, borrowed of MToken
    vaultShares,        \* balanceOf of MToken
    controllerLocked,   \* Lockable's flag of the controller
    calls,              \* open calls, the running one last
    keep                \* history: see Entered

uniswapVars == <<nft, isApprovedForAll, holder, tick, quote, tokenScaleFactor,
                 activatedPools, locked>>
controllerVars == <<debtMarkets, controllerLocked>>
lending == <<loans, vaultShares>>
vars == <<uniswapVars, controllerVars, lending, calls, keep>>

\* The two kinds of registered market: the asset class and the debt market.
Market == {"asset", "debt"}

\* An open call: its function, the contract called back, the caller, the
\* account it is about, and the position.
CallOf(ops, tokens) ==
    [op : ops, callee : Account, sender : Account, account : Account, token : tokens]

Call == CallOf({"mint", "withdraw", "seize"}, Token) \cup CallOf({"liquidate"}, {0})

Running == calls[Len(calls)]

LoanBook == [totalBorrows : Nat, totalBorrowShares : Nat, borrowed : [Account -> Nat]]

Init ==
    /\ nft = NewNft
    /\ isApprovedForAll = [a \in Account |-> {}]
    /\ holder = InitialHolder
    /\ tick \in [Pool -> Ticks]
    /\ quote \in [Coins -> UNION {Quotes[c] : c \in Coins}]
    /\ \A c \in Coins : quote[c] \in Quotes[c]
    /\ tokenScaleFactor \in [Coins -> Scales \ {0}]
    /\ activatedPools = Pool
    /\ locked = FALSE
    /\ debtMarkets = {"asset"}
    /\ loans = [totalBorrows |-> 0, totalBorrowShares |-> 0,
                borrowed |-> [a \in Account |-> 0]]
    /\ vaultShares = InitialShares
    /\ controllerLocked = FALSE
    /\ calls = <<>>
    /\ keep = {}

-----------------------------------------------------------------------------
(***************************************************************************)
(* Health.  Debt markets allow no borrowing and asset classes have no debt,*)
(* so that the two loops over the markets read one of the kinds each.      *)
(***************************************************************************)

\* getInterestRate, getBorrowBalance and getDebtBalanceUsd of MToken.
GetInterestRate(book) ==
    IF book.totalBorrowShares = 0 THEN ExpScale
    ELSE MulDivUp(book.totalBorrows, ExpScale, book.totalBorrowShares)

GetBorrowBalance(book, account) ==
    MulDivUp(book.borrowed[account], GetInterestRate(book), ExpScale)

GetDebtBalanceUsd(account) ==
    MulDivUp(GetBorrowBalance(loans, account), LoanPrice, TokenScale)

MaxBorrowUsd(account) ==
    IF "asset" \in debtMarkets THEN GetMaxBorrowUsd(account) ELSE 0

TotalBorrowUsd(account) ==
    IF "debt" \in debtMarkets THEN GetDebtBalanceUsd(account) ELSE 0

\* isHealthy, when it does not revert for lack of an oracle.
HealthKnown(account) == "asset" \in debtMarkets => CollateralPriced(account)

IsHealthy(account) == TotalBorrowUsd(account) <= MaxBorrowUsd(account)

Healthy(account) == HealthKnown(account) /\ IsHealthy(account)

Unhealthy(account) == HealthKnown(account) /\ ~IsHealthy(account)

-----------------------------------------------------------------------------
(***************************************************************************)
(* Transactions.                                                           *)
(***************************************************************************)

\* Who may call a function now: anyone starts a transaction; within one, the
\* contract that is called back, or a contract it calls.
MayCall(account) ==
    calls # <<>> => Running.callee \in Contracts /\ account \in Contracts

BetweenTransactions == calls = <<>>

\* The accounts the running transaction must leave healthy: those that were
\* healthy when it began and let nobody else handle their receipts.
Relies(account) ==
    /\ Healthy(account)
    /\ isApprovedForAll[account] = {}
    /\ \A t \in TokensOf(nft, account) : nft.getApproved[t] = NoOne

Entered == IF calls = <<>> THEN {a \in Account : Relies(a)} ELSE keep

Open(op, callee, sender, account, t) ==
    /\ calls' = Append(calls, [op |-> op, callee |-> callee, sender |-> sender,
                               account |-> account, token |-> t])
    /\ keep' = Entered

Close(op) ==
    /\ calls # <<>>
    /\ Running.op = op
    /\ calls' = SubSeq(calls, 1, Len(calls) - 1)
    /\ keep' = keep

\* A balance sheet after amount has gone from one account to another.
Send(balances, from, to, amount) ==
    [[balances EXCEPT ![from] = @ - amount] EXCEPT ![to] = @ + amount]

\* A call that opens no other.
Within(sender) ==
    /\ MayCall(sender)
    /\ calls' = calls
    /\ keep' = Entered

-----------------------------------------------------------------------------
(***************************************************************************)
(* Deposits and withdrawals.                                               *)
(***************************************************************************)

Mint(sender, receiver, t) ==
    /\ MayCall(sender)
    /\ MintPosition(receiver, t)
    /\ Open("mint", receiver, sender, receiver, t)
    /\ UNCHANGED <<controllerVars, lending>>

\* onERC721Received: a position sent to the contract by a safe transfer is
\* minted to the account it came from.
OnERC721Received(from, t) ==
    /\ MayCall(from)
    /\ holder[t] = from
    /\ MintPosition(from, t)
    /\ Open("mint", from, from, from, t)
    /\ UNCHANGED <<controllerVars, lending>>

MintEnd ==
    /\ Close("mint")
    /\ Unlock
    /\ UNCHANGED <<receipts, holder, prices, activatedPools, controllerVars, lending>>

Withdraw(sender, receiver, t) ==
    /\ MayCall(sender)
    /\ WithdrawPosition(sender, receiver, t)
    /\ Open("withdraw", receiver, sender, nft.ownerOf[t], t)
    /\ UNCHANGED <<controllerVars, lending>>

\* Mutant of WithdrawEnd: the health check is missing.
WithdrawEndUnchecked ==
    /\ Close("withdraw")
    /\ Unlock
    /\ UNCHANGED <<receipts, holder, prices, activatedPools, controllerVars, lending>>

\* After the callbacks, the caller must be healthy.
WithdrawEnd ==
    /\ Close("withdraw")
    /\ Healthy(Running.sender)
    /\ Unlock
    /\ UNCHANGED <<receipts, holder, prices, activatedPools, controllerVars, lending>>

-----------------------------------------------------------------------------
(***************************************************************************)
(* Liquidation.                                                            *)
(***************************************************************************)

\* Controller.liquidate: the caller names the markets to take assets from and
\* the contract to call back.  Each market is any address, so that any contract
\* may run between two seizures and before the final check, as in the callback.
Liquidate(sender, liquidator, account) ==
    /\ MayCall(sender)
    /\ ~controllerLocked
    /\ controllerLocked' = TRUE
    /\ Unhealthy(account)
    /\ liquidator \in Contracts
    /\ Open("liquidate", liquidator, sender, account, 0)
    /\ UNCHANGED <<uniswapVars, debtMarkets, lending>>

\* One turn of its loop for the asset class: the position goes to the caller.
Seize(t) ==
    /\ calls # <<>>
    /\ Running.op = "liquidate"
    /\ SeizePosition(Running.account, Running.sender, t)
    /\ Open("seize", Running.sender, Running.sender, Running.account, t)
    /\ UNCHANGED <<controllerVars, lending>>

\* One turn for the debt market: MToken.liquidate gives vault shares of the
\* account to the caller.  It takes no lock and calls nobody.
SeizeShares(shares) ==
    /\ calls # <<>>
    /\ Running.op = "liquidate"
    /\ vaultShares[Running.account] >= shares
    /\ vaultShares' = Send(vaultShares, Running.account, Running.sender, shares)
    /\ UNCHANGED <<uniswapVars, controllerVars, loans, calls, keep>>

SeizeEnd ==
    /\ Close("seize")
    /\ BurnSeized(Running.token)
    /\ UNCHANGED <<controllerVars, lending>>

\* Mutant of LiquidateEnd: the lock of the controller stays taken.
LiquidateEndLocked ==
    /\ Close("liquidate")
    /\ Healthy(Running.account)
    /\ UNCHANGED <<uniswapVars, controllerVars, lending>>

LiquidateEnd ==
    /\ Close("liquidate")
    /\ Healthy(Running.account)
    /\ controllerLocked' = FALSE
    /\ UNCHANGED <<uniswapVars, debtMarkets, lending>>

-----------------------------------------------------------------------------
(***************************************************************************)
(* The debt market.  Loan shares are rounded, and so a call of one account *)
(* may raise what the others owe: a loan worth less than one share issues  *)
(* none, and all of it falls on the others.                                *)
(***************************************************************************)

\* The accounts whose debt a call raises.
Burdened == {a \in Account : TotalBorrowUsd(a)' > TotalBorrowUsd(a)}

\* borrow.  The interest of a time without loans is charged to the first loan
\* before the borrower's health is checked.
Borrow(account, amount, interest) ==
    LET rate   == GetInterestRate(loans)
        shares == (amount * ExpScale) \div rate
    IN  /\ MayCall(account)
        /\ interest > 0 => loans.totalBorrows = 0 /\ amount > 0
        /\ rate # 0
        /\ loans' = [totalBorrows      |-> loans.totalBorrows + amount + interest,
                     totalBorrowShares |-> loans.totalBorrowShares + shares,
                     borrowed          |-> [loans.borrowed EXCEPT ![account] = @ + shares]]
        /\ UNCHANGED <<uniswapVars, controllerVars, vaultShares, calls>>
        /\ Healthy(account)'
        /\ keep' = Entered \ (Burdened \ {account})

\* Mutant of SettleLoan: overpaying is not refused.
SettleLoanOverpaid(account, assets, shares) ==
    /\ loans' = [totalBorrows      |-> loans.totalBorrows - assets,
                 totalBorrowShares |-> loans.totalBorrowShares - shares,
                 borrowed          |-> [loans.borrowed EXCEPT ![account] = @ - shares]]
    /\ UNCHANGED <<uniswapVars, controllerVars, vaultShares, calls>>
    /\ keep' = Entered \ Burdened

\* The part repay and repayShares share.
SettleLoan(account, assets, shares) ==
    /\ loans.borrowed[account] >= shares
    /\ loans.totalBorrows >= assets
    /\ loans.totalBorrowShares >= shares
    /\ loans' = [totalBorrows      |-> loans.totalBorrows - assets,
                 totalBorrowShares |-> loans.totalBorrowShares - shares,
                 borrowed          |-> [loans.borrowed EXCEPT ![account] = @ - shares]]
    /\ UNCHANGED <<uniswapVars, controllerVars, vaultShares, calls>>
    /\ keep' = Entered \ Burdened

\* repay and repayShares, by anyone for any account.
Repay(sender, account, amount) ==
    LET rate == GetInterestRate(loans)
    IN  /\ MayCall(sender)
        /\ rate # 0
        /\ SettleLoan(account, amount, MulDivUp(amount, ExpScale, rate))

RepayShares(sender, account, shares) ==
    LET amount == MulDivUp(shares, GetInterestRate(loans), ExpScale)
    IN  /\ MayCall(sender)
        /\ SettleLoan(account,
                      IF amount > loans.totalBorrows THEN loans.totalBorrows ELSE amount,
                      shares)

\* Vault shares change hands.
TransferShares(sender, to, shares) ==
    /\ Within(sender)
    /\ vaultShares[sender] >= shares
    /\ vaultShares' = Send(vaultShares, sender, to, shares)
    /\ UNCHANGED <<uniswapVars, controllerVars, loans>>

-----------------------------------------------------------------------------
(***************************************************************************)
(* The rest of the world.                                                  *)
(***************************************************************************)

\* The approver no longer relies on itself alone.
Approve(sender, to, t) ==
    /\ MayCall(sender)
    /\ ApproveReceipt(sender, to, t)
    /\ keep' = Entered \ {nft.ownerOf[t]}
    /\ UNCHANGED <<controllerVars, lending, calls>>

SetApprovalForAll(sender, operator, approved) ==
    /\ MayCall(sender)
    /\ ApproveOperator(sender, operator, approved)
    /\ keep' = Entered \ {sender}
    /\ UNCHANGED <<controllerVars, lending, calls>>

\* The holder sends a position to another account or to the contract.
TransferPosition(to, t) ==
    /\ MovePosition(to, t)
    /\ Within(holder[t])
    /\ UNCHANGED <<controllerVars, lending>>

\* A pool can be moved within a transaction, and with it the health of all.
SwapInPool(sender, pool, to) ==
    /\ MayCall(sender)
    /\ Swap(pool, to)
    /\ keep' = {}
    /\ UNCHANGED <<controllerVars, lending, calls>>

\* Between transactions: the oracles, interest, and the owner.
AddDebtMarket(market) ==
    /\ market \notin debtMarkets
    /\ debtMarkets' = debtMarkets \cup {market}
    /\ UNCHANGED <<uniswapVars, controllerLocked, lending>>

AccrueInterest(interest) ==
    /\ loans.totalBorrows > 0
    /\ loans' = [loans EXCEPT !.totalBorrows = @ + interest]
    /\ UNCHANGED <<uniswapVars, controllerVars, vaultShares>>

Outside ==
    /\ BetweenTransactions
    /\ \/ \E coin \in Coins :
             \/ \E answer \in Quotes[coin] : Quote(coin, answer) /\ UNCHANGED <<controllerVars, lending>>
             \/ coin \in OracleCoins /\ \E answer \in Quotes[coin] \cup {NoOracle} :
                   SetOracle(coin, answer) /\ UNCHANGED <<controllerVars, lending>>
             \/ \E factor \in Scales :
                   SetScaleFactor(coin, factor) /\ UNCHANGED <<controllerVars, lending>>
       \/ \E pools \in SUBSET Pool :
             ActivatePools(pools) /\ UNCHANGED <<controllerVars, lending>>
       \/ \E pool \in Pool : PausePool(pool) /\ UNCHANGED <<controllerVars, lending>>
       \/ \E market \in Market : AddDebtMarket(market)
       \/ \E interest \in Interests :
             AccrueInterest(interest) /\ loans'.totalBorrows <= MaxDebt
    /\ keep' = {}
    /\ UNCHANGED calls

Next ==
    \/ \E sender, a \in Account, t \in Token :
          \/ Mint(sender, a, t)
          \/ Withdraw(sender, a, t)
    \/ \E a \in Account, t \in Token : OnERC721Received(a, t)
    \/ \E t \in Token : Seize(t)
    \/ MintEnd \/ WithdrawEnd \/ SeizeEnd \/ LiquidateEnd
    \/ \E sender, liquidator, a \in Account : Liquidate(sender, liquidator, a)
    \/ \E x \in Shares : SeizeShares(x)
    \/ \E a \in Account, amount \in Loans :
          \/ \E interest \in Interests \cup {0} :
                Borrow(a, amount, interest) /\ loans'.totalBorrows <= MaxDebt
          \/ \E sender \in Account : Repay(sender, a, amount) \/ RepayShares(sender, a, amount)
    \/ \E a, b \in Account, x \in Shares : TransferShares(a, b, x)
    \/ \E sender \in Account, operator \in Operators :
          \/ \E t \in Token : Approve(sender, operator, t)
          \/ \E approved \in BOOLEAN : SetApprovalForAll(sender, operator, approved)
    \/ \E t \in Token, to \in Account \cup {Vault} : TransferPosition(to, t)
    \/ \E sender \in Account, pool \in Pool, to \in Ticks : SwapInPool(sender, pool, to)
    \/ Outside

Spec == Init /\ [][Next]_vars

-----------------------------------------------------------------------------
(***************************************************************************)
(* Correctness.                                                            *)
(***************************************************************************)

\* Every word of storage holds a value of its kind, and every open call is one
\* of the four functions that call out.
TypeOK ==
    /\ UniswapV3Type
    /\ debtMarkets \subseteq Market
    /\ loans \in LoanBook
    /\ vaultShares \in [Account -> Nat]
    /\ controllerLocked \in BOOLEAN
    /\ calls \in Seq(Call)
    /\ keep \subseteq Account

\* Over any sequence of deposits, withdrawals and seizures, the arrays behind
\* getCollateralUsd list each account's receipts once and nothing else, so that
\* no collateral is counted twice or missed.
EnumerationExact == Enumerates(nft)

\* The position of every receipt is in the contract; only while liquidate calls
\* the liquidator has the position left and the receipt not yet been burned.
ReceiptsBacked ==
    \A t \in Token : nft.ownerOf[t] # NoOne =>
        \/ holder[t] = Vault
        \/ \E i \in 1..Len(calls) : calls[i].op = "seize" /\ calls[i].token = t

\* No transaction, whatever the contracts it calls back do, makes an account
\* unhealthy that was healthy and approved nobody, unless prices move, or the
\* roundings of another's loan or repayment raise what the account owes.
SolvencyKept == calls = <<>> => \A a \in keep : Healthy(a)

\* A withdrawal makes its owner's account look worse until it ends.  Only from
\* within its own withdrawal is such an account liquidated, and no position is
\* taken from it there; vault shares may be, which MToken.liquidate gives away
\* whatever lock is taken.
HealthyNotSeized ==
    \A i \in 1..Len(calls) : calls[i].account \in keep =>
        /\ calls[i].op # "seize"
        /\ calls[i].op = "liquidate" =>
              \E j \in 1..(i - 1) :
                 calls[j].op = "withdraw" /\ calls[j].sender = calls[i].account

-----------------------------------------------------------------------------
(***************************************************************************)
(* What a comment promises and the code does not keep.                     *)
(***************************************************************************)

\* withdraw, "require that user is healthy": the account whose collateral has
\* left is healthy when the call returns.
OwnerHealthyAfterWithdraw ==
    [][WithdrawEnd => Healthy(Running.account)]_vars
==============================================================================
