---------------------------- MODULE VaultLedger ----------------------------
(***************************************************************************)
(* What a lending vault promises, whatever its formulas: the lenders own   *)
(* its cash and what the borrowers owe it in proportion to their shares,   *)
(* the borrowers owe it in proportion to their loan shares, and a step for *)
(* one account costs the others no more than its rounding.                 *)
(*                                                                         *)
(* Whether the account has agreed to the step is not said here: a          *)
(* withdrawal burns shares of some account, whoever asks for it.           *)
(*                                                                         *)
(* There is no time, no rate, no reward, no token and no total here: the   *)
(* totals are the sums of the accounts' shares.                            *)
(***************************************************************************)
EXTENDS Sums

CONSTANTS
    NumAccounts,
    Precision       \* of the price of a loan share: one part in so many

VARIABLES
    cash,       \* what the vault has not lent
    owed,       \* what the borrowers owe together
    shares,     \* of each lender
    debts       \* loan shares of each borrower

ledger == <<cash, owed, shares, debts>>

Holder == 1..NumAccounts

Supply     == Sum(shares, NumAccounts)
LoanSupply == Sum(debts, NumAccounts)

Init ==
    /\ cash = 0
    /\ owed = 0
    /\ shares = [a \in Holder |-> 0]
    /\ debts = [a \in Holder |-> 0]

\* The entry of account a, and no other, grows by k.
Grows(f, g, a, k) == k >= 0 /\ g = [f EXCEPT ![a] = @ + k]

\* Time makes the borrowers owe more.
Interest ==
    /\ owed' >= owed
    /\ UNCHANGED <<cash, shares, debts>>

\* A lender pays for new shares at least their part of the vault, interest
\* included: the other lenders lose nothing.  The first shares are worth one.
Deposit(a) ==
    LET paid == cash' - cash
        new  == shares'[a] - shares[a]
    IN  /\ paid >= 0
        /\ Grows(shares, shares', a, new)
        /\ owed' >= owed
        /\ IF Supply = 0 THEN new = paid ELSE new * (cash + owed') <= paid * Supply
        /\ UNCHANGED debts

\* A lender takes for its shares at most their part of the vault.
Withdraw(a) ==
    LET taken == cash - cash'
        burnt == shares[a] - shares'[a]
    IN  /\ taken >= 0
        /\ Grows(shares', shares, a, burnt)
        /\ owed' >= owed
        /\ taken * Supply <= burnt * (cash + owed')
        /\ taken > 0 => Supply > 0
        /\ UNCHANGED debts

\* Shares change hands.
Transfer(a, b) ==
    LET moved == shares[a] - shares'[a]
    IN  /\ moved >= 0
        /\ shares' = [[shares EXCEPT ![a] = @ - moved] EXCEPT ![b] = @ + moved]
        /\ UNCHANGED <<cash, owed, debts>>

\* A loan adds to what is owed, and makes no loan share worth less.  The
\* borrower answers for it to within one loan share, at a price known with the
\* vault's precision: that much may fall on the other borrowers.
Borrow(a) ==
    LET lent == cash - cash'
        new  == debts'[a] - debts[a]
        due  == owed' - lent
    IN  /\ lent >= 0
        /\ Grows(debts, debts', a, new)
        /\ due >= owed
        /\ IF LoanSupply = 0 THEN new = lent
           ELSE /\ new * due <= lent * LoanSupply
                /\ lent * LoanSupply * Precision
                      < (new + 1) * (due * Precision + LoanSupply)
        /\ UNCHANGED shares

\* A repayment takes off, of what is owed at that moment, what it brings in,
\* and is not credited with a whole loan share more than it pays for.
Repay(a) ==
    LET paid    == cash' - cash
        settled == debts[a] - debts'[a]
        due     == owed' + paid
    IN  /\ paid >= 0
        /\ Grows(debts', debts, a, settled)
        /\ due >= owed
        /\ (settled - 1) * due <= paid * LoanSupply
        /\ UNCHANGED shares

Next ==
    \/ Interest
    \/ \E a \in Holder : Deposit(a) \/ Withdraw(a) \/ Borrow(a) \/ Repay(a)
    \/ \E a, b \in Holder : Transfer(a, b)

Spec == Init /\ [][Next]_ledger
=============================================================================
