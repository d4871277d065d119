------------------------------- MODULE Keeper -------------------------------
(***************************************************************************)
(* Liquidation over time.  Controller.liquidate is open to everyone; the   *)
(* account keeper is a contract that keeps trying to liquidate, and the    *)
(* question is whether anything the others do can stop it for good.        *)
(*                                                                         *)
(* For this, transactions come to an end: one that does not succeed is     *)
(* reverted, and reverting restores what it found.                         *)
(***************************************************************************)
EXTENDS Liquidation

CONSTANT keeper

ASSUME KeeperAssumption == keeper \in Contracts

VARIABLE before         \* what the running transaction found

keeperVars == <<vars, before>>

\* The variables that calls change.
Snapshot ==
    [nft |-> nft, isApprovedForAll |-> isApprovedForAll, holder |-> holder,
     tick |-> tick, locked |-> locked, loans |-> loans,
     vaultShares |-> vaultShares, controllerLocked |-> controllerLocked]

NoTransaction == <<>>

\* A step that opens a transaction takes the snapshot, one that ends it drops it.
Recorded ==
    before' = IF calls' = <<>> THEN NoTransaction
              ELSE IF calls = <<>> THEN Snapshot ELSE before

KeeperInit == Init /\ before = NoTransaction

-----------------------------------------------------------------------------
\* The running transaction is the keeper's own.
KeeperRuns == calls # <<>> /\ calls[1].op = "liquidate" /\ calls[1].sender = keeper

\* A require fails, a callback reverts, or the gas is used up.
Revert ==
    /\ calls # <<>>
    /\ ~KeeperRuns
    /\ nft' = before.nft
    /\ isApprovedForAll' = before.isApprovedForAll
    /\ holder' = before.holder
    /\ tick' = before.tick
    /\ locked' = before.locked
    /\ loans' = before.loans
    /\ vaultShares' = before.vaultShares
    /\ controllerLocked' = before.controllerLocked
    /\ calls' = <<>>
    /\ keep' = {}
    /\ before' = NoTransaction
    /\ UNCHANGED <<quote, tokenScaleFactor, activatedPools, debtMarkets>>

-----------------------------------------------------------------------------
(***************************************************************************)
(* The keeper's transaction: in the callback it takes positions or not, and*)
(* repays until the account is healthy.                                    *)
(***************************************************************************)
KeeperLiquidates(account) ==
    /\ BetweenTransactions
    /\ Liquidate(keeper, keeper, account)
    /\ Recorded

KeeperSeizes ==
    /\ KeeperRuns
    /\ \E t \in Token : Seize(t)
    /\ Recorded

KeeperSeized ==
    /\ KeeperRuns
    /\ SeizeEnd
    /\ Recorded

KeeperRepays ==
    /\ KeeperRuns
    /\ Running.op = "liquidate"
    /\ ~Healthy(Running.account)
    /\ \E amount \in Loans : Repay(keeper, Running.account, amount)
    /\ Recorded

KeeperEnds ==
    /\ KeeperRuns
    /\ LiquidateEnd
    /\ Recorded

OthersStep ==
    /\ ~KeeperRuns
    /\ Next
    /\ ~KeeperRuns'
    /\ Recorded

KeeperNext ==
    \/ OthersStep
    \/ Revert
    \/ \E a \in Account : KeeperLiquidates(a)
    \/ KeeperSeizes \/ KeeperSeized \/ KeeperRepays \/ KeeperEnds

\* Transactions do not run forever.  The keeper's own steps are taken, and its
\* transaction is included in a block if it could be again and again.
Fairness ==
    /\ WF_keeperVars(Revert)
    /\ \A a \in Account : SF_keeperVars(KeeperLiquidates(a))
    /\ WF_keeperVars(KeeperSeized)
    /\ WF_keeperVars(KeeperRepays)
    /\ WF_keeperVars(KeeperEnds)

KeeperSpec == KeeperInit /\ [][KeeperNext]_keeperVars /\ Fairness

-----------------------------------------------------------------------------
\* However deposits, withdrawals, callbacks, reverts and price moves of others
\* come in between, an account that is unhealthy does not stay so: no lock
\* remains taken and no state is reached in which liquidate fails for good.
UnhealthyLiquidated ==
    \A a \in Account :
        BetweenTransactions /\ Unhealthy(a) ~> BetweenTransactions /\ ~Unhealthy(a)
=============================================================================
