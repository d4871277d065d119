------------------------------ MODULE MCMToken ------------------------------
(***************************************************************************)
(* The initial holdings of the asset for the runs of MToken.               *)
(***************************************************************************)
EXTENDS MToken

FundsLending == <<3, 1>>
FundsMarket  == <<2, 0>>
FundsRedeem  == <<20, 0>>
=============================================================================
