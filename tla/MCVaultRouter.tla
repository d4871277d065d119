--------------------------- MODULE MCVaultRouter ---------------------------
(***************************************************************************)
(* A lender, a borrower and the router.                                    *)
(***************************************************************************)
EXTENDS VaultRouter

FundsRouter == <<2, 0, 0>>
=============================================================================
