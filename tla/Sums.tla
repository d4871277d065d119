-------------------------------- MODULE Sums --------------------------------
(***************************************************************************)
(* Sums of the values a Solidity mapping holds for the accounts 1..n.      *)
(* Written as a recursive function, so that the prover can reason about    *)
(* it: see ArithmeticProofs.                                                     *)
(***************************************************************************)
EXTENDS Integers

\* f[1] + ... + f[n].
Sum(f, n) ==
    LET prefix[i \in 0..n] == IF i = 0 THEN 0 ELSE prefix[i-1] + f[i]
    IN  prefix[n]
=============================================================================
