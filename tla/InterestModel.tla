---------------------------- MODULE InterestModel ----------------------------
(***************************************************************************)
(* The interest models a market can be given.  BaseInterestModel is the    *)
(* one the repository ships; a market's owner may replace it by any        *)
(* contract with the same interface, for which the flat model stands.      *)
(* Rates are yearly, in basis points.                                      *)
(***************************************************************************)
EXTENDS FixedPointMath

CONSTANTS
    FlatRate        \* the rate of the replacement model

ASSUME FlatRateAssumption == FlatRate \in Nat

TargetApy         == 1000
UtilizationTarget == 8500
MaxApy            == 7000

\* The share of the vault's assets that is lent out.
Utilization(cash, borrows) == MulDivUp(borrows, Bips, cash + borrows)

\* BaseInterestModel.getInterestRate: a slope up to TargetApy at the target
\* utilization, then a steeper one up to MaxApy at full utilization.
BaseInterestRate(cash, borrows) ==
    LET utilization == Utilization(cash, borrows)
    IN  IF borrows = 0
        THEN 0
        ELSE IF utilization > UtilizationTarget
             THEN TargetApy + MulDivUp(MaxApy - TargetApy,
                                       utilization - UtilizationTarget,
                                       Bips - UtilizationTarget)
             ELSE MulDivUp(TargetApy, utilization, UtilizationTarget)

InterestModels == {"base", "flat"}

\* IInterestModel(model).getInterestRate(cash, borrows)
ModelInterestRate(model, cash, borrows) ==
    IF model = "base" THEN BaseInterestRate(cash, borrows) ELSE FlatRate
=============================================================================
