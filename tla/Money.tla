-------------------------------- MODULE Money -------------------------------
(***************************************************************************)
(* Amounts and exchange rates (apps/api/src/common/currency-conversion.ts  *)
(* and the Decimal columns of prisma/schema.prisma).  An amount is an      *)
(* integer number of thousandths, one digit finer than the two decimals a  *)
(* money column keeps, so that an input with too many decimals exists.     *)
(***************************************************************************)
EXTENDS Integers

Currencies == {"JPY", "VND"}

(* n / d to the nearest multiple of ten, half away from zero, for d > 0:   *)
(* Decimal.toDecimalPlaces(2), and what a Decimal(18,2) column does.       *)
Cents(n, d) ==
    IF n >= 0 THEN 10 * ((2 * n + 10 * d) \div (20 * d))
              ELSE -10 * ((10 * d - 2 * n) \div (20 * d))

Column(x) == Cents(x, 1)

(* convertAmount, at a rate of VND per JPY: multiply or divide, round.     *)
Convert(x, from, rate) ==
    IF from = "JPY" THEN Column(x * rate) ELSE Cents(x, rate)

=============================================================================
