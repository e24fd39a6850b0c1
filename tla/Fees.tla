-------------------------------- MODULE Fees --------------------------------
(***************************************************************************)
(* What a transaction costs: FeeSetup, and the arithmetic of               *)
(* accumulate_amount_with_fees_and_vat and its twin                        *)
(* calculate_fees_and_vat_for_amount.                                      *)
(*                                                                         *)
(* An amount is a number of piasters, a fee or a VAT one of ten-thousandths *)
(* of a pound (they are rounded at four places), a percentage one of       *)
(* hundredths of a per cent.                                               *)
(***************************************************************************)
EXTENDS Integers

Types == {"fixed", "percentage", "mixed"}

\* the fixed, minimum and maximum fee are kept at two places, so in piasters
FeeSetup == [type : Types, fixed : Nat, percentage : Nat, min : Nat, max : Nat]

\* Units: ten-thousandths in a piaster
Units == 100

\* round() of a Decimal: to the nearest, a half to the even
HalfEven(n, d) ==
  LET q == n \div d  m == n % d
  IN IF 2 * m < d \/ (2 * m = d /\ q % 2 = 0) THEN q ELSE q + 1

Percentage(s, amount) == HalfEven(amount * s.percentage, 100)

\* the fees before the limits; a mixed fee has its fixed part once
Raw(s, amount, num_of_trns) ==
  CASE s.type = "fixed"      -> s.fixed * Units * num_of_trns
    [] s.type = "percentage" -> Percentage(s, amount)
    [] s.type = "mixed"      -> Percentage(s, amount) + s.fixed * Units

\* a limit of zero is none
AtLeast(s, fee) == IF s.min > 0 /\ s.min * Units > fee THEN s.min * Units ELSE fee
AtMost(s, fee)  == IF s.max > 0 /\ s.max * Units < fee THEN s.max * Units ELSE fee

Fee(s, amount, num_of_trns) == AtMost(s, AtLeast(s, Raw(s, amount, num_of_trns)))

Vat(fee) == HalfEven(fee * 14, 100)

\* accumulate_amount_with_fees_and_vat, in piasters
Cost(s, amount, num_of_trns) ==
  LET fee == Fee(s, amount, num_of_trns)
  IN HalfEven(amount * Units + fee + Vat(fee), Units)
=============================================================================
