--------------------------------- MODULE Gst ---------------------------------
(***************************************************************************)
(* The arithmetic of an invoice.  Prices include GST of 18 per cent.       *)
(* Charges are whole rupees, their parts are counted in paise.             *)
(***************************************************************************)
EXTENDS Integers, Sequences

CONSTANT Fees   \* monthly fees, in rupees

ASSUME FeesAssumption == Fees \subseteq Nat

RegistrationFee == 199

(* a / b to the nearest integer, halves upward.                            *)
Rounded(a, b) == (2 * a + b) \div (2 * b)

CommissionGross(fee) == Rounded(3 * fee, 10)

(* gross / 1.18, in paise.  The quotient is never halfway between two.     *)
Taxable(gross) == Rounded(100 * 100 * gross, 118)

(* Mutant: 18 per cent of the gross price.                                 *)
TaxOnTop(gross) == Rounded(100 * 18 * gross, 100)

Tax(gross) == 100 * gross - Taxable(gross)

(* The halves of a tax: an odd amount is cut as the nearest double falls.  *)
Halves(tax) == {<<h, tax - h>> : h \in {tax \div 2, (tax + 1) \div 2}}

(* A commission, with or without the registration fee.                     *)
Invoice(fee, registration) ==
    LET commission == CommissionGross(fee)
    IN  [gross   |-> commission + registration,
         taxable |-> Taxable(commission) + Taxable(registration),
         tax     |-> Tax(commission) + Tax(registration)]

(* The lines that the invoice shows; that of the registration fee only if  *)
(* it is charged.                                                          *)
Line(gross) == [gross |-> gross, taxable |-> Taxable(gross), tax |-> Tax(gross)]

LineItems(fee, registration) ==
    <<Line(CommissionGross(fee))>> \o IF registration > 0 THEN <<Line(registration)>> ELSE <<>>

Abs(n) == IF n < 0 THEN -n ELSE n

(* The parts of an invoice add up to what is charged, the tax is 18 per    *)
(* cent of the taxable amount to the paisa although each line was rounded  *)
(* by itself, CGST and SGST add up to the tax and differ by a paisa, and   *)
(* the totals are those of the lines that are shown.                       *)
Balances(fee, registration) ==
    LET i == Invoice(fee, registration)
        l == LineItems(fee, registration)
    IN  /\ i.taxable + i.tax = 100 * i.gross
        /\ i = IF Len(l) = 1 THEN l[1]
               ELSE [gross |-> l[1].gross + l[2].gross, taxable |-> l[1].taxable + l[2].taxable,
                     tax |-> l[1].tax + l[2].tax]
        /\ Abs(100 * i.tax - 18 * i.taxable) <= 118
        /\ \A half \in Halves(i.tax) : /\ half[1] + half[2] = i.tax
                                       /\ Abs(half[1] - half[2]) <= 1

(* Whether the invoices of all fees do, without and with the registration  *)
(* fee.                                                                    *)
AllBalance == [registration \in {0, RegistrationFee} |->
                  \A fee \in Fees : Balances(fee, registration)]
=============================================================================
