------------------------------ MODULE MCBilling ------------------------------
(* Small instances of Billing, and of the arithmetic of its invoices. *)
EXTENDS Billing, TLC

CONSTANTS t1, c1, q1, q2, p1, p2

OneTutor       == {t1}
OneCommission  == {c1}
TwoPayments    == {q1, q2}
OneRequest     == {p1}
TwoRequests    == {p1, p2}

(* Fees whose commissions take every remainder of the rounding.            *)
ManyFees == 0 .. 2500
NoFees   == {}

(* All commissions are owed by the same tutor.                             *)
SameTutor == [c \in Commissions |-> t1]

(* Requests, payments and commissions are interchangeable; used in safety  *)
(* runs only.                                                              *)
Symmetry == Permutations(Requests) \union Permutations(Payments)
               \union Permutations(Commissions)
=============================================================================
