----------------------------- MODULE MCCalendar -----------------------------
(* Small instances of Calendar: days of four ticks, a buffer of one. *)
EXTENDS Calendar, TLC

CONSTANTS m1, m2, p1, p2

TwoMatches  == {m1, m2}
TwoRequests == {p1, p2}

(* Lessons on the day on which the clock runs: some end the same day, some *)
(* past midnight on the date of the demos, and Late and Evening do not     *)
(* keep the buffer between them.                                           *)
Noon    == [day |-> 0, start |-> 1, end |-> 2]
Late    == [day |-> 0, start |-> 2, end |-> 3]
Evening == [day |-> 0, start |-> 3, end |-> 1]

Agreed   == [m \in Matches |-> IF m = m1 THEN <<Evening, Late>> ELSE <<Noon>>]
Tomorrow == {5}
Away     == {1}

Symmetry == Permutations(Requests)
=============================================================================
