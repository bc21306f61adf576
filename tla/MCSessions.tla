----------------------------- MODULE MCSessions -----------------------------
(* Small instances of Sessions. *)
EXTENDS Sessions, TLC

CONSTANTS b1, k1, k2, k3, k4, k5, p1, p2

OneTab      == {b1}
FiveTokens  == {k1, k2, k3, k4, k5}
TwoRequests == {p1, p2}
=============================================================================
