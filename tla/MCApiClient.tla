---------------------------- MODULE MCApiClient ----------------------------
(* Small instances of ApiClient. *)
EXTENDS ApiClient

CONSTANTS c1, c2, c3

ThreeCalls == {c1, c2, c3}
=============================================================================
