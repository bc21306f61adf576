------------------------------ MODULE MCViews ------------------------------
(* Small instances of Engagement and its views. *)
EXTENDS MCEngagement, Views

(* Bounds: requests are followed as long as they do not overlap, and there *)
(* are matches of one tutor or of one requirement.                         *)
Matched == {m \in Pairs : matchStatus[m] # "none"}

Pair == /\ alone
        /\ \/ \A m, n \in Matched : m[2] = n[2]
           \/ \A m, n \in Matched : m[1] = n[1]
=============================================================================
