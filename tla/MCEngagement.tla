---------------------------- MODULE MCEngagement ----------------------------
(* Small instances of Engagement. *)
EXTENDS Engagement, TLC

CONSTANTS r1, r2, t1, t2, s1, p1, p2, p3

OneRequirement  == {r1}
TwoRequirements == {r1, r2}
OneTutor        == {t1}
TwoTutors       == {t1, t2}
OneStudent      == {s1}
OneRequest      == {p1}
TwoRequests     == {p1, p2}
ThreeRequests   == {p1, p2, p3}

(* Every requirement is posted by the same student, and every tutor may    *)
(* apply to it.                                                            *)
SameStudent == [r \in Requirements |-> s1]
AllEligible == Requirements \X Tutors

(* Requests are interchangeable, and so are tutors and requirements;       *)
(* used in safety runs only.                                               *)
Symmetry == Permutations(Requests) \union Permutations(Tutors)
               \union Permutations(Requirements)
=============================================================================
