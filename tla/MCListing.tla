------------------------------ MODULE MCListing ------------------------------
(* Small instances of Listing, and of the order of the listed tutors. *)
EXTENDS Listing, Ranking

CONSTANTS d1, c1, p1, p2

TwoSections   == {"subjects", "availability"}
OneSection    == {"availability"}
OneDoc        == {d1}
OneCommission == {c1}
TwoRequests   == {p1, p2}

(* Tutors with no, some and more lessons than the two requested days, on   *)
(* both sides of ten years, within, at and beyond their radius.            *)
TwoDays == {"MON", "WED"}
Plans   == {{}, {[day |-> "MON", mode |-> "ONLINE"]},
            {[day |-> "MON", mode |-> "ONLINE"], [day |-> "WED", mode |-> "OFFLINE"]}}
SomeTutors == [availability : Plans, experience : {9, 10, 30}, verified : BOOLEAN,
               rating : {0, 45}, radius : {3}, distance : {0, 1, 3, 4}]

(* Any three of those that differ in lessons, badge and distance.          *)
Alike  == {t \in SomeTutors : t.experience = 10 /\ t.rating = 0}
Triples == {{a, b, c} : a, b, c \in Alike}

(* As soon as a tutor is listed, he is ranked with the others, notified    *)
(* and found by the same measure (rankEligibleTutors, searchTutors).       *)
MatchesAreFair == listed => RankingIsFair /\ SearchFindsTheMatched
=============================================================================
