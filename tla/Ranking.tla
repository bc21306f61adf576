------------------------------- MODULE Ranking -------------------------------
(***************************************************************************)
(* The order in which listed tutors are shown to a student and notified of *)
(* a requirement.  Scores are counted in tenths, as the code rounds them.  *)
(***************************************************************************)
EXTENDS Integers, FiniteSets

CONSTANTS Tutor,    \* the tutors that are compared, as records of their merits
          Groups,   \* the groups of them that may match a search
          TopN,     \* how many of them are notified
          MostRead, \* how many rows a search reads at most (200)
          Days      \* the requested weekdays

Modes == {"ONLINE", "OFFLINE", "BOTH"}

WeekDays == {"MON", "TUE", "WED", "THU", "FRI", "SAT", "SUN"}

(* What counts for a tutor's rank; a missing experience or rating is 0.    *)
Merits == [availability : SUBSET [day : WeekDays, mode : {"ONLINE", "OFFLINE"}],
           experience : Nat, verified : BOOLEAN, rating : Nat,
           radius : Nat, distance : Nat]

ASSUME TutorAssumption == Tutor \subseteq Merits
ASSUME GroupsAssumption == \A S \in Groups : S \subseteq Tutor /\ IsFiniteSet(S)
ASSUME DaysAssumption == Days \subseteq WeekDays /\ Days # {}
ASSUME LimitsAssumption == TopN \in Nat /\ MostRead \in Nat

(* What tutors are ranked for: a requirement, which has a place, or a      *)
(* search, which may have none and knows no weekdays of its own.           *)
Need(mode) == [days |-> Days, mode |-> mode, placed |-> mode # "ONLINE"]

SearchDays == {"MON", "WED", "FRI"}

Search(mode, here) == [days |-> SearchDays, mode |-> mode, placed |-> here /\ mode # "ONLINE"]

(* On how many requested days the tutor is available in the mode asked for.*)
Hits(q, availability) ==
    Cardinality({d \in q.days : \E a \in availability :
                    a.day = d /\ (q.mode = "BOTH" \/ a.mode = q.mode)})

Least(a, b) == IF a < b THEN a ELSE b
Most(a, b) == IF a > b THEN a ELSE b

RoundedTo(a, b) == (2 * a + b) \div (2 * b)

(* The part for schedule and distance, over a common denominator.          *)
Fit(t, q) ==
    LET n == Cardinality(q.days)
        r == Most(t.radius, 1)
        near == IF q.placed THEN 200 * n * (r - t.distance) ELSE 0
    IN  RoundedTo(300 * r * Hits(q, t.availability) + near, n * r)

(* Mutant: experience counts without limit.                                *)
Years(t) == 10 * t.experience

Experience(t) == 10 * Least(t.experience, 10)

Score(t, q) ==
    500 + Fit(t, q) + Experience(t) + (IF t.verified THEN 180 ELSE 0) + 2 * t.rating

(* Within the tutor's own radius, its edge included; a tutor without a     *)
(* place or a radius is far from everyone.                                 *)
Near(t) == t.distance <= t.radius

Reaches(t, q) == ~q.placed \/ Near(t)

(* Everyone of S once, the best score first; the sort says nothing of ties.*)
Orders(s, S, q) ==
    /\ {s[i] : i \in DOMAIN s} = S
    /\ \A i, j \in DOMAIN s : i < j => Score(s[i], q) >= Score(s[j], q)

Ranked(S, q) ==
    LET found == {t \in S : Reaches(t, q)}
    IN  CHOOSE s \in [1 .. Cardinality(found) -> found] : Orders(s, found, q)

Notified(S, mode) ==
    LET ranked == Ranked(S, Need(mode))
    IN  {ranked[i] : i \in DOMAIN ranked \cap 1 .. TopN}

RowsRead(S, most) == {R \in SUBSET S : Cardinality(R) = Least(Cardinality(S), most)}

(* Mutant: a search reads as few tutors as a requirement notifies.         *)
ReadFew(S) == RowsRead(S, TopN)

(* The query of a search reads some MostRead of the listed tutors that     *)
(* match, in no order, before any is ranked or found to be too far away.   *)
Read(S) == RowsRead(S, MostRead)

-----------------------------------------------------------------------------
AtLeast(a, b) ==
    /\ b.availability \subseteq a.availability
    /\ a.experience >= b.experience
    /\ a.verified \/ ~b.verified
    /\ a.rating >= b.rating
    /\ a.radius = b.radius /\ a.distance <= b.distance

(* Whoever is notified of a requirement can reach it and scores at least   *)
(* as much as anyone who is not; a tutor who is as good as another in      *)
(* every respect does not score less, whatever the rounding; and a         *)
(* verified badge outweighs ten years of experience, which alone count.    *)
RankingIsFair ==
    \A mode \in Modes, a, b \in Tutor :
        LET q == Need(mode)
        IN  /\ AtLeast(a, b) => Score(a, q) >= Score(b, q)
            /\ a = [b EXCEPT !.verified = TRUE, !.experience = a.experience] /\ ~b.verified
                   => Score(a, q) > Score(b, q)
            /\ a \in Notified({a, b}, mode) =>
                   /\ mode # "ONLINE" => a.distance <= a.radius
                   /\ \/ b \in Notified({a, b}, mode)
                      \/ mode # "ONLINE" /\ b.distance > b.radius
                      \/ Score(a, q) >= Score(b, q)

(* The two ways a student and a tutor find each other agree: a tutor that  *)
(* the requirement would notify is found by a search for the same mode     *)
(* from the same place, or from no place, unless more tutors match than a  *)
(* search reads; and no one who was read and is found stands below a       *)
(* tutor with a lower score (searchTutors, notifyTopMatches).              *)
SearchFindsTheMatched ==
    \A S \in Groups, mode \in Modes, here \in BOOLEAN : \A R \in Read(S) :
        LET q == Search(mode, here)
            found == Ranked(R, q)
        IN  /\ Cardinality(S) <= MostRead
                   => Notified(S, mode) \subseteq {found[i] : i \in DOMAIN found}
            /\ \A i, j \in DOMAIN found : i < j => Score(found[i], q) >= Score(found[j], q)
=============================================================================
