------------------------------ MODULE Aftercare ------------------------------
(***************************************************************************)
(* What follows an engagement: ratings, with the average kept on the       *)
(* tutor's row, and disputes.  One tutor has agreements with students of   *)
(* different requirements.  A handler checks, writes and, for a rating of  *)
(* the tutor, recomputes the average, in one database statement each; it   *)
(* may die between any two of them.                                        *)
(***************************************************************************)
EXTENDS Integers, FiniteSets, FiniteSetsExt

CONSTANTS Agreements,   \* agreements of the tutor, one per requirement
          Scores,       \* the scores that are given, out of 1 .. 5
          Handlers,     \* bound: ratings under way at once
          Admins        \* who closes disputes

ScoresAssumption == Scores \subseteq 1 .. 5
AgreementsAssumption == IsFiniteSet(Agreements)

VARIABLES
    status,     \* Agreement.status, by agreement; the requirement follows it
    ratings,    \* the rows of the table ratings
    tutor,      \* Tutor.ratingAvg in tenths (0 for null) and ratingCount
    rating,     \* the rating handlers in flight
    dispute,    \* the dispute of an agreement: its status and who resolved it
    closing,    \* the admins whose close has read the dispute as open
    torn,       \* history: two rating handlers overlapped, or one died
    clash       \* history: the disputes of which two closes overlapped

vars == <<status, ratings, tutor, rating, dispute, closing, torn, clash>>

Raters    == {"student", "tutor"}
Rows      == [agreement : Agreements, rater : Raters, score : Scores]
Averages  == [avg : 0 .. 50, count : 0 .. Cardinality(Agreements)]
Unrated   == [avg |-> 0, count |-> 0]
Idle      == [step |-> "idle", row |-> {}, found |-> Unrated]
NoDispute == [status |-> "none", by |-> {}]

InForce   == {"ACTIVE", "COMPLETED"}

Init ==
    /\ status = [a \in Agreements |-> "PENDING"]
    /\ ratings = {}
    /\ tutor = Unrated
    /\ rating = [h \in Handlers |-> Idle]
    /\ dispute = [a \in Agreements |-> NoDispute]
    /\ closing = [a \in Agreements |-> {}]
    /\ torn = FALSE
    /\ clash = {}

-----------------------------------------------------------------------------
(* The engagement itself. *)

Activate(a) ==
    /\ status[a] = "PENDING"
    /\ status' = [status EXCEPT ![a] = "ACTIVE"]
    /\ UNCHANGED <<ratings, tutor, rating, dispute, closing, torn, clash>>

(* complete() moves the requirement and its agreement to COMPLETED.        *)
Complete(a) ==
    /\ status[a] = "ACTIVE"
    /\ status' = [status EXCEPT ![a] = "COMPLETED"]
    /\ UNCHANGED <<ratings, tutor, rating, dispute, closing, torn, clash>>

-----------------------------------------------------------------------------
(* Ratings. *)

RatedBy(a, who) == \E row \in ratings : row.agreement = a /\ row.rater = who

Overlaps(h) == \E other \in Handlers \ {h} : rating[other].step # "idle"

(* Mutant: an engagement in force may be rated.                            *)
RateReadEarly(h, a, who, score) ==
    /\ rating[h] = Idle
    /\ status[a] # "PENDING"
    /\ ~RatedBy(a, who)
    /\ rating' = [rating EXCEPT ![h] = [Idle EXCEPT !.step = "checked", !.row =
                     {[agreement |-> a, rater |-> who, score |-> score]}]]
    /\ torn' = (torn \/ Overlaps(h))
    /\ UNCHANGED <<status, ratings, tutor, dispute, closing, clash>>

RateRead(h, a, who, score) ==
    /\ rating[h] = Idle
    /\ status[a] = "COMPLETED"
    /\ ~RatedBy(a, who)
    /\ rating' = [rating EXCEPT ![h] = [Idle EXCEPT !.step = "checked", !.row =
                     {[agreement |-> a, rater |-> who, score |-> score]}]]
    /\ torn' = (torn \/ Overlaps(h))
    /\ UNCHANGED <<status, ratings, tutor, dispute, closing, clash>>

(* The average goes on only for a rating of the tutor, who is the ratee of *)
(* the student.                                                            *)
Created(h) ==
    IF \E row \in rating[h].row : row.rater = "student"
    THEN [Idle EXCEPT !.step = "created"] ELSE Idle

(* Mutant: the table has no unique key.                                    *)
RateCreateAgain(h) ==
    /\ rating[h].step = "checked"
    /\ ratings' = ratings \union rating[h].row
    /\ rating' = [rating EXCEPT ![h] = Created(h)]
    /\ UNCHANGED <<status, tutor, dispute, closing, torn, clash>>

(* @@unique([agreementId, raterUserId]) fails the second of two rows, and  *)
(* the handler with it (RateDies).                                         *)
RateCreate(h) ==
    /\ rating[h].step = "checked"
    /\ \A row \in rating[h].row : ~RatedBy(row.agreement, row.rater)
    /\ ratings' = ratings \union rating[h].row
    /\ rating' = [rating EXCEPT ![h] = Created(h)]
    /\ UNCHANGED <<status, tutor, dispute, closing, torn, clash>>

(* Math.round(avg * 10), in tenths.                                        *)
Rounded(sum, count) == (20 * sum + count) \div (2 * count)

(* Mutant: both ratings of an agreement count for the tutor.               *)
AggregateOfAll(rows) ==
    LET sum == MapThenSumSet(LAMBDA row : row.score, rows)
    IN  IF rows = {} THEN Unrated
        ELSE [avg |-> Rounded(sum, Cardinality(rows)), count |-> Cardinality(rows)]

(* The average and the number of the ratings whose ratee is the tutor.     *)
Aggregate(rows) ==
    LET received == {row \in rows : row.rater = "student"}
        sum      == MapThenSumSet(LAMBDA row : row.score, received)
    IN  IF received = {} THEN Unrated
        ELSE [avg |-> Rounded(sum, Cardinality(received)),
              count |-> Cardinality(received)]

AggregateRead(h) ==
    /\ rating[h].step = "created"
    /\ rating' = [rating EXCEPT ![h] = [Idle EXCEPT !.step = "read",
                                                    !.found = Aggregate(ratings)]]
    /\ UNCHANGED <<status, ratings, tutor, dispute, closing, torn, clash>>

AggregateWrite(h) ==
    /\ rating[h].step = "read"
    /\ tutor' = rating[h].found
    /\ rating' = [rating EXCEPT ![h] = Idle]
    /\ UNCHANGED <<status, ratings, dispute, closing, torn, clash>>

RateDies(h) ==
    /\ rating[h].step # "idle"
    /\ rating' = [rating EXCEPT ![h] = Idle]
    /\ torn' = (torn \/ rating[h].step \in {"created", "read"})
    /\ UNCHANGED <<status, ratings, tutor, dispute, closing, clash>>

-----------------------------------------------------------------------------
(* Disputes.  One of each agreement is enough: they do not meet. *)

DisputeCreate(a) ==
    /\ status[a] \in InForce
    /\ dispute[a] = NoDispute
    /\ dispute' = [dispute EXCEPT ![a].status = "OPEN"]
    /\ UNCHANGED <<status, ratings, tutor, rating, closing, torn, clash>>

(* Mutant: closing does not look at the status.                            *)
CloseReadAny(a, admin) ==
    /\ dispute[a] # NoDispute
    /\ admin \notin closing[a]
    /\ closing' = [closing EXCEPT ![a] = @ \union {admin}]
    /\ clash' = IF closing[a] = {} THEN clash ELSE clash \union {a}
    /\ UNCHANGED <<status, ratings, tutor, rating, dispute, torn>>

CloseRead(a, admin) ==
    /\ dispute[a].status = "OPEN"
    /\ admin \notin closing[a]
    /\ closing' = [closing EXCEPT ![a] = @ \union {admin}]
    /\ clash' = IF closing[a] = {} THEN clash ELSE clash \union {a}
    /\ UNCHANGED <<status, ratings, tutor, rating, dispute, torn>>

(* The update is by id: it does not look at the status again.              *)
CloseWrite(a, admin) ==
    /\ admin \in closing[a]
    /\ dispute' = [dispute EXCEPT ![a] = [status |-> "RESOLVED", by |-> {admin}]]
    /\ closing' = [closing EXCEPT ![a] = @ \ {admin}]
    /\ UNCHANGED <<status, ratings, tutor, rating, torn, clash>>

Next ==
    \/ \E a \in Agreements :
          \/ Activate(a) \/ Complete(a)
          \/ DisputeCreate(a)
          \/ \E admin \in Admins : CloseRead(a, admin) \/ CloseWrite(a, admin)
    \/ \E h \in Handlers :
          \/ RateCreate(h) \/ AggregateRead(h) \/ AggregateWrite(h) \/ RateDies(h)
          \/ \E a \in Agreements, who \in Raters, score \in Scores : RateRead(h, a, who, score)

Spec == Init /\ [][Next]_vars

-----------------------------------------------------------------------------
(* Every variable has its type, only engagements that ended were rated,    *)
(* and only those in force are disputed.                                   *)
TypeOK ==
    /\ status \in [Agreements -> {"PENDING"} \union InForce]
    /\ ratings \subseteq Rows
    /\ tutor \in Averages
    /\ rating \in [Handlers -> [step : {"idle", "checked", "created", "read"},
                                row : SUBSET Rows, found : Averages]]
    /\ dispute \in [Agreements -> [status : {"none", "OPEN", "RESOLVED"}, by : SUBSET Admins]]
    /\ closing \in [Agreements -> SUBSET Admins]
    /\ torn \in BOOLEAN /\ clash \subseteq Agreements
    /\ \A row \in ratings : status[row.agreement] = "COMPLETED"
    /\ \A a \in Agreements : dispute[a] # NoDispute => status[a] \in InForce

Quiet == \A h \in Handlers : rating[h] = Idle

(* A party rates an engagement once, whatever calls overlap and wherever   *)
(* they die: docs/FUNCTIONALITY.md, "One rating per party per completed    *)
(* engagement" (create and the unique key of the table).                   *)
OneRating ==
    \A r, s \in ratings : r.agreement = s.agreement /\ r.rater = s.rater => r = s

(* With no rating under way the tutor's row counts the ratings the tutor   *)
(* received, and its average is that of their scores to the nearest tenth  *)
(* (refreshTutorAggregate), unless handlers overlapped, or one died before *)
(* it had written it.                                                      *)
AverageIsTrue ==
    LET received == {row \in ratings : row.rater = "student"}
        sum      == MapThenSumSet(LAMBDA row : row.score, received)
        error    == 10 * sum - tutor.avg * tutor.count
    IN  ~torn /\ Quiet =>
            /\ tutor.count = Cardinality(received)
            /\ 2 * error <= tutor.count /\ -2 * error <= tutor.count

(* A dispute of which no two closes overlapped stays resolved as it was    *)
(* first (close): only a close that had read it as open while another one  *)
(* was under way can replace the resolution.                               *)
ResolutionStands ==
    [][\A a \in Agreements \ clash :
          dispute[a].status = "RESOLVED" => dispute'[a] = dispute[a]]_vars
=============================================================================
